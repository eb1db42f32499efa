------------------------ MODULE ClientInput_proofs -------------------------
(***************************************************************************)
(* What the parser of a control message makes of any message, for all      *)
(* limits: a tree with nothing lost, from a pool that suffices, with a     *)
(* bounded overrun; and what is answered to the document it describes.     *)
(* Blocks, frames and sockets come and go around it.                       *)
(*                                                                         *)
(* Then the scanner of request heads, for all requests: it does not matter *)
(* how the bytes were cut; a request is not refused exactly when it is     *)
(* admissible as a whole (HeadIsJudged), and a socket is accepted, passed  *)
(* or refused as ScannerAgrees says.  Consume and Joined are recursive     *)
(* functions, so their properties are proved by induction over the table   *)
(* of their values.                                                        *)
(***************************************************************************)
EXTENDS ClientInput, TLAPS, SequenceTheorems, FiniteSetTheorems, WellFoundedInduction

(* A string takes no more of the pool than it took of the message. *)
PoolInv == pool + left <= MaxMessage

(* Containers are opened up to the depth at which a value is refused. *)
DepthInv == Len(stack) <= MaxDepth + 1

(* A container whose value is still being parsed: the value of an inner    *)
(* one, or the one that is looked for.                                     *)
Waits(i) == i < Len(stack) \/ need = "value"

(* No container of this kind looks for another value once its array is     *)
(* full, so the ones that wait lie the deeper the fewer were stored since. *)
FullInv(kind, stored, room) ==
  stored >= room =>
    \A i \in 1 .. Len(stack) :
      stack[i].kind = kind /\ Waits(i) => i + stored < room + MaxDepth

RoomInv == FullInv("object", members, MaxMembers) /\ FullInv("array", items, MaxItems)

ParserInv ==
  /\ ControlTypeOK
  /\ PoolInv /\ DepthInv /\ RoomInv
  /\ DocumentIsSound

-----------------------------------------------------------------------------
(* A document that is cleared, because its message begins, ends or is      *)
(* refused, is sound.                                                      *)
LEMMA ClearedKeeps ==
  ASSUME ParserInv, Cleared,
         need' \in {"idle", "value", "judge"},
         left' \in 0 .. MaxMessage,
         buffer' \in [size : 0 .. MaxMessage, assembling : BOOLEAN],
         refused' \in Limits \ {"pool"},
         judged'.type \in MessageTypes \cup {"none", "other"},
         verdict' \in Verdicts
  PROVE  ParserInv'
<1>1. stack' \in Seq(Containers) /\ Len(stack') = 0
  BY EmptySeq DEF Cleared
<1>2. ControlTypeOK'
  BY <1>1 DEF ControlTypeOK, Cleared, Needs, Limits
<1>3. PoolInv' /\ DepthInv'
  <2>1. pool' = 0 /\ pool' \in Nat /\ left' \in Nat /\ left' <= MaxMessage
    BY LimitAssumption DEF Cleared
  <2>2. pool' + left' <= MaxMessage
    BY <2>1
  <2>3. DepthInv'
    BY <1>1, LimitAssumption DEF DepthInv
  <2> QED
    BY <2>2, <2>3 DEF PoolInv
<1>4. RoomInv'
  BY <1>1 DEF RoomInv, FullInv
<1>5. DocumentIsATree'
  BY <1>1 DEF DocumentIsATree, Cleared
<1>6. PoolSuffices' /\ OverrunIsBounded'
  BY DEF PoolSuffices, OverrunIsBounded, Cleared
<1> QED
  BY <1>2, <1>3, <1>4, <1>5, <1>6 DEF ParserInv, DocumentIsSound

LEMMA RefuseKeeps ==
  ASSUME ParserInv, NEW limit \in Limits \ {"pool"}, NEW code \in Verdicts,
         Refuse(limit, code),
         buffer' \in [size : 0 .. MaxMessage, assembling : BOOLEAN]
  PROVE  ParserInv'
<1>1. NoDocument.type = "none"
  BY DEF NoDocument
<1>2. 0 \in 0 .. MaxMessage
  BY LimitAssumption
<1> QED
  BY <1>1, <1>2, ClearedKeeps DEF Refuse

LEMMA InvalidKeeps ==
  ASSUME ParserInv, NEW limit \in Limits \ {"pool"}, Invalid(limit)
  PROVE  ParserInv'
BY RefuseKeeps DEF Invalid, Verdicts, ParserInv, ControlTypeOK

(* What a string needs of the pool is there. *)
LEMMA PoolHasRoom ==
  ASSUME ParserInv, NEW s \in Strings, s.raw <= left
  PROVE  /\ StringLimit(s) \in Limits \ {"pool"}
         /\ Taken(s) \in Nat
         /\ left - s.raw \in 0 .. MaxMessage
         /\ pool + Taken(s) + (left - s.raw) <= MaxMessage
<1>1. /\ left \in 0 .. MaxMessage /\ pool \in Nat /\ pool + left <= MaxMessage
      /\ MaxMessage \in Nat /\ PoolSize \in Nat /\ MaxMessage < PoolSize
      /\ s.bytes \in Nat /\ s.raw \in Nat /\ s.bytes + 2 <= s.raw
  BY LimitAssumption, PoolAssumption, StringAssumption DEF ParserInv, ControlTypeOK, PoolInv
<1>2. Taken(s) \in Nat /\ pool + Taken(s) <= PoolSize
  BY <1>1 DEF Taken
<1>3. StringLimit(s) \in {"string", "none"}
  BY <1>1, <1>2 DEF StringLimit
<1> QED
  BY <1>1, <1>2, <1>3 DEF Taken, Limits

-----------------------------------------------------------------------------
(* A value is stored in the container that waits for it, at a depth that   *)
(* was allowed.                                                            *)
LEMMA StoreKeeps ==
  ASSUME ParserInv, NEW open \in Seq(Containers),
         Len(open) <= Len(stack), Len(open) <= MaxDepth,
         \A i \in 1 .. Len(open) : open[i].kind = stack[i].kind /\ Waits(i),
         Store(open)
  PROVE  /\ need' \in {"end", "after"}
         /\ stack' \in Seq(Containers) /\ Len(stack') = Len(open)
         /\ members' \in Nat /\ items' \in Nat
         /\ members' + items' = (IF need' = "end" THEN members + items ELSE members + items + 1)
         /\ need' = "end" => open = <<>>
         /\ RoomInv' /\ OverrunIsBounded'
<1> DEFINE n == Len(open)
           Stored == [kind |-> open[n].kind, count |-> open[n].count + 1,
                      keys |-> open[n].keys \cup {open[n].key}, key |-> NoKey]
<1>1. /\ n \in Nat /\ Len(stack) \in Nat /\ members \in Nat /\ items \in Nat
      /\ MaxDepth \in Nat /\ MaxMembers \in Nat /\ MaxItems \in Nat
      /\ \A i \in 1 .. n : open[i] \in Containers
  BY LenProperties, ElementOfSeq, LimitAssumption DEF ParserInv, ControlTypeOK
<1>2. CASE open = <<>>
  <2>1. stack' = <<>> /\ need' = "end" /\ members' = members /\ items' = items
    BY <1>2 DEF Store
  <2>2. Len(stack') = 0 /\ n = 0
    BY <2>1, <1>2, EmptySeq
  <2>3. RoomInv'
    BY <2>2 DEF RoomInv, FullInv
  <2>4. OverrunIsBounded'
    BY <2>1 DEF ParserInv, DocumentIsSound, OverrunIsBounded
  <2> QED
    BY <1>1, <1>2, <2>1, <2>2, <2>3, <2>4
<1>3. CASE open # <<>>
  <2>1. n \in 1 .. n
    BY <1>1, <1>3, EmptySeq
  <2>2. /\ need' = "after" /\ stack' = [open EXCEPT ![n] = Stored]
        /\ IF open[n].kind = "object" THEN members' = members + 1 /\ items' = items
                                      ELSE items' = items + 1 /\ members' = members
    BY <1>3 DEF Store
  <2>3. Stored \in Containers /\ Stored.kind = open[n].kind
    <3>1. open[n] \in Containers
      BY <1>1, <2>1
    <3>2. /\ open[n].kind \in {"object", "array"} /\ open[n].count + 1 \in Nat
          /\ open[n].keys \cup {open[n].key} \in SUBSET Keys /\ NoKey \in Keys
      BY <3>1 DEF Containers, Keys
    <3> QED
      BY <3>2 DEF Containers
  <2>4. /\ stack' \in Seq(Containers) /\ Len(stack') = n
        /\ \A i \in 1 .. n : stack'[i] = IF i = n THEN Stored ELSE open[i]
    BY <2>1, <2>2, <2>3, ExceptSeq
  <2>5. \A i \in 1 .. n : stack'[i].kind = stack[i].kind
    BY <2>3, <2>4
  <2>6. open[n].kind \in {"object", "array"}
    BY <1>1, <2>1 DEF Containers
  <2>7. ASSUME NEW kind, NEW stored \in Nat, NEW after \in Nat, NEW room \in Nat,
               FullInv(kind, stored, room),
               stored # 0 => stored < room + MaxDepth,
               after = IF open[n].kind = kind THEN stored + 1 ELSE stored
        PROVE  /\ after >= room =>
                    \A i \in 1 .. n : stack'[i].kind = kind /\ i < n => i + after < room + MaxDepth
               /\ after # 0 => after < room + MaxDepth
    <3>1. CASE stored < room
      BY <1>1, <2>1, <2>7, <3>1
    <3>2. CASE stored >= room
      <4>1. \A i \in 1 .. n : stack'[i].kind = kind => i + stored < room + MaxDepth
        BY <1>1, <2>5, <2>7, <3>2 DEF FullInv
      <4>2. CASE open[n].kind = kind
        <5>1. stack'[n].kind = kind
          BY <2>1, <2>3, <2>4, <4>2
        <5>2. n + stored < room + MaxDepth
          BY <2>1, <4>1, <5>1
        <5> QED
          BY <1>1, <2>1, <2>7, <4>2, <5>2
      <4>3. CASE open[n].kind # kind
        BY <1>1, <2>7, <4>1, <4>3
      <4> QED
        BY <4>2, <4>3
    <3> QED
      BY <1>1, <2>7, <3>1, <3>2
  <2>8. members' \in Nat /\ items' \in Nat
    BY <1>1, <2>2
  <2>9. /\ members' = IF open[n].kind = "object" THEN members + 1 ELSE members
        /\ items' = IF open[n].kind = "array" THEN items + 1 ELSE items
    BY <2>2, <2>6
  <2>10. /\ FullInv("object", members, MaxMembers) /\ FullInv("array", items, MaxItems)
         /\ members # 0 => members < MaxMembers + MaxDepth
         /\ items # 0 => items < MaxItems + MaxDepth
    BY DEF ParserInv, RoomInv, DocumentIsSound, OverrunIsBounded
  <2>11. /\ members' >= MaxMembers =>
              \A i \in 1 .. n : stack'[i].kind = "object" /\ i < n => i + members' < MaxMembers + MaxDepth
         /\ members' # 0 => members' < MaxMembers + MaxDepth
    BY <1>1, <2>7, <2>8, <2>9, <2>10
  <2>12. /\ items' >= MaxItems =>
              \A i \in 1 .. n : stack'[i].kind = "array" /\ i < n => i + items' < MaxItems + MaxDepth
         /\ items' # 0 => items' < MaxItems + MaxDepth
    BY <1>1, <2>7, <2>8, <2>9, <2>10
  <2>13. RoomInv' /\ OverrunIsBounded'
    BY <2>2, <2>4, <2>11, <2>12 DEF RoomInv, FullInv, Waits, OverrunIsBounded
  <2> QED
    BY <1>1, <1>3, <2>2, <2>4, <2>8, <2>9, <2>6, <2>13
<1> QED
  BY <1>2, <1>3

(* The whole invariant after a value was stored. *)
LEMMA StoredKeeps ==
  ASSUME ParserInv, need \notin {"idle", "judge"}, NEW open \in Seq(Containers),
         Len(open) <= Len(stack), Len(open) <= MaxDepth,
         \A i \in 1 .. Len(open) : open[i].kind = stack[i].kind /\ Waits(i),
         Store(open),
         nodes' \in Nat,
         nodes' = members + items + Len(open) + 1,
         pool' \in Nat, left' \in 0 .. MaxMessage, pool' + left' <= MaxMessage,
         UNCHANGED <<buffer, answer>>
  PROVE  ParserInv'
<1>1. /\ need' \in {"end", "after"}
      /\ stack' \in Seq(Containers) /\ Len(stack') = Len(open)
      /\ members' \in Nat /\ items' \in Nat
      /\ members' + items' = (IF need' = "end" THEN members + items ELSE members + items + 1)
      /\ RoomInv' /\ OverrunIsBounded'
  BY StoreKeeps
<1>2. ControlTypeOK'
  BY <1>1 DEF ParserInv, ControlTypeOK, Needs, answer
<1>3. Len(open) \in Nat /\ members \in Nat /\ items \in Nat /\ MaxDepth \in Nat
  BY LenProperties, LimitAssumption DEF ParserInv, ControlTypeOK
<1>4. PoolInv' /\ DepthInv'
  BY <1>1, <1>3 DEF PoolInv, DepthInv
<1> HIDE DEF Store, Waits
<1>4a. members' \in Nat /\ items' \in Nat
  BY <1>1
<1>5. nodes' = members' + items' + Len(stack') + (IF need' = "end" THEN 1 ELSE 0)
  <2>1. PICK n \in Nat, c \in Nat, d \in Nat : n = nodes' /\ c = members' /\ d = items'
    BY <1>4a
  <2>2. n = members + items + Len(open) + 1
    BY <2>1
  <2>3. CASE need' = "end"
    <3>1. c + d = members + items
      BY <1>1, <2>1, <2>3
    <3>2. n = c + d + Len(open) + 1
      BY <1>3, <2>2, <3>1
    <3> QED
      BY <1>1, <2>1, <2>3, <3>2
  <2>4. CASE need' = "after"
    <3>1. c + d = members + items + 1
      BY <1>1, <2>1, <2>4
    <3>2. n = c + d + Len(open) + 0
      BY <1>3, <2>2, <3>1, SMTT(30)
    <3> QED
      BY <1>1, <2>1, <2>4, <3>2
  <2> QED
    BY <1>1, <2>3, <2>4
<1>6. DocumentIsATree' /\ PoolSuffices'
  BY <1>5 DEF DocumentIsATree, PoolSuffices, ParserInv, DocumentIsSound, answer
<1> QED
  BY <1>1, <1>2, <1>4, <1>6 DEF ParserInv, DocumentIsSound

(* A scalar or a string is such a value: everything open waits for it. *)
LEMMA LeafKeeps ==
  ASSUME ParserInv, need = "value", Len(stack) <= MaxDepth,
         nodes' = nodes + 1, Store(stack),
         pool' \in Nat, left' \in 0 .. MaxMessage, pool' + left' <= MaxMessage,
         UNCHANGED <<buffer, answer>>
  PROVE  ParserInv'
<1>1. /\ stack \in Seq(Containers) /\ Len(stack) \in Nat
      /\ nodes \in Nat /\ members \in Nat /\ items \in Nat
  BY LenProperties DEF ParserInv, ControlTypeOK
<1>2. nodes = members + items + Len(stack)
  BY <1>1 DEF ParserInv, DocumentIsSound, DocumentIsATree
<1>3. nodes' \in Nat /\ nodes' = members + items + Len(stack) + 1
  BY <1>1, <1>2
<1>4. \A i \in 1 .. Len(stack) : Waits(i)
  BY DEF Waits
<1> QED
  BY <1>1, <1>3, <1>4, StoredKeeps

(* A step that neither opens nor stores: the parser goes on in the same    *)
(* containers, and only looks for a value in a container that has room.    *)
LEMMA GoesOn ==
  ASSUME ParserInv, need \notin {"idle", "end", "judge"},
         need' \in {"value", "key", "item"},
         stack' \in Seq(Containers), Len(stack') = Len(stack),
         \A i \in 1 .. Len(stack) : stack'[i].kind = stack[i].kind,
         need' = "value" => /\ Top.kind = "object" => members < MaxMembers
                            /\ Top.kind = "array" => items < MaxItems,
         UNCHANGED <<buffer, nodes, members, items, answer>>,
         pool' \in Nat, left' \in 0 .. MaxMessage, pool' + left' <= MaxMessage
  PROVE  ParserInv'
<1>1. /\ Len(stack) \in Nat /\ members \in Nat /\ items \in Nat
      /\ MaxMembers \in Nat /\ MaxItems \in Nat
  BY LenProperties, LimitAssumption DEF ParserInv, ControlTypeOK
<1>2. ControlTypeOK'
  BY DEF ParserInv, ControlTypeOK, Needs, answer
<1>3. PoolInv' /\ DepthInv'
  BY DEF PoolInv, DepthInv, ParserInv
<1>4. DocumentIsSound'
  BY DEF DocumentIsSound, DocumentIsATree, PoolSuffices, OverrunIsBounded, ParserInv, answer
<1>5. ASSUME NEW kind, NEW stored, NEW room, stored \in Nat, room \in Nat,
             FullInv(kind, stored, room),
             need' = "value" /\ Top.kind = kind => stored < room
      PROVE  stored >= room =>
               \A i \in 1 .. Len(stack) :
                 stack'[i].kind = kind /\ (i < Len(stack) \/ need' = "value") => i + stored < room + MaxDepth
  <2> SUFFICES ASSUME stored >= room, NEW i \in 1 .. Len(stack), stack'[i].kind = kind,
                      i < Len(stack) \/ need' = "value"
               PROVE  i + stored < room + MaxDepth
    OBVIOUS
  <2>1. stack[i].kind = kind
    OBVIOUS
  <2>2. i < Len(stack)
    BY <1>1, <1>5, <2>1 DEF Top
  <2> QED
    BY <1>5, <2>1, <2>2 DEF FullInv, Waits
<1>6. /\ members >= MaxMembers =>
           \A i \in 1 .. Len(stack) :
             stack'[i].kind = "object" /\ (i < Len(stack) \/ need' = "value") => i + members < MaxMembers + MaxDepth
      /\ items >= MaxItems =>
           \A i \in 1 .. Len(stack) :
             stack'[i].kind = "array" /\ (i < Len(stack) \/ need' = "value") => i + items < MaxItems + MaxDepth
  BY <1>1, <1>5 DEF ParserInv, RoomInv
<1>7. RoomInv'
  BY <1>6 DEF RoomInv, FullInv, Waits
<1> QED
  BY <1>2, <1>3, <1>4, <1>7 DEF ParserInv

(* A step that leaves the document alone: a frame that is not the last one *)
(* of its message, white space, and what happens around the parser.        *)
LEMMA DocumentKept ==
  ASSUME ParserInv, UNCHANGED <<need, stack, counts, answer>>,
         left' \in 0 .. MaxMessage, pool + left' <= MaxMessage,
         buffer' \in [size : 0 .. MaxMessage, assembling : BOOLEAN]
  PROVE  ParserInv'
<1>1. ControlTypeOK'
  BY DEF ParserInv, ControlTypeOK, counts, answer
<1>2. PoolInv' /\ DepthInv'
  BY DEF ParserInv, PoolInv, DepthInv, counts
<1>3. RoomInv'
  BY DEF ParserInv, RoomInv, FullInv, Waits, counts
<1>4. DocumentIsSound'
  BY DEF ParserInv, DocumentIsSound, DocumentIsATree, PoolSuffices, OverrunIsBounded, counts, answer
<1> QED
  BY <1>1, <1>2, <1>3, <1>4 DEF ParserInv
-----------------------------------------------------------------------------
(* Frames and tokens, one by one.                                          *)
LEMMA FrameKeeps ==
  ASSUME ParserInv, NEW type, NEW final, NEW size \in 0 .. MaxMessage + 1,
         Frame(type, final, size)
  PROVE  ParserInv'
<1> DEFINE total == buffer.size + size
<1>1. MaxMessage \in Nat /\ buffer.size \in Nat /\ total \in Nat
  BY LimitAssumption DEF ParserInv, ControlTypeOK
<1>2. Empty \in [size : 0 .. MaxMessage, assembling : BOOLEAN]
  BY <1>1 DEF Empty
<1>3. ASSUME NEW code \in Verdicts, buffer' = Empty, Refuse("grammar", code)
      PROVE  ParserInv'
  BY <1>2, <1>3, RefuseKeeps DEF Limits
<1>4. CASE ~InOrder(type)
  BY <1>3, <1>4 DEF Frame, Verdicts
<1>5. CASE InOrder(type) /\ total > MaxMessage
  BY <1>3, <1>5 DEF Frame, Verdicts
<1>6. CASE InOrder(type) /\ ~(total > MaxMessage) /\ final
  <2>1. /\ buffer' = Empty /\ need' = "value" /\ left' = total /\ Cleared
        /\ refused' = "none" /\ verdict' = "None" /\ judged' = NoDocument
    BY <1>6 DEF Frame
  <2> QED
    BY <1>1, <1>2, <1>6, <2>1, ClearedKeeps DEF Limits, Verdicts, NoDocument
<1>7. CASE InOrder(type) /\ ~(total > MaxMessage) /\ ~final
  <2>1. /\ buffer' = [size |-> total, assembling |-> TRUE]
        /\ UNCHANGED <<need, left, stack, counts, answer>>
    BY <1>7 DEF Frame
  <2>2. buffer' \in [size : 0 .. MaxMessage, assembling : BOOLEAN]
    BY <1>1, <1>7, <2>1
  <2>3. left' \in 0 .. MaxMessage /\ pool + left' <= MaxMessage
    BY <2>1 DEF ParserInv, ControlTypeOK, PoolInv
  <2> QED
    BY <2>1, <2>2, <2>3, DocumentKept
<1> QED
  BY <1>4, <1>5, <1>6, <1>7

LEMMA SpaceKeeps ==
  ASSUME ParserInv, Space
  PROVE  ParserInv'
<1>1. left \in 0 .. MaxMessage /\ pool \in Nat /\ MaxMessage \in Nat /\ pool + left <= MaxMessage
  BY LimitAssumption DEF ParserInv, ControlTypeOK, PoolInv
<1>2. left - 1 \in 0 .. MaxMessage /\ pool + (left - 1) <= MaxMessage
  BY <1>1 DEF Space
<1>3. buffer' \in [size : 0 .. MaxMessage, assembling : BOOLEAN]
  BY DEF Space, ParserInv, ControlTypeOK
<1> QED
  BY <1>2, <1>3, DocumentKept DEF Space

LEMMA OpenKeeps ==
  ASSUME ParserInv, NEW kind \in {"object", "array"}, Open(kind)
  PROVE  ParserInv'
<1>1. /\ Len(stack) \in Nat /\ nodes \in Nat /\ members \in Nat /\ items \in Nat
      /\ pool \in Nat /\ left \in 0 .. MaxMessage /\ MaxMessage \in Nat /\ MaxDepth \in Nat
      /\ stack \in Seq(Containers)
  BY LenProperties, LimitAssumption DEF ParserInv, ControlTypeOK
<1>2. CASE Len(stack) > MaxDepth \/ nodes >= MaxNodes
  BY <1>2, InvalidKeeps DEF Open, Limits
<1>3. CASE ~(Len(stack) > MaxDepth \/ nodes >= MaxNodes)
  <2> DEFINE c == [kind |-> kind, count |-> 0, keys |-> {}, key |-> NoKey]
  <2>1. /\ need = "value" /\ left > 0
        /\ nodes' = nodes + 1 /\ left' = left - 1
        /\ stack' = Append(stack, c) /\ need' = "first"
        /\ UNCHANGED <<buffer, members, items, pool, answer>>
    BY <1>3 DEF Open
  <2>2. c \in Containers
    BY DEF Containers, Keys
  <2>3. /\ stack' \in Seq(Containers) /\ Len(stack') = Len(stack) + 1
        /\ \A i \in 1 .. Len(stack) : stack'[i] = stack[i]
    BY <1>1, <2>1, <2>2, AppendProperties
  <2>4. left - 1 \in 0 .. MaxMessage /\ pool + (left - 1) <= MaxMessage
    BY <1>1, <2>1 DEF ParserInv, PoolInv
  <2>5. ControlTypeOK'
    BY <1>1, <2>1, <2>3, <2>4 DEF ParserInv, ControlTypeOK, Needs, answer
  <2>6. PoolInv'
    BY <2>1, <2>4 DEF PoolInv
  <2>7. DepthInv'
    BY <1>1, <1>3, <2>3 DEF DepthInv
  <2>8. RoomInv'
    <3>1. ASSUME NEW i \in 1 .. Len(stack'), Waits(i)'
          PROVE  i \in 1 .. Len(stack) /\ Waits(i) /\ stack'[i] = stack[i]
      <4>1. i < Len(stack')
        BY <2>1, <3>1 DEF Waits
      <4>2. i \in 1 .. Len(stack)
        BY <1>1, <2>3, <4>1
      <4> QED
        BY <2>1, <2>3, <4>2 DEF Waits
    <3> QED
      BY <2>1, <3>1 DEF ParserInv, RoomInv, FullInv
  <2>9. DocumentIsSound'
    <3>1. nodes = members + items + Len(stack)
      BY <1>1, <2>1 DEF ParserInv, DocumentIsSound, DocumentIsATree
    <3>2. nodes + 1 = members + items + (Len(stack) + 1) + 0
      BY <1>1, <3>1
    <3>3. DocumentIsATree'
      BY <2>1, <2>3, <3>2 DEF DocumentIsATree
    <3> QED
      BY <2>1, <3>3 DEF ParserInv, DocumentIsSound, PoolSuffices, OverrunIsBounded, answer
  <2> QED
    BY <2>5, <2>6, <2>7, <2>8, <2>9 DEF ParserInv
<1> QED
  BY <1>2, <1>3

LEMMA ScalarKeeps ==
  ASSUME ParserInv, Scalar
  PROVE  ParserInv'
<1>1. /\ pool \in Nat /\ left \in 0 .. MaxMessage /\ MaxMessage \in Nat
      /\ pool + left <= MaxMessage /\ Len(stack) \in Nat /\ MaxDepth \in Nat
  BY LenProperties, LimitAssumption DEF ParserInv, ControlTypeOK, PoolInv
<1>2. CASE Len(stack) > MaxDepth \/ nodes >= MaxNodes
  BY <1>2, InvalidKeeps DEF Scalar, Limits
<1>3. CASE ~(Len(stack) > MaxDepth \/ nodes >= MaxNodes)
  <2>1. /\ need = "value" /\ left > 0
        /\ nodes' = nodes + 1 /\ left' = left - 1 /\ Store(stack)
        /\ UNCHANGED <<buffer, pool, answer>>
    BY <1>3 DEF Scalar
  <2>2. left - 1 \in 0 .. MaxMessage /\ pool + (left - 1) <= MaxMessage
    BY <1>1, <2>1
  <2>3. Len(stack) <= MaxDepth
    BY <1>1, <1>3
  <2> QED
    BY <1>1, <2>1, <2>2, <2>3, LeafKeeps
<1> QED
  BY <1>2, <1>3

LEMMA TextKeeps ==
  ASSUME ParserInv, NEW s \in Strings, Text(s)
  PROVE  ParserInv'
<1>1. /\ need = "value" /\ s.raw <= left
      /\ Len(stack) \in Nat /\ MaxDepth \in Nat /\ pool \in Nat
  BY LenProperties, LimitAssumption DEF Text, ParserInv, ControlTypeOK
<1>2. /\ StringLimit(s) \in Limits \ {"pool"} /\ Taken(s) \in Nat
      /\ left - s.raw \in 0 .. MaxMessage
      /\ pool + Taken(s) + (left - s.raw) <= MaxMessage
  BY <1>1, PoolHasRoom
<1>3. CASE Len(stack) > MaxDepth \/ nodes >= MaxNodes \/ StringLimit(s) # "none"
  BY <1>2, <1>3, InvalidKeeps DEF Text, Limits
<1>4. CASE ~(Len(stack) > MaxDepth \/ nodes >= MaxNodes \/ StringLimit(s) # "none")
  <2>1. /\ nodes' = nodes + 1 /\ pool' = pool + Taken(s) /\ left' = left - s.raw
        /\ Store(stack) /\ UNCHANGED <<buffer, answer>>
    BY <1>4 DEF Text
  <2>2. pool + Taken(s) \in Nat /\ Len(stack) <= MaxDepth
    BY <1>1, <1>2, <1>4
  <2> QED
    BY <1>1, <1>2, <2>1, <2>2, LeafKeeps
<1> QED
  BY <1>3, <1>4

(* The colon is a byte that takes nothing of the pool. *)
LEMMA ColonTakesNothing ==
  ASSUME NEW p \in Nat, NEW t \in Nat, NEW l \in Nat, NEW m \in Nat, NEW r \in Nat,
         l <= m, r + 1 <= l, p + t + (l - r) <= m
  PROVE  l - (r + 1) \in 0 .. m /\ (p + t) + (l - (r + 1)) <= m
<1>1. l - (r + 1) = (l - r) - 1
  OBVIOUS
<1>2. l - (r + 1) \in 0 .. m
  OBVIOUS
<1> QED
  BY <1>1, <1>2

LEMMA KeyKeeps ==
  ASSUME ParserInv, NEW s \in Strings, Key(s)
  PROVE  ParserInv'
<1>1. /\ stack \in Seq(Containers) /\ Len(stack) \in Nat
      /\ s.raw \in Nat /\ left \in 0 .. MaxMessage /\ MaxMessage \in Nat
      /\ MaxMembers \in Nat /\ members \in Nat /\ pool \in Nat
  BY LenProperties, LimitAssumption, StringAssumption DEF ParserInv, ControlTypeOK
<1>2. /\ stack # <<>> /\ Top.kind = "object" /\ need \in {"first", "key"}
      /\ s.raw + 1 <= left
  BY DEF Key, IsIn
<1>3. s.raw <= left
  BY <1>1, <1>2
<1>4. /\ StringLimit(s) \in Limits \ {"pool"} /\ Taken(s) \in Nat
      /\ pool + Taken(s) + (left - s.raw) <= MaxMessage
  BY <1>3, PoolHasRoom
<1> DEFINE refuses == Top.count >= MaxPerObject \/ members >= MaxMembers
           repeats == s.text \in Top.keys /\ ~Overrun
<1>5. CASE refuses
  BY <1>5, InvalidKeeps DEF Key, Limits
<1>6. CASE ~refuses /\ StringLimit(s) # "none"
  BY <1>4, <1>6, InvalidKeeps DEF Key
<1>7. CASE ~refuses /\ StringLimit(s) = "none" /\ repeats
  BY <1>7, InvalidKeeps DEF Key, Limits
<1>8. CASE ~refuses /\ StringLimit(s) = "none" /\ ~repeats
  <2> DEFINE n == Len(stack)
             entry == [stack[n] EXCEPT !.key = s.text]
  <2>1. /\ stack' = [stack EXCEPT ![n] = entry]
        /\ pool' = pool + Taken(s) /\ left' = left - (s.raw + 1) /\ need' = "value"
        /\ UNCHANGED <<buffer, nodes, members, items, answer>>
    BY <1>8 DEF Key
  <2>2. n \in 1 .. n
    BY <1>1, <1>2, EmptySeq
  <2>3. stack[n] \in Containers
    BY <1>1, <2>2, ElementOfSeq
  <2>4. entry \in Containers /\ entry.kind = stack[n].kind
    BY <2>3 DEF Containers, Keys
  <2>5. /\ stack' \in Seq(Containers) /\ Len(stack') = n
        /\ \A i \in 1 .. n : stack'[i] = IF i = n THEN entry ELSE stack[i]
    BY <1>1, <2>1, <2>2, <2>4, ExceptSeq
  <2>6. \A i \in 1 .. n : stack'[i].kind = stack[i].kind
    BY <2>4, <2>5
  <2>7. /\ pool + Taken(s) \in Nat /\ left - (s.raw + 1) \in 0 .. MaxMessage
        /\ (pool + Taken(s)) + (left - (s.raw + 1)) <= MaxMessage
    <3>1. left \in Nat /\ left <= MaxMessage /\ pool + Taken(s) \in Nat
      BY <1>1, <1>4
    <3> QED
      BY <1>1, <1>2, <1>4, <3>1, ColonTakesNothing
  <2>8. members < MaxMembers /\ Top.kind # "array"
    BY <1>1, <1>2, <1>8
  <2> QED
    BY <1>2, <2>1, <2>5, <2>6, <2>7, <2>8, GoesOn
<1> QED
  BY <1>5, <1>6, <1>7, <1>8

LEMMA ItemKeeps ==
  ASSUME ParserInv, Item
  PROVE  ParserInv'
<1>1. CASE items >= MaxItems
  BY <1>1, InvalidKeeps DEF Item, Limits
<1>2. CASE ~(items >= MaxItems)
  <2>1. /\ Top.kind = "array" /\ need \in {"first", "item"} /\ need' = "value"
        /\ UNCHANGED <<buffer, left, stack, nodes, members, items, pool, answer>>
    BY <1>2 DEF Item, IsIn, counts
  <2>2. stack \in Seq(Containers) /\ pool \in Nat /\ left \in 0 .. MaxMessage
        /\ pool + left <= MaxMessage
    BY DEF ParserInv, ControlTypeOK, PoolInv
  <2>3. items < MaxItems
    BY <1>2, LimitAssumption DEF ParserInv, ControlTypeOK
  <2> QED
    BY <2>1, <2>2, <2>3, GoesOn
<1> QED
  BY <1>1, <1>2

LEMMA CommaKeeps ==
  ASSUME ParserInv, Comma
  PROVE  ParserInv'
<1>1. /\ need = "after" /\ left > 0 /\ left' = left - 1 /\ need' \in {"key", "item"}
      /\ UNCHANGED <<buffer, stack, nodes, members, items, pool, answer>>
  BY DEF Comma, counts
<1>2. /\ stack \in Seq(Containers) /\ pool \in Nat /\ left \in 0 .. MaxMessage
      /\ MaxMessage \in Nat /\ pool + left <= MaxMessage
  BY LimitAssumption DEF ParserInv, ControlTypeOK, PoolInv
<1>3. left - 1 \in 0 .. MaxMessage /\ pool + (left - 1) <= MaxMessage
  BY <1>1, <1>2
<1> QED
  BY <1>1, <1>2, <1>3, GoesOn

LEMMA CloseKeeps ==
  ASSUME ParserInv, Close
  PROVE  ParserInv'
<1>1. /\ stack \in Seq(Containers) /\ Len(stack) \in Nat /\ nodes \in Nat
      /\ members \in Nat /\ items \in Nat /\ pool \in Nat /\ left \in 0 .. MaxMessage
      /\ MaxMessage \in Nat /\ MaxDepth \in Nat /\ pool + left <= MaxMessage
      /\ Len(stack) <= MaxDepth + 1
  BY LenProperties, LimitAssumption DEF ParserInv, ControlTypeOK, PoolInv, DepthInv
<1>2. /\ stack # <<>> /\ need \in {"first", "after"} /\ left > 0 /\ left' = left - 1
      /\ Store(Below) /\ UNCHANGED <<buffer, nodes, pool, answer>>
  BY DEF Close
<1>3. Len(stack) >= 1
  BY <1>1, <1>2, EmptySeq
<1>4. /\ Below \in Seq(Containers) /\ Len(Below) = Len(stack) - 1
      /\ \A i \in 1 .. Len(Below) : Below[i] = stack[i]
  <2> DEFINE m == Len(stack) - 1
  <2>1. m \in Int /\ 1 \in Int /\ \A i \in 1 .. m : stack[i] \in Containers
    BY <1>1, ElementOfSeq
  <2>2. /\ SubSeq(stack, 1, m) \in Seq(Containers)
        /\ Len(SubSeq(stack, 1, m)) = IF 1 <= m THEN m - 1 + 1 ELSE 0
        /\ \A i \in 1 .. m - 1 + 1 : SubSeq(stack, 1, m)[i] = stack[1 + i - 1]
    <3> HIDE DEF m
    <3> QED
      BY <2>1, SubSeqProperties
  <2>3. /\ m \in Nat /\ m - 1 + 1 = m
        /\ ~(1 <= m) => m = 0
        /\ \A i \in 1 .. m : 1 + i - 1 = i
    <3>1. m \in Nat
      BY <1>1, <1>3
    <3> HIDE DEF m
    <3> QED
      BY <3>1
  <2>4. /\ SubSeq(stack, 1, m) \in Seq(Containers) /\ Len(SubSeq(stack, 1, m)) = m
        /\ \A i \in 1 .. m : SubSeq(stack, 1, m)[i] = stack[i]
    <3> HIDE DEF m
    <3>1. Len(SubSeq(stack, 1, m)) = m
      BY <2>2, <2>3
    <3>2. ASSUME NEW i \in 1 .. m
          PROVE  SubSeq(stack, 1, m)[i] = stack[i]
      <4>1. i \in 1 .. m - 1 + 1 /\ 1 + i - 1 = i
        BY <2>3
      <4> QED
        BY <2>2, <4>1
    <3> QED
      BY <2>2, <3>1, <3>2
  <2> QED
    BY <2>4 DEF Below
<1>5. \A i \in 1 .. Len(Below) : Below[i].kind = stack[i].kind /\ Waits(i)
  BY <1>1, <1>3, <1>4 DEF Waits
<1>6. nodes = members + items + Len(stack)
  BY <1>1, <1>2 DEF ParserInv, DocumentIsSound, DocumentIsATree
<1>7. nodes = members + items + Len(Below) + 1
  BY <1>1, <1>3, <1>4, <1>6
<1>8. /\ left - 1 \in 0 .. MaxMessage /\ pool + (left - 1) <= MaxMessage
      /\ Len(Below) <= Len(stack) /\ Len(Below) <= MaxDepth
  BY <1>1, <1>2, <1>3, <1>4
<1>9. nodes' \in Nat /\ nodes' = members + items + Len(Below) + 1
  BY <1>1, <1>2, <1>7
<1>10. pool' \in Nat /\ left' \in 0 .. MaxMessage /\ pool' + left' <= MaxMessage
  BY <1>1, <1>2, <1>8
<1> QED
  BY <1>2, <1>4, <1>5, <1>8, <1>9, <1>10, StoredKeeps

LEMMA ParsedKeeps ==
  ASSUME ParserInv, Parsed
  PROVE  ParserInv'
BY ClearedKeeps DEF Parsed, ParserInv, ControlTypeOK, DocumentIsSound, PoolSuffices, answer

LEMMA ValidateType ==
  ASSUME NEW d
  PROVE  ValidateDocument(d) \in Verdicts
BY DEF ValidateDocument, ValidateParameters, Verdicts

LEMMA JudgeKeeps ==
  ASSUME ParserInv, NEW d \in Documents, Judge(d)
  PROVE  ParserInv'
<1>1. /\ need = "judge" /\ need' = "idle" /\ judged' = d /\ verdict' = ValidateDocument(d)
      /\ UNCHANGED <<buffer, left, stack, nodes, members, items, pool, refused>>
  BY DEF Judge, counts
<1>2. verdict' \in Verdicts /\ judged'.type \in MessageTypes \cup {"none", "other"}
  BY <1>1, ValidateType, DocumentAssumption
<1>3. ControlTypeOK'
  BY <1>1, <1>2 DEF ParserInv, ControlTypeOK, Needs
<1>4. PoolInv' /\ DepthInv'
  BY <1>1 DEF ParserInv, PoolInv, DepthInv
<1>5. RoomInv'
  BY <1>1 DEF ParserInv, RoomInv, FullInv, Waits
<1>6. DocumentIsSound'
  BY <1>1 DEF ParserInv, DocumentIsSound, DocumentIsATree, PoolSuffices, OverrunIsBounded
<1> QED
  BY <1>3, <1>4, <1>5, <1>6 DEF ParserInv

LEMMA ParserInvStep ==
  ASSUME ParserInv, [Next]_vars
  PROVE  ParserInv'
<1>1. CASE UNCHANGED controlVars
  <2>1. UNCHANGED <<need, stack, counts, answer>> /\ left' \in 0 .. MaxMessage
        /\ pool + left' <= MaxMessage
        /\ buffer' \in [size : 0 .. MaxMessage, assembling : BOOLEAN]
    BY <1>1 DEF controlVars, ParserInv, ControlTypeOK, PoolInv
  <2> QED
    BY <2>1, DocumentKept
<1>2. CASE Disconnect
  <2>1. Empty \in [size : 0 .. MaxMessage, assembling : BOOLEAN] /\ 0 \in 0 .. MaxMessage
    BY LimitAssumption DEF Empty
  <2> QED
    BY <1>2, <2>1, ClearedKeeps DEF Disconnect, Limits, Verdicts, NoDocument
<1>3. CASE ControlNext
  <2>1. ASSUME NEW type, NEW final, NEW size \in 0 .. MaxMessage + 1, Frame(type, final, size)
        PROVE  ParserInv'
    BY <2>1, FrameKeeps
  <2>2. CASE Space
    BY <2>2, SpaceKeeps
  <2>3. CASE Malformed
    BY <2>3, InvalidKeeps DEF Malformed, Limits
  <2>4. CASE Open("object") \/ Open("array")
    BY <2>4, OpenKeeps
  <2>5. CASE Scalar
    BY <2>5, ScalarKeeps
  <2>6. ASSUME NEW s \in Strings, Text(s) \/ Key(s)
        PROVE  ParserInv'
    BY <2>6, TextKeeps, KeyKeeps
  <2>7. CASE Item \/ Comma
    BY <2>7, ItemKeeps, CommaKeeps
  <2>8. CASE Close \/ Parsed
    BY <2>8, CloseKeeps, ParsedKeeps
  <2>9. ASSUME NEW d \in Documents, Judge(d)
        PROVE  ParserInv'
    BY <2>9, JudgeKeeps
  <2> QED
    BY <1>3, <2>1, <2>2, <2>3, <2>4, <2>5, <2>6, <2>7, <2>8, <2>9 DEF ControlNext
<1> QED
  BY <1>1, <1>2, <1>3 DEF Next, Connect, Send, Receive, Upgrade, Control, vars

LEMMA ParserInvInit ==
  ASSUME Init
  PROVE  ParserInv
<1>1. /\ buffer = [size |-> 0, assembling |-> FALSE]
      /\ need = "idle" /\ left = 0 /\ stack = <<>>
      /\ nodes = 0 /\ members = 0 /\ items = 0 /\ pool = 0
      /\ refused = "none" /\ judged = NoDocument /\ verdict = "None"
  BY DEF Init, ControlInit
<1>2. stack \in Seq(Containers) /\ Len(stack) = 0
  BY <1>1, EmptySeq
<1>3. ControlTypeOK
  BY <1>1, <1>2, LimitAssumption DEF ControlTypeOK, Needs, Limits, Verdicts, NoDocument
<1>4. PoolInv /\ DepthInv /\ RoomInv
  BY <1>1, <1>2, LimitAssumption DEF PoolInv, DepthInv, RoomInv, FullInv
<1>5. DocumentIsSound
  BY <1>1 DEF DocumentIsSound, DocumentIsATree, PoolSuffices, OverrunIsBounded
<1> QED
  BY <1>3, <1>4, <1>5 DEF ParserInv

(* For any limits with a pool larger than a message, and any message: no   *)
(* node is lost, no string is refused for want of room in the pool, and    *)
(* what is stored past the arrays of members and items is less than the    *)
(* nesting that is allowed (d2b_control.cpp, Parser).                      *)
THEOREM AnyDocumentIsSound == Spec => []DocumentIsSound
<1>1. Init => ParserInv
  BY ParserInvInit
<1>2. ParserInv /\ [Next]_vars => ParserInv'
  BY ParserInvStep
<1>3. ParserInv => DocumentIsSound
  BY DEF ParserInv
<1> QED
  BY <1>1, <1>2, <1>3, PTL DEF Spec
-----------------------------------------------------------------------------
(* The answer is the one of the document that was read, or there is none.  *)
VerdictInv ==
  \/ judged = NoDocument /\ verdict # "AbsentRead"
  \/ verdict = ValidateDocument(judged)

LEMMA AnswerStep ==
  ASSUME VerdictInv, [Next]_vars
  PROVE  VerdictInv'
<1>1. CASE UNCHANGED answer
  BY <1>1 DEF VerdictInv, answer, ValidateDocument, ValidateParameters, HasExactFields,
     HasBadField, GoodShape, ExactParameters
<1>2. CASE judged' = NoDocument /\ verdict' # "AbsentRead"
  BY <1>2 DEF VerdictInv
<1>3. ASSUME NEW d \in Documents, Judge(d)
      PROVE  VerdictInv'
  BY <1>3 DEF Judge, VerdictInv, ValidateDocument, ValidateParameters, HasExactFields,
     HasBadField, GoodShape, ExactParameters
<1>4. ASSUME NEW limit, NEW code \in Verdicts \ {"AbsentRead"}, Refuse(limit, code)
      PROVE  VerdictInv'
  BY <1>2, <1>4 DEF Refuse
<1>5. ASSUME NEW limit, Invalid(limit)
      PROVE  VerdictInv'
  BY <1>4, <1>5 DEF Invalid, Verdicts
<1>6. ASSUME NEW type, NEW final, NEW size, Frame(type, final, size)
      PROVE  VerdictInv'
  BY <1>1, <1>2, <1>4, <1>6 DEF Frame, Verdicts
<1>7. CASE Disconnect
  BY <1>2, <1>7 DEF Disconnect
<1>8. ASSUME NEW s, Text(s) \/ Key(s)
      PROVE  VerdictInv'
  BY <1>1, <1>5, <1>8 DEF Text, Key
<1>9. CASE Open("object") \/ Open("array") \/ Scalar \/ Item \/ Malformed
  BY <1>1, <1>5, <1>9 DEF Open, Scalar, Item, Malformed
<1>10. CASE Space \/ Comma \/ Close \/ Parsed
  BY <1>1, <1>10 DEF Space, Comma, Close, Parsed
<1>11. CASE UNCHANGED controlVars
  BY <1>1, <1>11 DEF controlVars
<1>12. CASE ControlNext
  BY <1>3, <1>6, <1>8, <1>9, <1>10, <1>12 DEF ControlNext
<1> QED
  BY <1>7, <1>11, <1>12 DEF Next, Connect, Send, Receive, Upgrade, Control, vars

LEMMA AnswerIsRight ==
  ASSUME VerdictInv
  PROVE  VerdictMatchesMessage
<1>1. CASE judged = NoDocument /\ verdict # "AbsentRead"
  BY <1>1 DEF VerdictMatchesMessage, NoDocument
<1>2. CASE verdict = ValidateDocument(judged)
  BY <1>2 DEF VerdictMatchesMessage, ValidateDocument, ValidateParameters, ExactParameters,
     Profiles, Absent, Needed, AllParameters, MessageTypes
<1> QED
  BY <1>1, <1>2 DEF VerdictInv

(* For any document: a stream is started only for a message that is well   *)
(* formed and has exactly the parameters of its profile, unsupported is    *)
(* said only of well-formed ones, and no absent parameter is read          *)
(* (ValidateDocument and ValidateParameters of d2b_control.cpp).           *)
THEOREM AnyVerdictMatches == Spec => []VerdictMatchesMessage
<1>1. Init => VerdictInv
  BY DEF Init, ControlInit, VerdictInv
<1>2. VerdictInv /\ [Next]_vars => VerdictInv'
  BY AnswerStep
<1>3. VerdictInv => VerdictMatchesMessage
  BY AnswerIsRight
<1> QED
  BY <1>1, <1>2, <1>3, PTL DEF Spec

-----------------------------------------------------------------------------
(* Induction over the naturals as facts about sets, for sets given by what *)
(* is to be proved of their elements.                                      *)
LEMMA LeastNatural ==
  ASSUME NEW T, T \subseteq Nat, T # {}
  PROVE  \E m \in T : \A k \in T : m <= k
<1> DEFINE R == {ss \in Nat \X Nat : ss[1] < ss[2]}
<1>1. IsWellFoundedOn(R, Nat)
  BY NatLessThanWellFounded, Zenon DEF OpToRel
<1>2. \A x, y \in Nat : <<y, x>> \in R <=> y < x
  OBVIOUS
<1> HIDE DEF R
<1>3. PICK m \in T : \A k \in T : ~ (<<k, m>> \in R)
  BY <1>1, WFMin
<1>4. \A k \in T : ~(k < m)
  BY <1>2, <1>3
<1> QED
  BY <1>3, <1>4

(* What holds of 0 and, with a number, of the next one, holds of all.      *)
LEMMA InductionOnSet ==
  ASSUME NEW S, 0 \in S, \A n \in Nat : n \in S => n + 1 \in S
  PROVE  Nat \subseteq S
<1> SUFFICES ASSUME Nat \ S # {} PROVE FALSE
  OBVIOUS
<1>1. PICK m \in Nat \ S : \A k \in Nat \ S : m <= k
  BY LeastNatural
<1>2. m # 0 /\ m - 1 \in Nat /\ m - 1 \in S
  BY <1>1
<1> QED
  BY <1>1, <1>2

(* A step function F applied n times, from base on: there is one table of  *)
(* the results, and only one.                                              *)
IsTable(f, n, base, F) ==
  f = [i \in 0 .. n |-> IF i = 0 THEN base ELSE F[i][f[i - 1]]]
StaysIn(S, n, F) == \A i \in 1 .. n : \A x \in S : F[i][x] \in S

(* The entries of a table, and that they stay in the set.                  *)
LEMMA TableValues ==
  ASSUME NEW n \in Nat, NEW S, NEW base \in S, NEW F,
         StaysIn(S, n, F),
         NEW f, IsTable(f, n, base, F)
  PROVE  /\ f \in [0 .. n -> S] /\ f[0] = base
         /\ \A i \in 1 .. n : f[i] = F[i][f[i - 1]]
<1>1. DOMAIN f = 0 .. n /\ f[0] = base /\ f = [i \in 0 .. n |-> f[i]]
  BY DEF IsTable
<1>2. \A i \in 1 .. n : f[i] = F[i][f[i - 1]]
  <2> TAKE i \in 1 .. n
  <2>1. i \in 0 .. n /\ i # 0
    OBVIOUS
  <2> QED
    BY <2>1 DEF IsTable
<1>3. \A i \in 0 .. n : f[i] \in S
  <2> DEFINE T == {i \in Nat : i <= n => f[i] \in S}
  <2>1. 0 \in T
    BY <1>1
  <2>2. ASSUME NEW i \in Nat, i \in T PROVE i + 1 \in T
    <3> SUFFICES ASSUME i + 1 <= n PROVE f[i + 1] \in S
      OBVIOUS
    <3>1. i + 1 \in 1 .. n /\ (i + 1) - 1 = i /\ f[i] \in S
      BY <2>2
    <3>2. f[i + 1] = F[i + 1][f[i]]
      BY <1>2, <3>1
    <3> QED
      BY <3>1, <3>2 DEF StaysIn
  <2> HIDE DEF T
  <2>3. Nat \subseteq T
    BY <2>1, <2>2, InductionOnSet
  <2> QED
    BY <2>3 DEF T
<1> QED
  BY <1>1, <1>2, <1>3

(* Two tables that go on alike. *)
Alike(f, g, n) == \A i \in 1 .. n : f[i - 1] = g[i - 1] => f[i] = g[i]

(* Two tables that begin alike and go on alike are the same.               *)
LEMMA OneTable ==
  ASSUME NEW n \in Nat, NEW f, NEW g, f[0] = g[0], Alike(f, g, n)
  PROVE  \A i \in 0 .. n : f[i] = g[i]
<1> DEFINE T == {i \in Nat : i <= n => f[i] = g[i]}
<1>1. 0 \in T
  OBVIOUS
<1>2. ASSUME NEW i \in Nat, i \in T PROVE i + 1 \in T
  <2> SUFFICES ASSUME i + 1 <= n PROVE f[i + 1] = g[i + 1]
    OBVIOUS
  <2>1. i + 1 \in 1 .. n /\ (i + 1) - 1 = i /\ f[i] = g[i]
    BY <1>2
  <2> QED
    BY <2>1 DEF Alike
<1> HIDE DEF T
<1>3. Nat \subseteq T
  BY <1>1, <1>2, InductionOnSet
<1> QED
  BY <1>3 DEF T

(* Such a table exists: the largest initial part of one is all of it.      *)
LEMMA TableExists ==
  ASSUME NEW n \in Nat, NEW S, NEW base \in S, NEW F,
         StaysIn(S, n, F)
  PROVE  \E f : IsTable(f, n, base, F)
<1> DEFINE T == {m \in Nat : m <= n => \E f : IsTable(f, m, base, F)}
<1>1. 0 \in T
  <2> DEFINE f == [i \in 0 .. 0 |-> base]
  <2>1. \A i \in 0 .. 0 : i = 0
    OBVIOUS
  <2>2. IsTable(f, 0, base, F)
    BY <2>1 DEF IsTable
  <2> QED
    BY <2>2
<1>2. ASSUME NEW m \in Nat, m \in T PROVE m + 1 \in T
  <2> SUFFICES ASSUME m + 1 <= n PROVE \E f : IsTable(f, m + 1, base, F)
    OBVIOUS
  <2>1. PICK f : IsTable(f, m, base, F)
    BY <1>2
  <2>2. StaysIn(S, m, F)
    BY DEF StaysIn
  <2>3. f \in [0 .. m -> S] /\ f[0] = base /\ \A i \in 1 .. m : f[i] = F[i][f[i - 1]]
    <3> HIDE DEF T
    <3>1. base \in S /\ m \in Nat
      OBVIOUS
    <3> QED
      BY ONLY <2>1, <2>2, <3>1, TableValues
  <2> DEFINE g == [i \in 0 .. m + 1 |-> IF i = m + 1 THEN F[m + 1][f[m]] ELSE f[i]]
  <2>4. \A i \in 0 .. m : i \in 0 .. m + 1 /\ i # m + 1 /\ g[i] = f[i]
    OBVIOUS
  <2>5. g[0] = base
    BY <2>3, <2>4
  <2>6. ASSUME NEW i \in 1 .. m + 1 PROVE g[i] = F[i][g[i - 1]]
    <3>1. i - 1 \in 0 .. m /\ g[i - 1] = f[i - 1]
      BY <2>4
    <3>2. CASE i = m + 1
      <4>1. g[i] = F[m + 1][f[m]] /\ i - 1 = m
        BY <3>2
      <4> HIDE DEF g
      <4> QED
        BY <3>1, <3>2, <4>1
    <3>3. CASE i # m + 1
      <4>1. i \in 1 .. m /\ i \in 0 .. m
        BY <3>3
      <4> HIDE DEF g
      <4> QED
        BY <2>3, <2>4, <3>1, <4>1
    <3> QED
      BY <3>2, <3>3
  <2>7. g = [i \in 0 .. m + 1 |-> IF i = 0 THEN base ELSE F[i][g[i - 1]]]
    <3>1. ASSUME NEW i \in 0 .. m + 1
          PROVE  g[i] = IF i = 0 THEN base ELSE F[i][g[i - 1]]
      <4>1. i = 0 \/ i \in 1 .. m + 1
        OBVIOUS
      <4> HIDE DEF g
      <4> QED
        BY <2>5, <2>6, <4>1
    <3>2. g = [i \in 0 .. m + 1 |-> g[i]]
      OBVIOUS
    <3> HIDE DEF g
    <3> QED
      BY <3>1, <3>2
  <2> HIDE DEF g
  <2> QED
    BY <2>7 DEF IsTable
<1> HIDE DEF T
<1>3. Nat \subseteq T
  BY <1>1, <1>2, InductionOnSet
<1> QED
  BY <1>3 DEF T

-----------------------------------------------------------------------------
(* The types of the scanner.                                               *)

Phases ==
  {"Method", "MethodSpace", "TargetStart", "Target", "Version", "RequestLineCr", "RequestLineLf",
   "HeaderLineStart", "FieldName", "ValueSpace", "Value", "FieldLf", "HeadersEndLf",
   "Opaque", "Failed"}
Reasons ==
  {"None", "Method", "RequestLine", "RequestTarget", "Version", "ObsFold", "MalformedHeader",
   "FieldNameTooLong", "FieldValueTooLong", "BareLf", "Body", "WrongWebSocketTarget", "Duplicate",
   "EmptyOrigin", "MalformedOrigin", "NullOrigin", "OriginMismatch", "InvalidUpgrade",
   "InvalidConnection", "Missing", "HeaderTooLong"}
Watched == {"origin", "upgrade", "connection"}

ScannerType ==
  [phase : Phases, reason : Reasons, literal : Nat, bytes : 0 .. MaxHeader + 1,
   target : 0 .. MaxTarget, onTarget : BOOLEAN, stream : BOOLEAN, saw : SUBSET Watched,
   candidates : SUBSET FieldKinds, name : 0 .. MaxName, kind : Watched \cup {"generic"},
   value : 0 .. MaxValue, matches : BOOLEAN, isNull : BOOLEAN]

(* Only a refusal is written past the limit of the head. *)
Scanners == {s \in ScannerType : s.bytes > MaxHeader => s.phase = "Failed"}

(* What a byte may make of a scanner that counted it. *)
Keeps(s, t) == t \in ScannerType /\ t.bytes \in {0, s.bytes}

(* The scanner's operators: each leaves a scanner, with the bytes it counted *)
(* or, for the request after an ordinary one, with none.                   *)
LEMMA GotoType ==
  ASSUME NEW s \in ScannerType, NEW phase \in Phases
  PROVE  Keeps(s, Goto(s, phase))
BY DEF Goto, ScannerType, Keeps

LEMMA RejectType ==
  ASSUME NEW s \in ScannerType, NEW reason \in Reasons
  PROVE  Keeps(s, Reject(s, reason))
BY DEF Reject, ScannerType, Phases, Keeps

LEMMA ExpectType ==
  ASSUME NEW s \in ScannerType, NEW byte, NEW want, NEW phase \in Phases, NEW reason \in Reasons
  PROVE  Keeps(s, Expect(s, byte, want, phase, reason))
BY GotoType, RejectType DEF Expect

LEMMA MatchType ==
  ASSUME NEW s \in ScannerType, NEW byte, NEW literal, NEW phase \in Phases, NEW reason \in Reasons
  PROVE  Keeps(s, Match(s, byte, literal, phase, reason))
<1> DEFINE next == [s EXCEPT !.literal = @ + 1]
<1>1. next \in ScannerType /\ next.bytes = s.bytes
  BY DEF ScannerType
<1>2. Keeps(s, next) /\ Keeps(s, Goto(next, phase)) /\ Keeps(s, Reject(s, reason))
  <2> HIDE DEF next
  <2> QED
    BY <1>1, GotoType, RejectType DEF Keeps
<1> QED
  BY <1>2 DEF Match

LEMMA FreshType == Fresh \in ScannerType /\ Fresh.bytes = 0
BY ScannerAssumption DEF Fresh, ScannerType, Phases, Reasons

LEMMA TargetType ==
  ASSUME NEW s \in ScannerType, NEW byte
  PROVE  Keeps(s, TargetByte(s, byte))
<1> DEFINE length == s.target + 1
           fits   == length <= Len(kStreamTarget) /\ byte = kStreamTarget[length]
           done == s.onTarget /\ s.target = Len(kStreamTarget)
<1>0. ASSUME NEW d \in BOOLEAN
      PROVE  Keeps(s, [s EXCEPT !.stream = d, !.phase = "Version", !.literal = 0])
  BY DEF ScannerType, Phases, Keeps
<1>1. CASE byte = " "
  <2>1. TargetByte(s, byte) = [s EXCEPT !.stream = done, !.phase = "Version", !.literal = 0]
    BY <1>1 DEF TargetByte
  <2>2. done \in BOOLEAN
    OBVIOUS
  <2> HIDE DEF done
  <2> QED
    BY <1>0, <2>1, <2>2
<1>2. CASE byte # " " /\ (~IsTarget(byte) \/ length > MaxTarget)
  BY <1>2, RejectType DEF TargetByte, Reasons
<1>3. CASE byte # " " /\ ~(~IsTarget(byte) \/ length > MaxTarget)
  <2>1. TargetByte(s, byte) = [s EXCEPT !.target = length, !.onTarget = @ /\ fits]
    BY <1>3 DEF TargetByte
  <2>2. length \in 0 .. MaxTarget
    <3>1. s.target \in 0 .. MaxTarget /\ ~(length > MaxTarget) /\ MaxTarget \in Nat
      BY <1>3, ScannerAssumption DEF ScannerType
    <3> HIDE DEF fits
    <3> QED
      BY <3>1
  <2>3. (s.onTarget /\ fits) \in BOOLEAN
    OBVIOUS
  <2> HIDE DEF length, fits
  <2> QED
    BY <2>1, <2>2, <2>3 DEF ScannerType, Phases, Keeps
<1> QED
  BY <1>1, <1>2, <1>3

LEMMA NameType ==
  ASSUME NEW s \in ScannerType, NEW byte, s.name < MaxName
  PROVE  Keeps(s, AddFieldNameByte(s, byte))
<1> DEFINE agree == {k \in s.candidates : /\ s.name < Len(kFieldNames[k])
                                          /\ Lower(byte) = kFieldNames[k][s.name + 1]}
<1>1. AddFieldNameByte(s, byte) = [s EXCEPT !.name = @ + 1, !.candidates = agree]
  BY DEF AddFieldNameByte
<1>2. agree \subseteq s.candidates /\ s.candidates \subseteq FieldKinds
  BY DEF ScannerType
<1> HIDE DEF agree
<1>3. agree \in SUBSET FieldKinds /\ s.name + 1 \in 0 .. MaxName
  BY <1>2, ScannerAssumption DEF ScannerType
<1> QED
  BY <1>1, <1>3 DEF ScannerType, Keeps

LEMMA BeginType ==
  ASSUME NEW s \in ScannerType
  PROVE  Keeps(s, BeginValue(s))
<1> DEFINE kind    == ClassifyField(s)
           watched == s.stream /\ kind \in Watched
           next == [s EXCEPT !.phase = "ValueSpace",
                    !.kind = IF watched THEN kind ELSE "generic",
                    !.saw = IF watched THEN @ \cup {kind} ELSE @,
                    !.value = 0, !.matches = TRUE, !.isNull = TRUE]
<1>1. \/ BeginValue(s) \in {Reject(s, "Body"), Reject(s, "WrongWebSocketTarget"), Reject(s, "Duplicate")}
      \/ BeginValue(s) = next
  BY DEF BeginValue, Watched
<1>2. Keeps(s, next)
  <2>1. (IF watched THEN kind ELSE "generic") \in Watched \cup {"generic"}
    OBVIOUS
  <2>2. (IF watched THEN s.saw \cup {kind} ELSE s.saw) \in SUBSET Watched
    BY DEF ScannerType
  <2>3. 0 \in 0 .. MaxValue
    BY ScannerAssumption
  <2> HIDE DEF watched, kind
  <2> QED
    BY <2>1, <2>2, <2>3 DEF ScannerType, Phases, Keeps
<1> QED
  BY <1>1, <1>2, RejectType DEF Reasons

LEMMA ValueType ==
  ASSUME NEW s \in ScannerType, NEW byte
  PROVE  Keeps(s, AddValueByte(s, byte))
<1> DEFINE n == s.value + 1
           Next1(m, u) == [s EXCEPT !.value = n, !.matches = m, !.isNull = u]
<1>0. ASSUME n \in 0 .. MaxValue
      PROVE  /\ \A m, u \in BOOLEAN : Keeps(s, [s EXCEPT !.value = n, !.matches = m, !.isNull = u])
             /\ \A m \in BOOLEAN : Keeps(s, [s EXCEPT !.value = n, !.matches = m])
             /\ Keeps(s, [s EXCEPT !.value = n])
  <2> HIDE DEF n
  <2> QED
    BY <1>0 DEF ScannerType, Keeps
<1>1. CASE byte \in Controls
  BY <1>1, RejectType DEF AddValueByte, Reasons
<1>2. CASE byte \notin Controls /\ n > MaxValue
  BY <1>2, RejectType DEF AddValueByte, Reasons
<1>3. CASE byte \notin Controls /\ ~(n > MaxValue)
  <2>1. n \in 0 .. MaxValue
    BY <1>3, ScannerAssumption DEF ScannerType
  <2>2. CASE s.kind = "origin"
    <3> DEFINE m == s.matches /\ Prefixed(byte, n, ExpectedOrigin)
               u == s.isNull /\ Prefixed(byte, n, kNull)
    <3>1. \/ AddValueByte(s, byte) = Reject(s, "MalformedOrigin")
          \/ AddValueByte(s, byte) = [s EXCEPT !.value = n, !.matches = m, !.isNull = u]
      BY <1>3, <2>2 DEF AddValueByte
    <3>2. m \in BOOLEAN /\ u \in BOOLEAN
      OBVIOUS
    <3> HIDE DEF m, u, n
    <3> QED
      BY <1>0, <2>1, <3>1, <3>2, RejectType DEF Reasons
  <2>3. CASE s.kind = "upgrade"
    <3> DEFINE m == s.matches /\ Prefixed(Lower(byte), n, kUpgradeValue)
    <3>1. AddValueByte(s, byte) = [s EXCEPT !.value = n, !.matches = m]
      BY <1>3, <2>3 DEF AddValueByte
    <3>2. m \in BOOLEAN
      OBVIOUS
    <3> HIDE DEF m, n
    <3> QED
      BY <1>0, <2>1, <3>1, <3>2
  <2>4. CASE s.kind = "connection"
    <3> DEFINE m == s.matches /\ Prefixed(Lower(byte), n, kConnectionValue)
    <3>1. AddValueByte(s, byte) = [s EXCEPT !.value = n, !.matches = m]
      BY <1>3, <2>4 DEF AddValueByte
    <3>2. m \in BOOLEAN
      OBVIOUS
    <3> HIDE DEF m, n
    <3> QED
      BY <1>0, <2>1, <3>1, <3>2
  <2>5. CASE s.kind \notin {"origin", "upgrade", "connection"}
    BY <1>0, <1>3, <2>1, <2>5 DEF AddValueByte
  <2> QED
    BY <2>2, <2>3, <2>4, <2>5
<1> QED
  BY <1>1, <1>2, <1>3

LEMMA FinishValueType ==
  ASSUME NEW s \in ScannerType
  PROVE  Keeps(s, FinishValue(s))
<1>1. FinishValue(s) \in {Reject(s, "EmptyOrigin"), Reject(s, "NullOrigin"), Reject(s, "OriginMismatch"),
                          Reject(s, "InvalidUpgrade"), Reject(s, "InvalidConnection"), Goto(s, "FieldLf")}
  BY DEF FinishValue
<1>2. "FieldLf" \in Phases
  BY DEF Phases
<1> QED
  BY <1>1, <1>2, RejectType, GotoType DEF Reasons

LEMMA FinishHeadersType ==
  ASSUME NEW s \in ScannerType
  PROVE  Keeps(s, FinishHeaders(s))
<1>1. FinishHeaders(s) \in {Fresh, Goto(s, "Opaque"), Reject(s, "Missing")}
  BY DEF FinishHeaders
<1>2. "Opaque" \in Phases
  BY DEF Phases
<1>3. Keeps(s, Fresh)
  BY FreshType DEF Keeps
<1> QED
  BY <1>1, <1>2, <1>3, RejectType, GotoType DEF Reasons

LEMMA KeepsTwice ==
  ASSUME NEW s, NEW t, NEW u, Keeps(s, t), Keeps(t, u)
  PROVE  Keeps(s, u)
BY DEF Keeps

LEMMA ScanByteType ==
  ASSUME NEW s \in ScannerType, s.phase \notin {"Opaque", "Failed"}, NEW byte
  PROVE  Keeps(s, ScanByte(s, byte))
<1>0. s.phase \in Phases /\ Keeps(s, s)
  BY DEF ScannerType, Keeps
<1>1. CASE s.phase \in {"Method", "Version"}
  BY <1>1, MatchType DEF ScanByte, Phases, Reasons
<1>2. CASE s.phase \in {"MethodSpace", "RequestLineCr", "RequestLineLf", "ValueSpace", "FieldLf"}
  BY <1>2, ExpectType DEF ScanByte, Phases, Reasons
<1>3. CASE s.phase = "TargetStart"
  <2> DEFINE begun == [s EXCEPT !.target = 1, !.onTarget = TRUE]
  <2>0. 1 \in 0 .. MaxTarget
    BY ScannerAssumption
  <2>1. begun \in ScannerType /\ begun.bytes = s.bytes
    BY <2>0 DEF ScannerType
  <2>2. ScanByte(s, byte) = Expect(begun, byte, "/", "Target", "RequestTarget")
    BY <1>3 DEF ScanByte
  <2> HIDE DEF begun
  <2>3. Keeps(s, begun)
    BY <2>1 DEF Keeps
  <2>4. Keeps(begun, Expect(begun, byte, "/", "Target", "RequestTarget"))
    BY <2>1, ExpectType DEF Phases, Reasons
  <2> QED
    BY <2>2, <2>3, <2>4, KeepsTwice
<1>4. CASE s.phase = "Target"
  BY <1>4, TargetType DEF ScanByte
<1>5. CASE s.phase = "HeaderLineStart"
  <2> DEFINE begun == [s EXCEPT !.candidates = FieldKinds, !.name = 0]
             named == AddFieldNameByte(begun, byte)
  <2>0. 0 \in 0 .. MaxName
    BY ScannerAssumption
  <2>1. begun \in ScannerType /\ begun.bytes = s.bytes /\ begun.name = 0
    BY <2>0 DEF ScannerType
  <2>2. \/ ScanByte(s, byte) \in {Goto(s, "HeadersEndLf"), Reject(s, "ObsFold"), Reject(s, "MalformedHeader")}
        \/ ScanByte(s, byte) = Goto(named, "FieldName")
    BY <1>5 DEF ScanByte
  <2> HIDE DEF begun
  <2>3. Keeps(s, begun)
    BY <2>1 DEF Keeps
  <2>4. Keeps(begun, named)
    BY <2>1, NameType, ScannerAssumption
  <2> HIDE DEF named
  <2>5. Keeps(named, Goto(named, "FieldName"))
    BY <2>4, GotoType DEF Phases, Keeps
  <2>6. Keeps(s, Goto(named, "FieldName"))
    BY <2>3, <2>4, <2>5, KeepsTwice
  <2> QED
    BY <2>2, <2>6, GotoType, RejectType DEF Phases, Reasons
<1>6. CASE s.phase = "FieldName"
  <2>1. CASE byte = ":"
    BY <1>6, <2>1, BeginType DEF ScanByte
  <2>2. CASE byte # ":" /\ (~IsToken(byte) \/ s.name >= MaxName)
    <3>1. ScanByte(s, byte) \in {Reject(s, "MalformedHeader"), Reject(s, "FieldNameTooLong")}
      BY <1>6, <2>2 DEF ScanByte
    <3> QED
      BY <3>1, RejectType DEF Reasons
  <2>3. CASE byte # ":" /\ IsToken(byte) /\ ~(s.name >= MaxName)
    <3>1. ScanByte(s, byte) = AddFieldNameByte(s, byte)
      BY <1>6, <2>3 DEF ScanByte
    <3>2. s.name < MaxName
      BY <2>3, ScannerAssumption DEF ScannerType
    <3> QED
      BY <3>1, <3>2, NameType
  <2> QED
    BY <2>1, <2>2, <2>3
<1>7. CASE s.phase = "Value"
  <2>1. ScanByte(s, byte) \in {FinishValue(s), Reject(s, "BareLf"), AddValueByte(s, byte)}
    BY <1>7 DEF ScanByte
  <2> QED
    BY <2>1, FinishValueType, ValueType, RejectType DEF Reasons
<1>8. CASE s.phase = "HeadersEndLf"
  <2>1. ScanByte(s, byte) \in {FinishHeaders(s), Reject(s, "MalformedHeader")}
    BY <1>8 DEF ScanByte
  <2> QED
    BY <2>1, FinishHeadersType, RejectType DEF Reasons
<1> QED
  BY <1>0, <1>1, <1>2, <1>3, <1>4, <1>5, <1>6, <1>7, <1>8 DEF Phases

(* A byte is counted and never leads out of the limits; a head that was    *)
(* accepted or refused is left alone.                                      *)
LEMMA ScanType ==
  ASSUME NEW s \in Scanners, NEW byte
  PROVE  ScanCounted(s, byte) \in Scanners
<1> DEFINE counted == [s EXCEPT !.bytes = @ + 1]
<1>1. CASE s.phase \in {"Opaque", "Failed"}
  BY <1>1 DEF ScanCounted
<1>2. CASE s.phase \notin {"Opaque", "Failed"}
  <2>1. s \in ScannerType /\ s.bytes \in Nat /\ s.bytes <= MaxHeader
    BY <1>2, ScannerAssumption DEF Scanners, ScannerType
  <2>2. counted \in ScannerType /\ counted.bytes = s.bytes + 1 /\ counted.phase = s.phase
    BY <2>1, ScannerAssumption, SMTT(30) DEF ScannerType
  <2>3. ScanCounted(s, byte) = IF counted.bytes > MaxHeader THEN Reject(counted, "HeaderTooLong")
                               ELSE ScanByte(counted, byte)
    BY <1>2 DEF ScanCounted
  <2> HIDE DEF counted
  <2>4. CASE counted.bytes > MaxHeader
    <3>1. Reject(counted, "HeaderTooLong") \in ScannerType
      BY <2>2, RejectType DEF Keeps, Reasons
    <3>2. Reject(counted, "HeaderTooLong").phase = "Failed"
      BY <2>2 DEF Reject, ScannerType
    <3> QED
      BY <2>3, <2>4, <3>1, <3>2 DEF Scanners
  <2>5. CASE ~(counted.bytes > MaxHeader)
    <3>1. Keeps(counted, ScanByte(counted, byte))
      BY <1>2, <2>2, ScanByteType
    <3>2. ScanByte(counted, byte).bytes <= MaxHeader
      BY <2>1, <2>2, <2>5, <3>1, ScannerAssumption DEF Keeps
    <3> QED
      BY <2>1, <2>2, <2>3, <2>5, <3>1, <3>2, ScannerAssumption DEF Scanners, Keeps
  <2> QED
    BY <2>4, <2>5
<1> QED
  BY <1>1, <1>2

-----------------------------------------------------------------------------
(* The two recursive functions, Consume and Joined, as tables.             *)

(* Consume is a recursive function: the table of the scanners after each   *)
(* byte.                                                                   *)
LEMMA ConsumeTable ==
  ASSUME NEW s \in Scanners, NEW block, Len(block) \in Nat
  PROVE  \E f \in [0 .. Len(block) -> Scanners] :
           /\ f[0] = s
           /\ \A i \in 1 .. Len(block) : f[i] = ScanCounted(f[i - 1], block[i])
           /\ Consume(s, block) = f[Len(block)]
<1> DEFINE n == Len(block)
           F == [i \in 1 .. n |-> [x \in Scanners |-> ScanCounted(x, block[i])]]
           IsScan(f) == f = [i \in 0 .. n |-> IF i = 0 THEN s ELSE ScanCounted(f[i - 1], block[i])]
<1>1. StaysIn(Scanners, n, F)
  BY ScanType DEF StaysIn
<1>2. ASSUME NEW f PROVE IsTable(f, n, s, F) => IsScan(f)
  <2> HAVE IsTable(f, n, s, F)
  <2>1. /\ f \in [0 .. n -> Scanners] /\ f[0] = s
        /\ \A i \in 1 .. n : f[i] = F[i][f[i - 1]]
    <3> HIDE DEF F, n
    <3> QED
      BY <1>1, TableValues DEF n
  <2>2. ASSUME NEW i \in 1 .. n PROVE f[i] = ScanCounted(f[i - 1], block[i])
    <3>1. f[i - 1] \in Scanners
      BY <2>1
    <3> QED
      BY <2>1, <3>1
  <2>3. ASSUME NEW i \in 0 .. n PROVE f[i] = IF i = 0 THEN s ELSE ScanCounted(f[i - 1], block[i])
    <3>1. i = 0 \/ i \in 1 .. n
      OBVIOUS
    <3> QED
      BY <2>1, <2>2, <3>1
  <2>4. f = [i \in 0 .. n |-> f[i]]
    BY <2>1
  <2> HIDE DEF F, n
  <2> QED
    BY <2>3, <2>4
<1>3. ASSUME NEW f, IsScan(f)
      PROVE  /\ f \in [0 .. n -> Scanners] /\ f[0] = s
             /\ \A i \in 1 .. n : f[i] = ScanCounted(f[i - 1], block[i])
  <2>1. DOMAIN f = 0 .. n /\ f[0] = s /\ f = [i \in 0 .. n |-> f[i]]
    BY <1>3
  <2>2. ASSUME NEW i \in 1 .. n PROVE f[i] = ScanCounted(f[i - 1], block[i])
    <3>1. i \in 0 .. n /\ i # 0
      OBVIOUS
    <3> QED
      BY <1>3, <3>1
  <2>3. \A i \in 0 .. n : f[i] \in Scanners
    <3> DEFINE T == {i \in Nat : i <= n => f[i] \in Scanners}
    <3>1. 0 \in T
      BY <2>1
    <3>2. ASSUME NEW i \in Nat, i \in T PROVE i + 1 \in T
      <4> SUFFICES ASSUME i + 1 <= n PROVE f[i + 1] \in Scanners
        OBVIOUS
      <4>1. i + 1 \in 1 .. n /\ (i + 1) - 1 = i /\ f[i] \in Scanners
        BY <3>2
      <4> QED
        BY <2>2, <4>1, ScanType
    <3> HIDE DEF T
    <3>3. Nat \subseteq T
      BY <3>1, <3>2, InductionOnSet
    <3> QED
      BY <3>3 DEF T
  <2> HIDE DEF F, n
  <2> QED
    BY <2>1, <2>2, <2>3
<1>4. \E f : IsScan(f)
  <2>1. PICK f : IsTable(f, n, s, F)
    <3> HIDE DEF F, n
    <3> QED
      BY <1>1, TableExists DEF n
  <2> QED
    BY <1>2, <2>1
<1> DEFINE after == CHOOSE f : IsScan(f)
<1>5. IsScan(after)
  <2> HIDE DEF IsScan
  <2> QED
  BY <1>4
<1>6. Consume(s, block) = after[Len(block)]
  BY DEF Consume
<1> HIDE DEF after
<1> HIDE DEF F, n, IsScan
<1>7. /\ after \in [0 .. n -> Scanners] /\ after[0] = s
      /\ \A i \in 1 .. n : after[i] = ScanCounted(after[i - 1], block[i])
  BY <1>3, <1>5
<1> QED
  BY <1>6, <1>7 DEF n

(* Whatever follows the same steps as Consume ends where it does.          *)
LEMMA ConsumeIs ==
  ASSUME NEW s \in Scanners, NEW block, Len(block) \in Nat, NEW h, h[0] = s,
         \A i \in 1 .. Len(block) : h[i] = ScanCounted(h[i - 1], block[i])
  PROVE  Consume(s, block) = h[Len(block)]
<1> DEFINE n == Len(block)
<1>1. PICK f \in [0 .. n -> Scanners] :
        /\ f[0] = s
        /\ \A i \in 1 .. n : f[i] = ScanCounted(f[i - 1], block[i])
        /\ Consume(s, block) = f[n]
  BY ConsumeTable
<1>2. Alike(f, h, n)
  BY <1>1 DEF Alike
<1>3. n \in Nat /\ n \in 0 .. n
  OBVIOUS
<1> HIDE DEF n
<1>4. \A i \in 0 .. n : f[i] = h[i]
  <2>1. n \in Nat /\ f[0] = h[0]
    BY <1>1, <1>3
  <2> QED
    BY <1>2, <2>1, OneTable
<1> QED
  BY <1>1, <1>3, <1>4 DEF n

(* A block leaves a scanner.                                               *)
LEMMA ConsumeType ==
  ASSUME NEW s \in Scanners, NEW block, Len(block) \in Nat
  PROVE  Consume(s, block) \in Scanners
<1>1. PICK f \in [0 .. Len(block) -> Scanners] : Consume(s, block) = f[Len(block)]
  BY ConsumeTable
<1> QED
  BY <1>1

(* A stream of bytes that is read in two blocks is read as a whole.        *)
LEMMA ConsumeConcat ==
  ASSUME NEW s \in Scanners, NEW S, NEW a \in Seq(S), NEW b \in Seq(S)
  PROVE  Consume(s, a \o b) = Consume(Consume(s, a), b)
<1> DEFINE m == Len(a)
           n == Len(b)
           t == a \o b
<1>1. /\ m \in Nat /\ n \in Nat /\ t \in Seq(S) /\ Len(t) = m + n
      /\ \A i \in 1 .. m : t[i] = a[i]
      /\ \A i \in 1 .. n : t[i + m] = b[i]
  BY ConcatProperties, LenProperties
<1>2. PICK f \in [0 .. m + n -> Scanners] :
        /\ f[0] = s
        /\ \A i \in 1 .. m + n : f[i] = ScanCounted(f[i - 1], t[i])
        /\ Consume(s, t) = f[m + n]
  BY <1>1, ConsumeTable
<1> HIDE DEF t, m, n
<1>3. Consume(s, a) = f[m]
  <2>1. \A i \in 1 .. m : f[i] = ScanCounted(f[i - 1], a[i])
    BY <1>1, <1>2
  <2> QED
    BY <1>1, <1>2, <2>1, ConsumeIs DEF m
<1> DEFINE g == [i \in 0 .. n |-> f[i + m]]
<1>4. /\ g[0] = f[m] /\ f[m] \in Scanners
      /\ \A i \in 1 .. n : g[i] = ScanCounted(g[i - 1], b[i])
      /\ g[n] = f[m + n]
  <2>1. ASSUME NEW i \in 1 .. n PROVE g[i] = ScanCounted(g[i - 1], b[i])
    <3>1. i + m \in 1 .. m + n /\ (i + m) - 1 = (i - 1) + m /\ i - 1 \in 0 .. n /\ i \in 0 .. n
      BY <1>1
    <3>2. f[i + m] = ScanCounted(f[(i - 1) + m], t[i + m])
      BY <1>2, <3>1
    <3> QED
      BY <1>1, <3>1, <3>2
  <2>2. 0 \in 0 .. n /\ n \in 0 .. n /\ m \in 0 .. m + n /\ 0 + m = m /\ n + m = m + n
    BY <1>1
  <2> QED
    BY <1>2, <2>1, <2>2
<1> HIDE DEF g
<1>5. Consume(f[m], b) = g[n]
  BY <1>1, <1>4, ConsumeIs DEF n
<1> QED
  BY <1>2, <1>3, <1>4, <1>5 DEF t

(* An empty block, and a block of one byte.                                *)
LEMMA ConsumeNothing ==
  ASSUME NEW s \in Scanners
  PROVE  Consume(s, <<>>) = s
<1>1. PICK f \in [0 .. Len(<<>>) -> Scanners] : f[0] = s /\ Consume(s, <<>>) = f[Len(<<>>)]
  BY ConsumeTable, EmptySeq
<1> QED
  BY <1>1, EmptySeq

LEMMA ConsumeByte ==
  ASSUME NEW s \in Scanners, NEW byte
  PROVE  Consume(s, <<byte>>) = ScanCounted(s, byte)
<1>1. Len(<<byte>>) = 1 /\ <<byte>>[1] = byte
  OBVIOUS
<1>2. PICK f \in [0 .. 1 -> Scanners] :
        /\ f[0] = s
        /\ \A i \in 1 .. 1 : f[i] = ScanCounted(f[i - 1], <<byte>>[i])
        /\ Consume(s, <<byte>>) = f[1]
  BY <1>1, ConsumeTable
<1>3. f[1] = ScanCounted(f[1 - 1], <<byte>>[1]) /\ 1 - 1 = 0
  BY <1>2
<1> QED
  BY <1>1, <1>2, <1>3

(* Joined is one too: the table of the texts put together so far.          *)
LEMMA JoinedTable ==
  ASSUME NEW texts \in Seq(Texts)
  PROVE  \E f \in [0 .. Len(texts) -> Texts] :
           /\ f[0] = <<>>
           /\ \A i \in 1 .. Len(texts) : f[i] = f[i - 1] \o texts[i]
           /\ Joined(texts) = f[Len(texts)]
<1> DEFINE n == Len(texts)
           F == [i \in 1 .. n |-> [x \in Texts |-> x \o texts[i]]]
           IsJoin(f) == f = [i \in 0 .. n |-> IF i = 0 THEN <<>> ELSE f[i - 1] \o texts[i]]
<1>0. /\ n \in Nat /\ \A i \in 1 .. n : texts[i] \in Texts
      /\ <<>> \in Texts /\ \A x, y \in Texts : x \o y \in Texts
  BY LenProperties, ElementOfSeq, ConcatProperties, EmptySeq DEF Texts
<1>1. StaysIn(Texts, n, F)
  <2>1. ASSUME NEW i \in 1 .. n, NEW x \in Texts PROVE F[i][x] \in Texts
    BY <1>0
  <2> HIDE DEF F, n
  <2> QED
    BY <2>1 DEF StaysIn
<1>2. ASSUME NEW f PROVE IsTable(f, n, <<>>, F) => IsJoin(f)
  <2> HAVE IsTable(f, n, <<>>, F)
  <2>1. /\ f \in [0 .. n -> Texts] /\ f[0] = <<>>
        /\ \A i \in 1 .. n : f[i] = F[i][f[i - 1]]
    <3> HIDE DEF F, n
    <3> QED
      BY <1>0, <1>1, TableValues
  <2>2. ASSUME NEW i \in 1 .. n PROVE f[i] = f[i - 1] \o texts[i]
    <3>1. f[i - 1] \in Texts
      BY <1>0, <2>1
    <3>2. F[i][f[i - 1]] = f[i - 1] \o texts[i]
      BY <3>1
    <3> HIDE DEF F
    <3> QED
      BY <2>1, <3>2
  <2>3. ASSUME NEW i \in 0 .. n PROVE f[i] = IF i = 0 THEN <<>> ELSE f[i - 1] \o texts[i]
    <3>1. i = 0 \/ i \in 1 .. n
      BY <1>0
    <3> QED
      BY <2>1, <2>2, <3>1
  <2>4. f = [i \in 0 .. n |-> f[i]]
    BY <2>1
  <2> HIDE DEF F, n
  <2> QED
    BY <2>3, <2>4
<1>3. ASSUME NEW f, IsJoin(f)
      PROVE  /\ f \in [0 .. n -> Texts] /\ f[0] = <<>>
             /\ \A i \in 1 .. n : f[i] = f[i - 1] \o texts[i]
  <2>1. DOMAIN f = 0 .. n /\ f[0] = <<>> /\ f = [i \in 0 .. n |-> f[i]]
    BY <1>0, <1>3
  <2>2. ASSUME NEW i \in 1 .. n PROVE f[i] = f[i - 1] \o texts[i]
    <3>1. i \in 0 .. n /\ i # 0
      BY <1>0
    <3> QED
      BY <1>3, <3>1
  <2>3. \A i \in 0 .. n : f[i] \in Texts
    <3> DEFINE T == {i \in Nat : i <= n => f[i] \in Texts}
    <3>1. 0 \in T
      BY <1>0, <2>1
    <3>2. ASSUME NEW i \in Nat, i \in T PROVE i + 1 \in T
      <4> SUFFICES ASSUME i + 1 <= n PROVE f[i + 1] \in Texts
        OBVIOUS
      <4>1. i + 1 \in 1 .. n /\ (i + 1) - 1 = i /\ f[i] \in Texts
        BY <1>0, <3>2
      <4> QED
        BY <1>0, <2>2, <4>1
    <3> HIDE DEF T
    <3>3. Nat \subseteq T
      BY <3>1, <3>2, InductionOnSet
    <3> QED
      BY <3>3, <1>0 DEF T
  <2> HIDE DEF n
  <2> QED
    BY <2>1, <2>2, <2>3
<1>4. \E f : IsJoin(f)
  <2>1. PICK f : IsTable(f, n, <<>>, F)
    <3> HIDE DEF F, n
    <3> QED
      BY <1>0, <1>1, TableExists
  <2> QED
    BY <1>2, <2>1
<1> DEFINE upTo == CHOOSE f : IsJoin(f)
<1>5. IsJoin(upTo)
  <2> HIDE DEF IsJoin
  <2> QED
  BY <1>4
<1>6. Joined(texts) = upTo[Len(texts)]
  BY DEF Joined
<1> HIDE DEF upTo
<1> HIDE DEF F, n, IsJoin
<1>7. /\ upTo \in [0 .. n -> Texts] /\ upTo[0] = <<>>
      /\ \A i \in 1 .. n : upTo[i] = upTo[i - 1] \o texts[i]
  BY <1>3, <1>5
<1> QED
  BY <1>6, <1>7 DEF n

LEMMA JoinedType ==
  ASSUME NEW texts \in Seq(Texts)
  PROVE  Joined(texts) \in Texts
<1>1. PICK f \in [0 .. Len(texts) -> Texts] : Joined(texts) = f[Len(texts)]
  BY JoinedTable
<1>2. Len(texts) \in 0 .. Len(texts)
  BY LenProperties
<1> QED
  BY <1>1, <1>2

(* No text, the texts so far as any table has them, and one text more.     *)
LEMMA JoinedNothing == Joined(<<>>) = <<>>
<1>1. <<>> \in Seq(Texts) /\ Len(<<>>) = 0
  BY EmptySeq
<1>2. PICK f \in [0 .. Len(<<>>) -> Texts] : f[0] = <<>> /\ Joined(<<>>) = f[Len(<<>>)]
  BY <1>1, JoinedTable
<1> QED
  BY <1>1, <1>2

LEMMA JoinedIs ==
  ASSUME NEW texts \in Seq(Texts), NEW h, h[0] = <<>>,
         \A i \in 1 .. Len(texts) : h[i] = h[i - 1] \o texts[i]
  PROVE  Joined(texts) = h[Len(texts)]
<1> DEFINE n == Len(texts)
<1>1. PICK f \in [0 .. n -> Texts] :
        /\ f[0] = <<>>
        /\ \A i \in 1 .. n : f[i] = f[i - 1] \o texts[i]
        /\ Joined(texts) = f[n]
  BY JoinedTable
<1>2. Alike(f, h, n)
  BY <1>1 DEF Alike
<1>3. n \in Nat /\ n \in 0 .. n
  BY LenProperties
<1> HIDE DEF n
<1>4. \A i \in 0 .. n : f[i] = h[i]
  <2>1. n \in Nat /\ f[0] = h[0]
    BY <1>1, <1>3
  <2> QED
    BY <1>2, <2>1, OneTable
<1> QED
  BY <1>1, <1>3, <1>4 DEF n

LEMMA JoinedAppend ==
  ASSUME NEW texts \in Seq(Texts), NEW text \in Texts
  PROVE  Joined(Append(texts, text)) = Joined(texts) \o text
<1> DEFINE n == Len(texts)
           more == Append(texts, text)
<1>1. /\ more \in Seq(Texts) /\ Len(more) = n + 1 /\ n \in Nat
      /\ \A i \in 1 .. n : more[i] = texts[i]
      /\ more[n + 1] = text
  BY AppendProperties, LenProperties
<1> HIDE DEF more
<1>2. PICK f \in [0 .. n + 1 -> Texts] :
        /\ f[0] = <<>>
        /\ \A i \in 1 .. n + 1 : f[i] = f[i - 1] \o more[i]
        /\ Joined(more) = f[n + 1]
  BY <1>1, JoinedTable
<1>3. ASSUME NEW i \in 1 .. n PROVE f[i] = f[i - 1] \o texts[i]
  <2> HIDE DEF n
  <2>1. i \in 1 .. n + 1 /\ more[i] = texts[i]
    BY <1>1
  <2> QED
    BY <1>2, <2>1
<1>4. Joined(texts) = f[n]
  BY <1>2, <1>3, JoinedIs
<1> HIDE DEF n
<1>5. f[n + 1] = f[n] \o more[n + 1]
  <2>1. n + 1 \in 1 .. n + 1 /\ (n + 1) - 1 = n
    BY <1>1
  <2>2. f[n + 1] = f[(n + 1) - 1] \o more[n + 1]
    BY <1>2, <2>1
  <2> QED
    BY <2>1, <2>2
<1> QED
  BY <1>1, <1>2, <1>4, <1>5 DEF more

(* The bytes of some requests, one after the other. *)
Stream(rs) == Joined([i \in DOMAIN rs |-> RequestText(rs[i])])

(* The texts of a request are sequences of bytes.                          *)
LEMMA FieldTextType ==
  ASSUME NEW r \in RequestType, NEW f \in FieldType
  PROVE  FieldText(r, f) \in Texts
<1>1. /\ f.name \in Texts /\ f.value \in Texts /\ r.sep \in Texts /\ r.eol \in Texts
      /\ \A x, y \in Texts : x \o y \in Texts
  BY ConcatProperties DEF RequestType, FieldType, Texts
<1> QED
  BY <1>1 DEF FieldText

LEMMA RequestTextType ==
  ASSUME NEW r \in RequestType
  PROVE  RequestText(r) \in Texts
<1> DEFINE lines == [i \in DOMAIN r.fields |-> FieldText(r, r.fields[i])]
<1>1. lines \in Seq(Texts)
  <2>1. r.fields \in Seq(FieldType)
    BY DEF RequestType
  <2>2. /\ Len(r.fields) \in Nat /\ DOMAIN r.fields = 1 .. Len(r.fields)
        /\ \A i \in 1 .. Len(r.fields) : r.fields[i] \in FieldType
    BY <2>1, LenProperties, ElementOfSeq
  <2>3. \A i \in 1 .. Len(r.fields) : FieldText(r, r.fields[i]) \in Texts
    BY <2>2, FieldTextType
  <2> QED
    BY <2>2, <2>3
<1>2. Joined(lines) \in Texts
  BY <1>1, JoinedType
<1>3. /\ r.method \in Texts /\ r.target \in Texts /\ r.version \in Texts
      /\ r.eol \in Texts /\ r.end \in Texts
  BY DEF RequestType
<1>4. <<" ">> \in Texts
  BY DEF Texts, Bytes
<1>5. \A x, y \in Texts : x \o y \in Texts
  BY ConcatProperties DEF Texts
<1> HIDE DEF lines
<1>6. r.method \o <<" ">> \o r.target \o <<" ">> \o r.version \o r.eol \in Texts
  BY <1>3, <1>4, <1>5
<1>7. r.method \o <<" ">> \o r.target \o <<" ">> \o r.version \o r.eol \o Joined(lines) \o r.end \in Texts
  BY <1>2, <1>3, <1>5, <1>6
<1> QED
  BY <1>7 DEF RequestText, lines

(* A request is sent after the ones before it.                             *)
LEMMA StreamAppend ==
  ASSUME NEW rs \in Seq(RequestType), NEW r \in RequestType
  PROVE  /\ Stream(rs) \in Texts
         /\ Stream(Append(rs, r)) = Stream(rs) \o RequestText(r)
<1> DEFINE heads(q) == [i \in DOMAIN q |-> RequestText(q[i])]
           n == Len(rs)
<1>1. /\ n \in Nat /\ DOMAIN rs = 1 .. n /\ \A i \in 1 .. n : rs[i] \in RequestType
      /\ DOMAIN Append(rs, r) = 1 .. n + 1
      /\ \A i \in 1 .. n : Append(rs, r)[i] = rs[i]
      /\ Append(rs, r)[n + 1] = r
  BY LenProperties, ElementOfSeq, AppendProperties
<1>2. \A i \in 1 .. n : RequestText(rs[i]) \in Texts
  BY <1>1, RequestTextType
<1>3. heads(rs) \in Seq(Texts) /\ Len(heads(rs)) = n
  BY <1>1, <1>2
<1>4. RequestText(r) \in Texts
  BY RequestTextType
<1>5. heads(Append(rs, r)) = Append(heads(rs), RequestText(r))
  <2> DEFINE q == Append(rs, r)
             h == heads(rs)
  <2>1. /\ heads(q) = [i \in 1 .. n + 1 |-> RequestText(q[i])]
    BY <1>1
  <2>2. \A i \in 1 .. n + 1 : q[i] \in RequestType
    BY <1>1
  <2>3. \A i \in 1 .. n + 1 : RequestText(q[i]) \in Texts
    BY <2>2, RequestTextType
  <2>4. heads(q) \in Seq(Texts) /\ Len(heads(q)) = n + 1
    BY <1>1, <2>1, <2>3
  <2>5. /\ Append(h, RequestText(r)) \in Seq(Texts) /\ Len(Append(h, RequestText(r))) = n + 1
        /\ \A i \in 1 .. n : Append(h, RequestText(r))[i] = h[i]
        /\ Append(h, RequestText(r))[n + 1] = RequestText(r)
    <3> HIDE DEF h
    <3> QED
      BY <1>3, <1>4, AppendProperties DEF h
  <2>6. ASSUME NEW i \in 1 .. n + 1 PROVE heads(q)[i] = Append(h, RequestText(r))[i]
    <3>1. heads(q)[i] = RequestText(q[i])
      BY <2>1
    <3>2. CASE i = n + 1
      BY <1>1, <2>5, <3>1, <3>2
    <3>3. CASE i \in 1 .. n
      <4>1. h[i] = RequestText(rs[i]) /\ q[i] = rs[i]
        BY <1>1, <3>3
      <4> QED
        BY <2>5, <3>1, <3>3, <4>1
    <3> QED
      BY <1>1, <3>2, <3>3
  <2>7. ASSUME NEW u \in Seq(Texts), NEW v \in Seq(Texts), Len(u) = n + 1, Len(v) = n + 1,
               \A i \in 1 .. n + 1 : u[i] = v[i]
        PROVE  u = v
    BY <2>7, SeqEqual
  <2> HIDE DEF h, q, heads
  <2> QED
    BY <2>4, <2>5, <2>6, <2>7 DEF h, q
<1> HIDE DEF heads
<1>6. Joined(heads(rs)) \in Texts
  BY <1>3, JoinedType
<1>7. Joined(Append(heads(rs), RequestText(r))) = Joined(heads(rs)) \o RequestText(r)
  BY <1>3, <1>4, JoinedAppend
<1> QED
  BY <1>5, <1>6, <1>7 DEF Stream, heads

LEMMA StreamNothing == Stream(<<>>) = <<>>
<1>1. [i \in DOMAIN <<>> |-> RequestText(<<>>[i])] = <<>>
  OBVIOUS
<1> QED
  BY <1>1, JoinedNothing DEF Stream

(* The end of the scan is the end of it. *)
LEMMA ConsumeEnds ==
  ASSUME NEW s \in Scanners, s.phase \in {"Opaque", "Failed"}, NEW block, Len(block) \in Nat
  PROVE  Consume(s, block) = s
<1> DEFINE h == [i \in 0 .. Len(block) |-> s]
<1>1. h[0] = s /\ h[Len(block)] = s
  OBVIOUS
<1>2. \A i \in 1 .. Len(block) : h[i] = ScanCounted(h[i - 1], block[i])
  BY DEF ScanCounted
<1> HIDE DEF h
<1> QED
  BY <1>1, <1>2, ConsumeIs

-----------------------------------------------------------------------------
(* The life of a socket: what was received, and what the scanner made of it. *)

Received == SubSeq(Wire, 1, at)

(* The scanner is where the bytes received so far bring it, however the    *)
(* network cut them into blocks.                                           *)
CutsDoNotMatter == socket \in {"http", "refused"} => scanner = Consume(Fresh, Received)

HeadInv ==
  /\ socket \in {"closed", "http", "refused", "websocket"} /\ accepted \in BOOLEAN
  /\ sent \in Seq(Requests \cup Openers) /\ Len(sent) <= MaxRequests
  /\ at \in 0 .. Len(Wire)
  /\ scanner \in Scanners
  /\ socket \in {"closed", "websocket"} => sent = <<>> /\ at = 0
  /\ socket = "closed" => scanner = Fresh /\ ~accepted
  /\ socket \in {"http", "refused"} => /\ accepted <=> scanner.phase = "Opaque"
                                       /\ socket = "refused" <=> scanner.phase = "Failed"
  /\ CutsDoNotMatter

(* A fresh scanner, and that of a socket that was upgraded.                *)
LEMMA FreshScans == Fresh \in Scanners /\ Goto(Fresh, "Opaque") \in Scanners /\ Fresh.phase = "Method"
<1>1. Goto(Fresh, "Opaque") \in ScannerType /\ Goto(Fresh, "Opaque").bytes = 0
  BY FreshType, GotoType DEF Keeps, Phases
<1>2. Fresh.phase = "Method"
  BY DEF Fresh
<1> QED
  BY <1>1, <1>2, FreshType, ScannerAssumption DEF Scanners

LEMMA WireIsStream == Wire = Stream(sent)
BY DEF Wire, Stream

LEMMA NothingReceived ==
  ASSUME sent = <<>>, at = 0
  PROVE  Wire = <<>> /\ Len(Wire) = 0 /\ Received = <<>>
<1>1. Wire = <<>>
  BY StreamNothing, WireIsStream
<1>2. SubSeq(Wire, 1, 0) = <<>>
  BY SubSeqEmpty
<1> QED
  BY <1>1, <1>2 DEF Received

LEMMA SentTyped ==
  ASSUME sent \in Seq(Requests \cup Openers)
  PROVE  sent \in Seq(RequestType)
<1>1. Requests \cup Openers \subseteq RequestType
  BY ClientAssumption
<1> QED
  BY <1>1, SeqMonotonic

(* A socket that opens, closes or is upgraded has received nothing.        *)
LEMMA HeadReset ==
  ASSUME socket' \in {"closed", "http", "websocket"}, accepted' \in BOOLEAN, sent' = <<>>, at' = 0,
         socket' = "websocket" => scanner' \in Scanners,
         socket' \in {"closed", "http"} => scanner' = Fresh /\ ~accepted'
  PROVE  HeadInv'
<1>1. Wire' = <<>> /\ Len(Wire)' = 0 /\ Received' = <<>>
  <2>1. sent' = <<>> => Wire' = <<>>
    BY StreamNothing DEF Wire, Stream
  <2>2. SubSeq(<<>>, 1, 0) = <<>> /\ Len(<<>>) = 0
    BY SubSeqEmpty, EmptySeq
  <2> QED
    BY <2>1, <2>2 DEF Received
<1>2. sent' \in Seq(Requests \cup Openers) /\ Len(sent') <= MaxRequests
  BY EmptySeq, ClientAssumption
<1>3. Consume(Fresh, Received)' = Fresh
  BY <1>1, FreshScans, ConsumeNothing
<1> QED
  BY <1>1, <1>2, <1>3, FreshScans DEF HeadInv, CutsDoNotMatter

LEMMA HeadInit == Init => HeadInv
<1> SUFFICES ASSUME Init PROVE HeadInv
  OBVIOUS
<1>1. socket = "closed" /\ sent = <<>> /\ at = 0 /\ scanner = Fresh /\ ~accepted /\ accepted \in BOOLEAN
  BY DEF Init
<1>2. sent \in Seq(Requests \cup Openers) /\ Len(sent) <= MaxRequests
  BY <1>1, EmptySeq, ClientAssumption
<1> QED
  BY <1>1, <1>2, NothingReceived, FreshScans DEF HeadInv, CutsDoNotMatter

(* Every step keeps it: Send only adds to what is not received yet, and    *)
(* Receive reads on where the last block ended.                            *)
LEMMA HeadStep ==
  ASSUME HeadInv, [Next]_vars
  PROVE  HeadInv'
<1>0. /\ sent \in Seq(RequestType) /\ at \in Nat /\ scanner \in Scanners /\ Fresh \in Scanners
      /\ Wire \in Texts /\ Len(Wire) \in Nat /\ at <= Len(Wire)
  <2>0. sent \in Seq(RequestType)
    BY SentTyped DEF HeadInv
  <2>1. Wire \in Texts
    <3>1. CASE sent = <<>>
      BY <3>1, StreamNothing, WireIsStream, EmptySeq DEF Texts
    <3>2. CASE sent # <<>>
      <4>1. PICK q \in Seq(RequestType), r \in RequestType : sent = Append(q, r)
        BY <2>0, <3>2, SequenceEmptyOrAppend
      <4>2. Stream(q) \in Texts /\ RequestText(r) \in Texts
        BY StreamAppend, RequestTextType
      <4> QED
        BY <4>1, <4>2, StreamAppend, WireIsStream, ConcatProperties DEF Texts
    <3> QED
      BY <3>1, <3>2
  <2>2. Len(Wire) \in Nat
    BY <2>1, LenProperties DEF Texts
  <2> QED
    BY <2>1, <2>2, SentTyped, FreshScans DEF HeadInv
<1>1. CASE UNCHANGED headVars
  <2>1. Wire' = Wire /\ Received' = Received
    BY <1>1 DEF headVars, Wire, Received
  <2> QED
    BY <1>1, <2>1 DEF headVars, HeadInv, CutsDoNotMatter
<1>2. CASE Connect
  BY <1>2, HeadReset, FreshScans DEF Connect, HeadInv
<1>3. CASE Upgrade
  BY <1>3, HeadReset, FreshScans DEF Upgrade, HeadInv
<1>4. CASE Disconnect
  BY <1>4, HeadReset, FreshScans DEF Disconnect
<1>5. ASSUME NEW r \in Requests \cup Openers, Send(r)
      PROVE  HeadInv'
  <2>1. /\ r \in RequestType /\ sent' = Append(sent, r) /\ Len(sent) < MaxRequests
        /\ UNCHANGED <<socket, at, scanner, accepted>> /\ socket = "http"
    BY <1>5, ClientAssumption DEF Send
  <2>2. /\ sent' \in Seq(Requests \cup Openers) /\ Len(sent') = Len(sent) + 1 /\ Len(sent) \in Nat
    BY <2>1, AppendProperties, LenProperties DEF HeadInv
  <2>3. Wire' = Wire \o RequestText(r) /\ RequestText(r) \in Texts
    <3>1. Wire' = Stream(sent')
      BY DEF Wire, Stream
    <3> QED
      BY <1>0, <2>1, <3>1, WireIsStream, StreamAppend, RequestTextType
  <2>4. Len(Wire') = Len(Wire) + Len(RequestText(r)) /\ Len(RequestText(r)) \in Nat
    BY <1>0, <2>3, ConcatProperties, LenProperties DEF Texts
  <2>5. Received' = Received
    <3>1. CASE at = 0
      BY <2>1, <3>1, SubSeqEmpty DEF Received
    <3>2. CASE at # 0
      <4>1. 1 \in 1 .. Len(Wire) /\ at \in 1 .. Len(Wire)
        BY <1>0, <3>2
      <4> QED
        BY <1>0, <2>1, <2>3, <4>1, SubSeqOfConcat1 DEF Received, Texts
    <3> QED
      BY <3>1, <3>2
  <2>6. at' \in 0 .. Len(Wire') /\ Len(sent') <= MaxRequests
    BY <1>0, <2>1, <2>2, <2>4, ClientAssumption
  <2> QED
    BY <2>1, <2>2, <2>5, <2>6 DEF HeadInv, CutsDoNotMatter
<1>6. ASSUME NEW length \in 1 .. MaxBlock, Receive(length)
      PROVE  HeadInv'
  <2> DEFINE block == SubSeq(Wire, at + 1, at + length)
  <2>1. /\ socket = "http" /\ at + length <= Len(Wire) /\ at' = at + length /\ sent' = sent
        /\ scanner' = Consume(scanner, block)
        /\ accepted' = (accepted \/ scanner'.phase = "Opaque")
        /\ socket' = IF scanner'.phase = "Failed" THEN "refused" ELSE socket
    BY <1>6 DEF Receive
  <2>2. length \in Nat /\ length >= 1
    BY ClientAssumption
  <2>3. Wire' = Wire
    BY <2>1 DEF Wire
  <2>4. Received \in Texts /\ block \in Texts /\ Received' = Received \o block
    <3>1. /\ 1 \in 1 .. Len(Wire) + 1 /\ at \in 1 - 1 .. Len(Wire) /\ at + length \in at .. Len(Wire)
          /\ at + length \in Nat /\ at + 1 \in Nat
      BY <1>0, <2>1, <2>2
    <3>2. \A i \in 1 .. Len(Wire) : Wire[i] \in Bytes
      BY <1>0, ElementOfSeq DEF Texts
    <3>3. Received \in Texts
      <4>1. \A i \in 1 .. at : Wire[i] \in Bytes
        BY <1>0, <3>2
      <4> QED
        BY <1>0, <4>1, SubSeqProperties DEF Received, Texts
    <3>4. block \in Texts
      <4>1. \A i \in at + 1 .. at + length : Wire[i] \in Bytes
        BY <1>0, <2>1, <2>2, <3>2
      <4> QED
        BY <3>1, <4>1, SubSeqProperties DEF Texts
    <3>5. SubSeq(Wire, 1, at + length) = SubSeq(Wire, 1, at) \o block
      BY <1>0, <3>1, ConcatAdjacentSubSeq DEF Texts
    <3> QED
      BY <2>1, <2>3, <3>3, <3>4, <3>5 DEF Received
  <2>5. scanner = Consume(Fresh, Received)
    BY <2>1 DEF HeadInv, CutsDoNotMatter
  <2> HIDE DEF block
  <2>6. Len(block) \in Nat
    BY <2>4, LenProperties DEF Texts
  <2>7. scanner' \in Scanners /\ scanner' = Consume(Fresh, Received')
    BY <1>0, <2>1, <2>4, <2>5, <2>6, ConsumeType, ConsumeConcat DEF Texts
  <2>8. accepted => scanner' = scanner /\ scanner.phase = "Opaque"
    BY <1>0, <2>1, <2>6, ConsumeEnds DEF HeadInv
  <2>9. at' \in 0 .. Len(Wire') /\ accepted' \in BOOLEAN
    BY <1>0, <2>1, <2>2, <2>3 DEF HeadInv
  <2>10. (accepted' <=> scanner'.phase = "Opaque") /\ (socket' = "refused" <=> scanner'.phase = "Failed")
    <3>1. accepted' <=> (accepted \/ scanner'.phase = "Opaque")
      BY <2>1, Zenon
    <3>2. accepted => scanner'.phase = "Opaque"
      BY <2>8
    <3>3. socket' = "refused" <=> scanner'.phase = "Failed"
      BY <2>1
    <3> QED
      BY <3>1, <3>2, <3>3
  <2>11. socket' \in {"http", "refused"}
    BY <2>1
  <2> QED
    BY <2>1, <2>7, <2>9, <2>10, <2>11 DEF HeadInv, CutsDoNotMatter
<1> QED
  BY <1>1, <1>2, <1>3, <1>4, <1>5, <1>6 DEF Next, Control, vars

(* With the parser's invariant it is the type invariant of the run.        *)
LEMMA HeadTypes ==
  ASSUME HeadInv, ParserInv
  PROVE  TypeOK
<1>1. /\ DOMAIN scanner = DOMAIN Fresh
      /\ scanner.bytes \in 0 .. MaxHeader + 1 /\ scanner.name \in 0 .. MaxName
      /\ scanner.value \in 0 .. MaxValue /\ scanner.target \in 0 .. MaxTarget
  BY DEF HeadInv, Scanners, ScannerType, Fresh
<1>2. /\ scanner.bytes <= MaxHeader + 1 /\ scanner.name <= MaxName
      /\ scanner.value <= MaxValue /\ scanner.target <= MaxTarget
  BY <1>1
<1>3. at \in Nat
  BY DEF HeadInv
<1> QED
  BY <1>1, <1>2, <1>3 DEF HeadInv, ParserInv, TypeOK

(* CutsDoNotMatter: the state of the scanner (Consume, called once for every *)
(* block that recv returned) depends on the bytes alone and not on how they *)
(* were cut into blocks, for every set of requests and every block size.   *)
THEOREM ScanIsCutFree == Spec => []CutsDoNotMatter
<1>1. HeadInv => CutsDoNotMatter
  BY DEF HeadInv
<1> QED
  BY <1>1, HeadInit, HeadStep, PTL DEF Spec

(* TypeOK: the counters of the scanner stay below the limits they are      *)
(* checked against, and no byte is written past the limit of a head but by a *)
(* refusal; the parser keeps to its own types.                             *)
THEOREM ClientTyped == Spec => []TypeOK
<1>1. Init => HeadInv /\ ParserInv
  BY HeadInit, ParserInvInit
<1>2. HeadInv /\ ParserInv /\ [Next]_vars => (HeadInv /\ ParserInv)'
  BY HeadStep, ParserInvStep
<1>3. HeadInv /\ ParserInv => TypeOK
  BY HeadTypes
<1> QED
  BY <1>1, <1>2, <1>3, PTL DEF Spec

-----------------------------------------------------------------------------
(* An admissible request, read from its first byte to its last.            *)

(* Two bytes, one after the other.                                         *)
LEMMA Pair ==
  ASSUME NEW S, NEW a \in S, NEW b \in S
  PROVE  /\ <<a>> \in Seq(S) /\ <<b>> \in Seq(S) /\ <<a, b>> \in Seq(S)
         /\ <<a>> \o <<b>> = <<a, b>>
<1>1. <<a>> \in Seq(S) /\ <<b>> \in Seq(S) /\ <<a, b>> \in Seq(S)
  OBVIOUS
<1>2. Len(<<a>>) = 1 /\ Len(<<b>>) = 1 /\ Len(<<a, b>>) = 2
      /\ <<a>>[1] = a /\ <<b>>[1] = b /\ <<a, b>>[1] = a /\ <<a, b>>[2] = b
  OBVIOUS
<1> DEFINE p == <<a>>
           q == <<b>>
           r == <<a, b>>
<1> HIDE DEF p, q, r
<1>3. /\ p \o q \in Seq(S) /\ Len(p \o q) = 2
      /\ \A i \in 1 .. 2 : (p \o q)[i] = IF i <= 1 THEN p[i] ELSE q[i - 1]
  <2>1. p \in Seq(S) /\ q \in Seq(S) /\ Len(p) = 1 /\ Len(q) = 1
    BY <1>1, <1>2 DEF p, q
  <2> QED
    BY <2>1, ConcatProperties
<1>4. (p \o q)[1] = a /\ (p \o q)[2] = b
  <2>1. (p \o q)[1] = p[1] /\ (p \o q)[2] = q[2 - 1] /\ 2 - 1 = 1
    BY <1>3
  <2> QED
    BY <1>2, <2>1 DEF p, q
<1>5. \A i \in 1 .. 2 : (p \o q)[i] = r[i]
  <2>1. \A i \in 1 .. 2 : i = 1 \/ i = 2
    OBVIOUS
  <2>2. r[1] = a /\ r[2] = b
    BY <1>2 DEF r
  <2> QED
    BY <1>4, <2>1, <2>2
<1>6. r \in Seq(S) /\ Len(r) = 2
  BY <1>1, <1>2 DEF r
<1>7. p \o q = r
  BY <1>3, <1>5, <1>6, SeqEqual
<1> QED
  BY <1>1, <1>7 DEF p, q, r
(* A scanner that has read k more bytes of the same head. *)
SameHead(s, t, k) ==
  t \in Scanners /\ t.bytes = s.bytes + k /\ t.stream = s.stream /\ t.saw = s.saw

(* Bytes of one head, counted up.                                          *)
LEMMA SameHeadTwice ==
  ASSUME NEW s \in Scanners, NEW t, NEW u, NEW j \in Nat, NEW k \in Nat,
         SameHead(s, t, j), SameHead(t, u, k)
  PROVE  SameHead(s, u, j + k)
<1>1. s.bytes \in Nat /\ t.bytes = s.bytes + j /\ u.bytes = t.bytes + k
  BY ScannerAssumption DEF SameHead, Scanners, ScannerType
<1>2. u.bytes = s.bytes + (j + k)
  BY <1>1
<1> QED
  BY <1>2 DEF SameHead

(* A byte below the limit is counted and then looked at. *)
Counted(s) == [s EXCEPT !.bytes = @ + 1]

SameFields(s, c) ==
  /\ c.phase = s.phase /\ c.literal = s.literal /\ c.stream = s.stream /\ c.saw = s.saw
  /\ c.target = s.target /\ c.onTarget = s.onTarget
  /\ c.name = s.name /\ c.candidates = s.candidates
  /\ c.kind = s.kind /\ c.value = s.value /\ c.matches = s.matches /\ c.isNull = s.isNull

(* One byte below the limit of the head.                                   *)
LEMMA ByteStep ==
  ASSUME NEW s \in Scanners, s.phase \notin {"Opaque", "Failed"}, s.bytes < MaxHeader, NEW byte
  PROVE  /\ Consume(s, <<byte>>) = ScanByte(Counted(s), byte)
         /\ ScanCounted(s, byte) = ScanByte(Counted(s), byte)
         /\ Counted(s) \in Scanners /\ SameHead(s, Counted(s), 1)
         /\ SameFields(s, Counted(s))
         /\ Keeps(Counted(s), ScanByte(Counted(s), byte))
<1> DEFINE c == Counted(s)
<1>1. s \in ScannerType /\ s.bytes \in Nat /\ s.bytes + 1 <= MaxHeader
  BY ScannerAssumption DEF Scanners, ScannerType
<1>2. s.bytes + 1 \in 0 .. MaxHeader + 1
  BY <1>1, ScannerAssumption
<1>3. /\ c \in ScannerType /\ c.bytes = s.bytes + 1
      /\ SameFields(s, c) /\ c.phase = s.phase /\ c.stream = s.stream /\ c.saw = s.saw
  BY <1>1, <1>2 DEF Counted, ScannerType, SameFields
<1>4. ScanCounted(s, byte) = ScanByte(c, byte)
  <2>1. ~(c.bytes > MaxHeader)
    BY <1>1, <1>3, ScannerAssumption
  <2> QED
    BY <2>1 DEF ScanCounted, Counted
<1> HIDE DEF c
<1>5. Consume(s, <<byte>>) = ScanCounted(s, byte)
  BY ConsumeByte
<1>6. c \in Scanners
  BY <1>1, <1>3, ScannerAssumption DEF Scanners
<1>7. Keeps(c, ScanByte(c, byte))
  BY <1>3, ScanByteType
<1> QED
  BY <1>3, <1>4, <1>5, <1>6, <1>7 DEF SameHead, c

(* A byte that only moves the scanner on. *)
LEMMA ByteMoves ==
  ASSUME NEW s \in Scanners, s.phase \notin {"Opaque", "Failed"}, s.bytes < MaxHeader,
         NEW byte, NEW phase \in Phases,
         ScanByte(Counted(s), byte) = Goto(Counted(s), phase)
  PROVE  /\ SameHead(s, Consume(s, <<byte>>), 1)
         /\ Consume(s, <<byte>>) = [s EXCEPT !.bytes = @ + 1, !.phase = phase]
<1> DEFINE c == Counted(s)
           t == Goto(c, phase)
<1>1. /\ Consume(s, <<byte>>) = t /\ c \in Scanners /\ SameHead(s, c, 1)
  BY ByteStep
<1>2. Keeps(c, t)
  BY ByteStep
<1>3. t = [c EXCEPT !.phase = phase]
  BY DEF Goto
<1>4. t = [s EXCEPT !.bytes = @ + 1, !.phase = phase]
  BY <1>3 DEF Counted
<1>5. t.bytes = c.bytes /\ t.stream = c.stream /\ t.saw = c.saw
  BY <1>1, <1>3 DEF Scanners, ScannerType
<1>6. c.bytes = s.bytes + 1 /\ s.bytes \in Nat /\ c.bytes <= MaxHeader
  BY <1>1, ScannerAssumption DEF SameHead, Scanners, ScannerType
<1> HIDE DEF c, t
<1>7. t \in Scanners
  BY <1>2, <1>5, <1>6, ScannerAssumption DEF Keeps, Scanners
<1> QED
  BY <1>1, <1>4, <1>5, <1>7 DEF SameHead

(* Two bytes in one block.                                                 *)
LEMMA ConsumeTwo ==
  ASSUME NEW s \in Scanners, NEW a, NEW b
  PROVE  Consume(s, <<a, b>>) = Consume(Consume(s, <<a>>), <<b>>)
<1> DEFINE S == {a, b}
<1>1. a \in S /\ b \in S
  OBVIOUS
<1> HIDE DEF S
<1>2. <<a>> \o <<b>> = <<a, b>> /\ <<a>> \in Seq(S) /\ <<b>> \in Seq(S)
  BY <1>1, Pair
<1>3. \A p, q \in Seq(S) : Consume(s, p \o q) = Consume(Consume(s, p), q)
  BY ConsumeConcat
<1> QED
  BY <1>2, <1>3

(* A literal of two bytes. *)
Literal(q, lit, phase, reason) ==
  \A c \in Scanners : \A byte :
     c.phase = q => ScanByte(c, byte) = Match(c, byte, lit, phase, reason)

(* A literal is read to its end.                                           *)
LEMMA LiteralRead ==
  ASSUME NEW s \in Scanners, s.literal = 0, s.bytes + 2 <= MaxHeader,
         NEW a, NEW b, NEW phase \in Phases, NEW reason,
         s.phase \in {"Method", "Version"},
         Literal(s.phase, <<a, b>>, phase, reason)
  PROVE  /\ SameHead(s, Consume(s, <<a, b>>), 2)
         /\ Consume(s, <<a, b>>).phase = phase
<1> DEFINE c1 == Counted(s)
           t1 == [c1 EXCEPT !.literal = @ + 1]
           c2 == Counted(t1)
           u2 == [c2 EXCEPT !.literal = @ + 1]
           t2 == Goto(u2, phase)
<1>0. <<a, b>>[1] = a /\ <<a, b>>[2] = b /\ Len(<<a, b>>) = 2 /\ s.bytes \in Nat
  BY ScannerAssumption DEF Scanners, ScannerType
<1>1. /\ Consume(s, <<a>>) = ScanByte(c1, a) /\ c1 \in Scanners /\ SameHead(s, c1, 1)
      /\ c1.phase = s.phase /\ c1.literal = s.literal
      /\ Keeps(c1, ScanByte(c1, a))
  <2>1. s.bytes < MaxHeader /\ s.phase \notin {"Opaque", "Failed"}
    BY <1>0, ScannerAssumption
  <2>2. Consume(s, <<a>>) = ScanByte(c1, a) /\ c1 \in Scanners /\ SameHead(s, c1, 1)
        /\ SameFields(s, c1) /\ Keeps(c1, ScanByte(c1, a))
    BY <2>1, ByteStep
  <2> QED
    BY <2>2 DEF SameFields
<1>2. /\ t1 = [c1 EXCEPT !.literal = 1] /\ t1.literal = 1 /\ t1.phase = s.phase
      /\ t1.bytes = c1.bytes /\ t1.stream = c1.stream /\ t1.saw = c1.saw
  BY <1>1 DEF Scanners, ScannerType
<1>3. ScanByte(c1, a) = t1
  <2>1. ScanByte(c1, a) = Match(c1, a, <<a, b>>, phase, reason)
    BY <1>1 DEF Literal
  <2>2. [c1 EXCEPT !.literal = @ + 1].literal = 1
    BY <1>2
  <2> QED
    BY <1>0, <2>1, <2>2 DEF Match
<1> HIDE DEF c1
<1>4. t1 \in Scanners /\ SameHead(s, t1, 1)
  BY <1>0, <1>1, <1>2, <1>3, ScannerAssumption DEF Keeps, Scanners, SameHead
<1> HIDE DEF t1
<1>5. /\ Consume(t1, <<b>>) = ScanByte(c2, b) /\ c2 \in Scanners /\ SameHead(t1, c2, 1)
      /\ c2.phase = s.phase /\ c2.literal = 1
      /\ Keeps(c2, ScanByte(c2, b))
  <2>1. t1.bytes < MaxHeader
    BY <1>0, <1>4, ScannerAssumption DEF SameHead
  <2>2. /\ Consume(t1, <<b>>) = ScanByte(c2, b) /\ c2 \in Scanners /\ SameHead(t1, c2, 1)
        /\ SameFields(t1, c2) /\ Keeps(c2, ScanByte(c2, b))
    BY <1>2, <1>4, <2>1, ByteStep
  <2> QED
    BY <1>2, <2>2 DEF SameFields
<1>6. /\ u2.literal = 2 /\ u2 \in ScannerType
      /\ u2.bytes = c2.bytes /\ u2.stream = c2.stream /\ u2.saw = c2.saw
  BY <1>5 DEF Scanners, ScannerType
<1>7. ScanByte(c2, b) = t2
  BY <1>0, <1>5, <1>6 DEF Match, Literal
<1> HIDE DEF c2, u2
<1>8. t2.phase = phase /\ t2.bytes = c2.bytes /\ t2.stream = c2.stream /\ t2.saw = c2.saw
  BY <1>6 DEF Goto, ScannerType
<1> HIDE DEF t2
<1>9. t2 \in Scanners /\ SameHead(t1, t2, 1)
  <2>1. c2.bytes = t1.bytes + 1 /\ t1.bytes = s.bytes + 1
    BY <1>4, <1>5 DEF SameHead
  <2>2. ~(t2.bytes > MaxHeader)
    BY <1>0, <1>8, <2>1, ScannerAssumption
  <2> QED
    BY <1>5, <1>7, <1>8, <2>2 DEF SameHead, Scanners, Keeps
<1>10. Consume(s, <<a, b>>) = t2
  BY <1>1, <1>3, <1>5, <1>7, ConsumeTwo
<1>11. SameHead(s, t2, 1 + 1) /\ 1 + 1 = 2
  BY <1>4, <1>9, SameHeadTwice
<1> QED
  BY <1>8, <1>10, <1>11

(* The first i bytes of a text are those of a literal. *)
Prefix(t, i, lit) == \A j \in 1 .. i : j <= Len(lit) /\ t[j] = lit[j]

(* One byte more, and all of them.                                         *)
LEMMA PrefixGrows ==
  ASSUME NEW t, NEW i \in Nat, NEW lit
  PROVE  /\ Prefix(t, i + 1, lit) <=> Prefix(t, i, lit) /\ Prefixed(t[i + 1], i + 1, lit)
         /\ Prefix(t, 0, lit)
<1>1. \A j : j \in 1 .. i + 1 <=> j \in 1 .. i \/ j = i + 1
  OBVIOUS
<1>2. \A j : j \notin 1 .. 0
  OBVIOUS
<1> QED
  BY <1>1, <1>2 DEF Prefix, Prefixed

LEMMA PrefixWhole ==
  ASSUME NEW S, NEW t \in Seq(S), NEW lit \in Seq(S)
  PROVE  Prefix(t, Len(t), lit) /\ Len(t) = Len(lit) <=> t = lit
<1>1. CASE Prefix(t, Len(t), lit) /\ Len(t) = Len(lit)
  <2>1. \A i \in 1 .. Len(t) : t[i] = lit[i]
    BY <1>1 DEF Prefix
  <2> QED
    BY <1>1, <2>1, SeqEqual
<1>2. CASE t = lit
  BY <1>2, LenProperties DEF Prefix
<1> QED
  BY <1>1, <1>2

(* The bytes of a target after the slash. *)
TargetRead(s, t, text, i) ==
  /\ SameHead(s, t, i) /\ t.phase = "Target" /\ t.target = i
  /\ t.onTarget <=> Prefix(text, i, kStreamTarget)

(* A target that is well formed is read to its end, and onTarget says      *)
(* whether it is so far that of the stream.                                *)
LEMMA TargetIsRead ==
  ASSUME NEW s \in Scanners, s.phase = "TargetStart", NEW text \in Texts, text # <<>>,
         text[1] = "/", \A i \in 1 .. Len(text) : IsTarget(text[i]),
         Len(text) <= MaxTarget, s.bytes + Len(text) <= MaxHeader
  PROVE  TargetRead(s, Consume(s, text), text, Len(text))
<1> DEFINE n == Len(text)
<1>1. n \in Nat /\ n >= 1 /\ s.bytes \in Nat /\ MaxHeader \in Nat /\ MaxTarget \in Nat /\ MaxTarget >= 1
  BY EmptySeq, ScannerAssumption DEF Texts, Scanners, ScannerType
<1>2. PICK f \in [0 .. n -> Scanners] :
        /\ f[0] = s
        /\ \A i \in 1 .. n : f[i] = ScanCounted(f[i - 1], text[i])
        /\ Consume(s, text) = f[n]
  BY <1>1, ConsumeTable
<1> DEFINE T == {i \in Nat : i + 1 <= n => TargetRead(s, f[i + 1], text, i + 1)}
<1>a. n \in Nat /\ n <= MaxTarget /\ s.bytes + n <= MaxHeader
  BY <1>1
<1> HIDE DEF n
<1>3. TargetRead(s, f[1], text, 1)
  <2> DEFINE c == Counted(s)
             b == [c EXCEPT !.target = 1, !.onTarget = TRUE]
  <2>1. 1 \in 1 .. n /\ 1 - 1 = 0 /\ s.bytes < MaxHeader
    BY <1>1, <1>a
  <2>2. f[1] = ScanCounted(s, "/")
    BY <1>2, <2>1
  <2>3. /\ ScanCounted(s, "/") = ScanByte(c, "/") /\ c \in Scanners /\ SameHead(s, c, 1)
        /\ c.phase = "TargetStart"
    <3>1. s.bytes < MaxHeader /\ s.phase \notin {"Opaque", "Failed"}
      BY <2>1
    <3>2. /\ ScanCounted(s, "/") = ScanByte(c, "/") /\ c \in Scanners /\ SameHead(s, c, 1)
          /\ SameFields(s, c)
      BY <3>1, ByteStep
    <3> QED
      BY <3>2 DEF SameFields
  <2>4. ScanByte(c, "/") = Goto(b, "Target")
    BY <2>3 DEF ScanByte, Expect
  <2>5. /\ Goto(b, "Target").phase = "Target" /\ Goto(b, "Target").target = 1
        /\ Goto(b, "Target").onTarget = TRUE /\ Goto(b, "Target").bytes = c.bytes
        /\ Goto(b, "Target").stream = c.stream /\ Goto(b, "Target").saw = c.saw
    <3> HIDE DEF c
    <3> QED
      BY <2>3 DEF Goto, Scanners, ScannerType
  <2>6. Prefix(text, 1, kStreamTarget)
    <3>1. kStreamTarget[1] = "/" /\ 1 <= Len(kStreamTarget)
      BY DEF kStreamTarget
    <3>2. \A j \in 1 .. 1 : j = 1
      OBVIOUS
    <3> QED
      BY <3>1, <3>2 DEF Prefix
  <2>7. f[1] \in Scanners
    BY <1>2, <2>1
  <2> HIDE DEF b, c
  <2> QED
    BY <2>2, <2>3, <2>4, <2>5, <2>6, <2>7 DEF TargetRead, SameHead
<1>4. 0 \in T
  BY <1>3
<1>5. ASSUME NEW i \in Nat, i \in T PROVE i + 1 \in T
  <2> DEFINE m == i + 1
             t == f[m]
             c == Counted(t)
             byte == text[m + 1]
             fits == m + 1 <= Len(kStreamTarget) /\ byte = kStreamTarget[m + 1]
             u == [c EXCEPT !.target = m + 1, !.onTarget = @ /\ fits]
  <2> SUFFICES ASSUME m + 1 <= n PROVE TargetRead(s, f[m + 1], text, m + 1)
    OBVIOUS
  <2>1. /\ m \in Nat /\ m <= n /\ m + 1 \in 1 .. n /\ (m + 1) - 1 = m /\ m \in 0 .. n
        /\ TargetRead(s, t, text, m)
    BY <1>a, <1>5
  <2>2. f[m + 1] = ScanCounted(t, byte) /\ t \in Scanners /\ f[m + 1] \in Scanners
    BY <1>2, <2>1
  <2>3. t.phase = "Target" /\ t.bytes < MaxHeader /\ t.target = m /\ SameHead(s, t, m)
    <3>1. t.bytes = s.bytes + m
      BY <2>1 DEF TargetRead, SameHead
    <3> HIDE DEF m, t
    <3> QED
      BY <1>1, <1>a, <2>1, <3>1 DEF TargetRead
  <2>4. IsTarget(byte) /\ byte # " "
    BY <1>a, <2>1 DEF n, IsTarget
  <2> HIDE DEF t, byte, m
  <2>5. /\ ScanCounted(t, byte) = ScanByte(c, byte) /\ c \in Scanners /\ SameHead(t, c, 1)
        /\ SameFields(t, c)
    BY <2>2, <2>3, ByteStep
  <2>6. c.phase = "Target" /\ c.target = m /\ (c.onTarget <=> t.onTarget)
    BY <2>3, <2>5 DEF SameFields
  <2>7. ScanByte(c, byte) = u
    <3>1. ScanByte(c, byte) = TargetByte(c, byte)
      BY <2>6 DEF ScanByte
    <3>2. ~(c.target + 1 > MaxTarget)
      BY <1>1, <1>a, <2>1, <2>6
    <3> QED
      BY <2>4, <2>6, <3>1, <3>2 DEF TargetByte
  <2> HIDE DEF c
  <2>8. /\ u.phase = c.phase /\ u.target = m + 1 /\ (u.onTarget <=> c.onTarget /\ fits)
        /\ u.bytes = c.bytes /\ u.stream = c.stream /\ u.saw = c.saw
    <3> HIDE DEF fits
    <3> QED
      BY <2>5 DEF Scanners, ScannerType
  <2> HIDE DEF u
  <2>9. SameHead(t, u, 1)
    BY <2>2, <2>5, <2>7, <2>8 DEF SameHead
  <2>10. SameHead(s, u, m + 1)
    BY <2>1, <2>2, <2>3, <2>9, SameHeadTwice
  <2>11. u.onTarget <=> Prefix(text, m + 1, kStreamTarget)
    <3>1. t.onTarget <=> Prefix(text, m, kStreamTarget)
      BY <2>1 DEF TargetRead
    <3>2. fits <=> Prefixed(text[m + 1], m + 1, kStreamTarget)
      BY DEF fits, byte, Prefixed
    <3> QED
      BY <2>1, <2>6, <2>8, <3>1, <3>2, PrefixGrows
  <2> QED
    BY <2>2, <2>5, <2>6, <2>7, <2>8, <2>10, <2>11 DEF TargetRead
<1> HIDE DEF T
<1>6. Nat \subseteq T
  BY <1>4, <1>5, InductionOnSet
<1>7. n - 1 \in T /\ (n - 1) + 1 = n
  BY <1>1, <1>6
<1>8. TargetRead(s, f[n], text, n)
  <2>1. n <= n
    BY <1>1
  <2> QED
    BY <1>7, <2>1 DEF T
<1> QED
  BY <1>2, <1>8 DEF n

LineText(r) == r.method \o <<" ">> \o r.target \o <<" ">> \o r.version \o r.eol

(* The space after a target tells the stream from the other requests. *)
LEMMA TargetEnds ==
  ASSUME NEW s \in Scanners, NEW text \in Texts, s.phase = "Target", s.target = Len(text),
         s.onTarget <=> Prefix(text, Len(text), kStreamTarget), s.bytes < MaxHeader
  PROVE  LET t == Consume(s, <<" ">>) IN
         /\ t \in Scanners /\ t.bytes = s.bytes + 1 /\ t.saw = s.saw
         /\ t.phase = "Version" /\ t.literal = 0
         /\ t.stream <=> text = kStreamTarget
<1> DEFINE c == Counted(s)
           done == c.onTarget /\ c.target = Len(kStreamTarget)
           u == [c EXCEPT !.stream = done, !.phase = "Version", !.literal = 0]
<1>1. /\ Consume(s, <<" ">>) = ScanByte(c, " ") /\ c \in Scanners /\ SameHead(s, c, 1)
      /\ SameFields(s, c) /\ Keeps(c, ScanByte(c, " "))
  BY ByteStep
<1>2. ScanByte(c, " ") = u
  <2>1. c.phase = "Target"
    BY <1>1 DEF SameFields
  <2>2. ScanByte(c, " ") = TargetByte(c, " ")
    BY <2>1 DEF ScanByte
  <2> QED
    BY <2>2 DEF TargetByte
<1>3. done <=> text = kStreamTarget
  <2>1. kStreamTarget \in Seq(Bytes)
    BY DEF kStreamTarget, Bytes, Letters
  <2>2. Prefix(text, Len(text), kStreamTarget) /\ Len(text) = Len(kStreamTarget) <=> text = kStreamTarget
    BY <2>1, PrefixWhole DEF Texts
  <2>3. (c.onTarget <=> s.onTarget) /\ c.target = s.target
    BY <1>1 DEF SameFields
  <2> QED
    BY <2>2, <2>3
<1>4. c \in Scanners /\ c.bytes = s.bytes + 1 /\ c.saw = s.saw
  BY <1>1 DEF SameHead
<1> HIDE DEF c, done
<1>5. /\ u.phase = "Version" /\ u.literal = 0 /\ u.bytes = c.bytes /\ u.saw = c.saw
      /\ u.stream = done
  BY <1>4 DEF Scanners, ScannerType
<1>6. u \in Scanners
  <2>1. s.bytes \in Nat /\ ~(c.bytes > MaxHeader)
    BY <1>4, ScannerAssumption, SMTT(30) DEF Scanners, ScannerType
  <2> HIDE DEF u
  <2> QED
    BY <1>1, <1>2, <1>5, <2>1 DEF Scanners, Keeps
<1> QED
  BY <1>1, <1>2, <1>3, <1>4, <1>5, <1>6, ZenonT(30)

(* The end of a line. *)
LEMMA EolRead ==
  ASSUME NEW s \in Scanners, s.bytes + 2 <= MaxHeader,
         s.phase \in {"RequestLineCr"}
  PROVE  SameHead(s, Consume(s, <<"cr", "lf">>), 2)
         /\ Consume(s, <<"cr", "lf">>).phase = "HeaderLineStart"
<1> DEFINE t == Consume(s, <<"cr">>)
           u == Consume(t, <<"lf">>)
<1>0. s.bytes \in Nat /\ MaxHeader \in Nat
  BY ScannerAssumption DEF Scanners, ScannerType
<1>1. SameHead(s, t, 1) /\ t = [s EXCEPT !.bytes = @ + 1, !.phase = "RequestLineLf"]
  <2>1. Counted(s).phase = s.phase
    BY DEF Counted, Scanners, ScannerType
  <2>2. ScanByte(Counted(s), "cr") = Goto(Counted(s), "RequestLineLf")
    BY <2>1 DEF ScanByte, Expect
  <2>3. s.bytes < MaxHeader /\ "RequestLineLf" \in Phases /\ s.phase \notin {"Opaque", "Failed"}
    BY <1>0 DEF Phases
  <2> QED
    BY <2>2, <2>3, ByteMoves
<1> HIDE DEF t
<1>2. t \in Scanners /\ t.phase = "RequestLineLf" /\ t.bytes < MaxHeader
  <2>1. t \in Scanners /\ t.bytes = s.bytes + 1
    BY <1>1 DEF SameHead
  <2>2. t.phase = "RequestLineLf"
    BY <1>1 DEF Scanners, ScannerType
  <2> QED
    BY <1>0, <2>1, <2>2
<1>3. SameHead(t, u, 1) /\ u = [t EXCEPT !.bytes = @ + 1, !.phase = "HeaderLineStart"]
  <2>1. Counted(t).phase = t.phase
    BY <1>2 DEF Counted, Scanners, ScannerType
  <2>2. ScanByte(Counted(t), "lf") = Goto(Counted(t), "HeaderLineStart")
    BY <1>2, <2>1 DEF ScanByte, Expect
  <2>3. "HeaderLineStart" \in Phases /\ t.phase \notin {"Opaque", "Failed"}
    BY <1>2 DEF Phases
  <2> QED
    BY <1>2, <2>2, <2>3, ByteMoves
<1>4. u.phase = "HeaderLineStart"
  BY <1>2, <1>3 DEF Scanners, ScannerType
<1>5. SameHead(s, u, 2)
  <2>1. 1 + 1 = 2
    OBVIOUS
  <2> HIDE DEF u
  <2> QED
    BY <1>1, <1>3, <2>1, SameHeadTwice
<1>6. Consume(s, <<"cr", "lf">>) = u
  BY ConsumeTwo DEF t
<1> QED
  BY <1>4, <1>5, <1>6

(* What IsWellFormed says of the first line. *)
LineFormed(r) ==
  /\ r.method = kMethod /\ r.version = kVersion /\ r.eol = <<"cr", "lf">>
  /\ r.target # <<>> /\ r.target[1] = "/" /\ Len(r.target) <= MaxTarget
  /\ \A i \in DOMAIN r.target : IsTarget(r.target[i])

(* The first line of a request that is well formed. *)
LEMMA LineRead ==
  ASSUME NEW r \in RequestType, LineFormed(r), Len(LineText(r)) <= MaxHeader
  PROVE  LET t == Consume(Fresh, LineText(r)) IN
         /\ t \in Scanners /\ t.phase = "HeaderLineStart" /\ t.saw = {}
         /\ t.bytes = Len(LineText(r))
         /\ t.stream <=> IsStream(r)
<1> DEFINE sp == <<" ">>
           tg == r.target
           a1 == r.method
           a2 == a1 \o sp
           a3 == a2 \o tg
           a4 == a3 \o sp
           a5 == a4 \o r.version
           a6 == a5 \o r.eol
           n == Len(tg)
<1>1. /\ r.method = <<"g", "t">> /\ r.version = <<"h", "1">> /\ r.eol = <<"cr", "lf">>
      /\ tg \in Texts /\ tg # <<>> /\ tg[1] = "/" /\ Len(tg) <= MaxTarget
      /\ \A i \in 1 .. Len(tg) : IsTarget(tg[i])
      /\ r.method \in Texts /\ r.version \in Texts /\ r.eol \in Texts /\ sp \in Texts
  <2>1. /\ tg \in Texts /\ r.method \in Texts /\ r.version \in Texts /\ r.eol \in Texts
    BY DEF RequestType
  <2>2. DOMAIN tg = 1 .. Len(tg)
    BY <2>1, LenProperties DEF Texts
  <2>3. sp \in Texts
    BY DEF Texts, Bytes
  <2> QED
    BY <2>1, <2>2, <2>3 DEF LineFormed, kMethod, kVersion
<1>2. /\ Len(sp) = 1 /\ Len(r.method) = 2 /\ Len(r.version) = 2 /\ Len(r.eol) = 2
      /\ n \in Nat
  BY <1>1, LenProperties DEF Texts
<1> HIDE DEF sp, tg, n
<1>3. \A x, y \in Texts : x \o y \in Texts /\ Len(x \o y) = Len(x) + Len(y)
  BY ConcatProperties DEF Texts
<1>4. /\ a1 \in Texts /\ a2 \in Texts /\ a3 \in Texts /\ a4 \in Texts /\ a5 \in Texts /\ a6 \in Texts
  BY <1>1, <1>3
<1>a. /\ a1 = r.method /\ a2 = a1 \o sp /\ a3 = a2 \o tg /\ a4 = a3 \o sp /\ a5 = a4 \o r.version
      /\ a6 = a5 \o r.eol /\ a6 = LineText(r)
  BY DEF LineText, sp, tg
<1> HIDE DEF a1, a2, a3, a4, a5, a6
<1>5. Len(a6) = n + 8 /\ n + 8 <= MaxHeader
  <2>0. sp \in Texts /\ r.version \in Texts /\ r.eol \in Texts /\ tg \in Texts
    BY <1>1
  <2>1. Len(a2) = 3
    <3>1. Len(a1) = 2 /\ Len(sp) = 1
      BY <1>2, <1>a
    <3>2. Len(a1 \o sp) = Len(a1) + Len(sp)
      BY <1>3, <1>4, <2>0
    <3> QED
      BY <1>a, <3>1, <3>2
  <2>2. Len(a3) = 3 + n
    BY <1>1, <1>3, <1>4, <1>a, <2>1 DEF n
  <2>3. Len(a4) = 3 + n + 1
    <3>1. Len(a3 \o sp) = Len(a3) + Len(sp) /\ Len(sp) = 1
      BY <1>2, <1>3, <1>4, <2>0
    <3> QED
      BY <1>a, <2>2, <3>1
  <2>4. Len(a5) = 3 + n + 1 + 2
    BY <1>1, <1>2, <1>3, <1>4, <1>a, <2>3
  <2>5. Len(a6) = 3 + n + 1 + 2 + 2
    BY <1>1, <1>2, <1>3, <1>4, <1>a, <2>4
  <2> QED
    BY <1>2, <1>a, <2>5
<1>6. ASSUME NEW s \in Scanners, NEW x \in Texts, NEW y \in Texts
      PROVE  Consume(s, x \o y) = Consume(Consume(s, x), y)
  BY ConsumeConcat DEF Texts
<1> DEFINE s1 == Consume(Fresh, a1)
           s2 == Consume(s1, sp)
           s3 == Consume(s2, tg)
           s4 == Consume(s3, sp)
           s5 == Consume(s4, r.version)
           s6 == Consume(s5, r.eol)
<1>7. /\ Fresh \in Scanners /\ Fresh.bytes = 0 /\ Fresh.literal = 0 /\ Fresh.phase = "Method"
      /\ Fresh.saw = {} /\ MaxHeader \in Nat
  BY FreshScans, ScannerAssumption DEF Fresh
<1>8. s1 \in Scanners /\ s1.bytes = 2 /\ s1.saw = {} /\ s1.phase = "MethodSpace"
  <2>1. Literal(Fresh.phase, <<"g", "t">>, "MethodSpace", "Method")
    BY <1>7 DEF ScanByte, kMethod, Literal
  <2>2. Fresh.bytes + 2 <= MaxHeader /\ "MethodSpace" \in Phases /\ Fresh.phase \in {"Method", "Version"}
    BY <1>2, <1>5, <1>7 DEF Phases
  <2>3. SameHead(Fresh, Consume(Fresh, <<"g", "t">>), 2) /\ Consume(Fresh, <<"g", "t">>).phase = "MethodSpace"
    BY <1>7, <2>1, <2>2, LiteralRead
  <2> QED
    BY <1>1, <1>7, <1>a, <2>3 DEF SameHead
<1> HIDE DEF s1
<1>9. s2 \in Scanners /\ s2.bytes = 3 /\ s2.saw = {} /\ s2.phase = "TargetStart"
  <2>1. Counted(s1).phase = s1.phase
    BY <1>8 DEF Counted, Scanners, ScannerType
  <2>2. ScanByte(Counted(s1), " ") = Goto(Counted(s1), "TargetStart")
    BY <1>8, <2>1 DEF ScanByte, Expect
  <2>3. s1.bytes < MaxHeader /\ "TargetStart" \in Phases /\ s1.phase \notin {"Opaque", "Failed"}
    BY <1>2, <1>5, <1>7, <1>8 DEF Phases
  <2>4. SameHead(s1, s2, 1) /\ s2 = [s1 EXCEPT !.bytes = @ + 1, !.phase = "TargetStart"]
    BY <1>8, <2>2, <2>3, ByteMoves, ZenonT(30) DEF sp
  <2>5. s2.phase = "TargetStart"
    BY <1>8, <2>4 DEF Scanners, ScannerType
  <2> HIDE DEF s2
  <2> QED
    BY <1>8, <2>4, <2>5 DEF SameHead
<1> HIDE DEF s2
<1>10. TargetRead(s2, s3, tg, n)
  <2>1. s2.bytes + Len(tg) <= MaxHeader
    BY <1>2, <1>5, <1>7, <1>9 DEF n
  <2> QED
    BY <1>1, <1>9, <2>1, TargetIsRead DEF n
<1> HIDE DEF s3
<1>11. /\ s4 \in Scanners /\ s4.bytes = 4 + n /\ s4.saw = {} /\ s4.phase = "Version" /\ s4.literal = 0
       /\ s4.stream <=> tg = kStreamTarget
  <2>1. /\ s3 \in Scanners /\ s3.bytes = 3 + n /\ s3.saw = {} /\ s3.phase = "Target" /\ s3.target = n
        /\ s3.onTarget <=> Prefix(tg, n, kStreamTarget)
    BY <1>9, <1>10 DEF TargetRead, SameHead
  <2>2. s3.bytes < MaxHeader
    BY <1>2, <1>5, <1>7, <2>1
  <2>3. /\ s4 \in Scanners /\ s4.bytes = s3.bytes + 1 /\ s4.saw = s3.saw
        /\ s4.phase = "Version" /\ s4.literal = 0 /\ (s4.stream <=> tg = kStreamTarget)
    BY <1>1, <2>1, <2>2, TargetEnds DEF n, sp
  <2> HIDE DEF s4
  <2> QED
    BY <1>2, <2>1, <2>3
<1> HIDE DEF s4
<1>12. SameHead(s4, s5, 2) /\ s5.phase = "RequestLineCr"
  <2>1. Literal(s4.phase, <<"h", "1">>, "RequestLineCr", "Version")
    BY <1>11 DEF ScanByte, kVersion, Literal
  <2>2. s4.bytes + 2 <= MaxHeader /\ "RequestLineCr" \in Phases /\ s4.phase \in {"Method", "Version"}
    BY <1>2, <1>5, <1>7, <1>11 DEF Phases
  <2>3. SameHead(s4, Consume(s4, <<"h", "1">>), 2) /\ Consume(s4, <<"h", "1">>).phase = "RequestLineCr"
    BY <1>11, <2>1, <2>2, LiteralRead
  <2> QED
    BY <1>1, <2>3
<1> HIDE DEF s5
<1>13. SameHead(s5, s6, 2) /\ s6.phase = "HeaderLineStart"
  <2>1. s5 \in Scanners /\ s5.bytes + 2 <= MaxHeader
    BY <1>2, <1>5, <1>7, <1>11, <1>12 DEF SameHead
  <2> QED
    BY <1>1, <1>12, <2>1, EolRead
<1> HIDE DEF s6
<1>14. Consume(Fresh, a6) = s6
  <2>1. Consume(Fresh, a2) = s2
    BY <1>1, <1>4, <1>6, <1>7, <1>a DEF s1, s2
  <2>2. Consume(Fresh, a3) = s3
    BY <1>1, <1>4, <1>6, <1>7, <2>1, <1>a DEF s3
  <2>3. Consume(Fresh, a4) = s4
    BY <1>1, <1>4, <1>6, <1>7, <2>2, <1>a DEF s4
  <2>4. Consume(Fresh, a5) = s5
    BY <1>1, <1>4, <1>6, <1>7, <2>3, <1>a DEF s5
  <2> QED
    BY <1>1, <1>4, <1>6, <1>7, <2>4, <1>a DEF s6
<1>16. SameHead(s4, s6, 4)
  <2>1. 2 + 2 = 4
    OBVIOUS
  <2> QED
    BY <1>11, <1>12, <1>13, <2>1, SameHeadTwice
<1>17. s6.bytes = n + 8 /\ s6.saw = {} /\ s6.stream = s4.stream /\ s6 \in Scanners
  BY <1>2, <1>11, <1>16 DEF SameHead
<1> QED
  BY <1>5, <1>11, <1>13, <1>14, <1>a, <1>17 DEF IsStream, tg

(* The names are texts of two bytes or more.                               *)
LEMMA FieldNames ==
  \A k \in FieldKinds : kFieldNames[k] \in Texts /\ Len(kFieldNames[k]) \in Nat /\ Len(kFieldNames[k]) >= 2
<1> SUFFICES ASSUME NEW k \in FieldKinds
             PROVE  kFieldNames[k] \in Texts /\ Len(kFieldNames[k]) \in Nat /\ Len(kFieldNames[k]) >= 2
  OBVIOUS
<1>1. k \in {"origin", "upgrade", "connection", "contentLength", "transferEncoding"}
  BY DEF FieldKinds, kFieldNames
<1>2. \A a, b \in Bytes : <<a, b>> \in Texts /\ Len(<<a, b>>) = 2
  BY DEF Texts
<1>3. \A a, b, c \in Bytes : <<a, b, c>> \in Texts /\ Len(<<a, b, c>>) = 3
  BY DEF Texts
<1>4. {"o", "g", "u", "c", "n", "l", "t", "e"} \subseteq Bytes
  BY DEF Bytes, Letters
<1>5. CASE k = "origin"
  <2>1. kFieldNames[k] = <<"o", "g">>
    BY <1>5 DEF kFieldNames
  <2> QED
    BY <1>2, <1>4, <2>1
<1>6. CASE k = "upgrade"
  <2>1. kFieldNames[k] = <<"u", "g">>
    BY <1>6 DEF kFieldNames
  <2> QED
    BY <1>2, <1>4, <2>1
<1>7. CASE k = "connection"
  <2>1. kFieldNames[k] = <<"c", "n">>
    BY <1>7 DEF kFieldNames
  <2> QED
    BY <1>2, <1>4, <2>1
<1>8. CASE k = "contentLength"
  <2>1. kFieldNames[k] = <<"c", "n", "l">>
    BY <1>8 DEF kFieldNames
  <2> QED
    BY <1>3, <1>4, <2>1
<1>9. CASE k = "transferEncoding"
  <2>1. kFieldNames[k] = <<"t", "e">>
    BY <1>9 DEF kFieldNames
  <2> QED
    BY <1>2, <1>4, <2>1
<1> QED
  BY <1>1, <1>5, <1>6, <1>7, <1>8, <1>9

(* The first i bytes of a field's name, and the fields it may be of. *)
NameRead(s, t, text, i) ==
  /\ SameHead(s, t, i) /\ t.phase = "FieldName" /\ t.name = i
  /\ t.candidates = {k \in FieldKinds : Prefix(Lowered(text), i, kFieldNames[k])}

(* AddFieldNameByte keeps those the next byte agrees with. *)
LEMMA NameByte ==
  ASSUME NEW c \in ScannerType, NEW text, NEW i \in Nat, c.name = i, i + 1 \in DOMAIN text,
         c.candidates = {k \in FieldKinds : Prefix(Lowered(text), i, kFieldNames[k])}
  PROVE  LET u == AddFieldNameByte(c, text[i + 1]) IN
         /\ u.name = i + 1 /\ u.phase = c.phase /\ u.bytes = c.bytes
         /\ u.stream = c.stream /\ u.saw = c.saw
         /\ u.candidates = {k \in FieldKinds : Prefix(Lowered(text), i + 1, kFieldNames[k])}
<1> DEFINE byte == text[i + 1]
           agree == {k \in c.candidates : /\ c.name < Len(kFieldNames[k])
                                         /\ Lower(byte) = kFieldNames[k][c.name + 1]}
           u == AddFieldNameByte(c, byte)
<1>1. u = [c EXCEPT !.name = @ + 1, !.candidates = agree]
  BY DEF AddFieldNameByte
<1>2. Lowered(text)[i + 1] = Lower(byte)
  BY DEF Lowered
<1>3. ASSUME NEW k \in FieldKinds
      PROVE  Prefix(Lowered(text), i + 1, kFieldNames[k])
               <=> /\ Prefix(Lowered(text), i, kFieldNames[k])
                   /\ c.name < Len(kFieldNames[k]) /\ Lower(byte) = kFieldNames[k][c.name + 1]
  <2>1. Len(kFieldNames[k]) \in Nat
    BY FieldNames
  <2>2. Prefixed(Lower(byte), i + 1, kFieldNames[k])
          <=> c.name < Len(kFieldNames[k]) /\ Lower(byte) = kFieldNames[k][c.name + 1]
    BY <2>1 DEF Prefixed
  <2>3. Prefix(Lowered(text), i + 1, kFieldNames[k])
          <=> Prefix(Lowered(text), i, kFieldNames[k]) /\ Prefixed(Lowered(text)[i + 1], i + 1, kFieldNames[k])
    BY PrefixGrows
  <2> HIDE DEF byte
  <2> QED
    BY <1>2, <2>2, <2>3
<1> HIDE DEF byte
<1>4. agree = {k \in FieldKinds : Prefix(Lowered(text), i + 1, kFieldNames[k])}
  BY <1>3
<1> HIDE DEF agree, u
<1>5. /\ u.name = i + 1 /\ u.phase = c.phase /\ u.bytes = c.bytes
      /\ u.stream = c.stream /\ u.saw = c.saw /\ u.candidates = agree
  BY <1>1 DEF ScannerType
<1> QED
  BY <1>4, <1>5 DEF u, byte

(* A name of tokens is read to its end.                                    *)
LEMMA NameIsRead ==
  ASSUME NEW s \in Scanners, s.phase = "HeaderLineStart", NEW text \in Texts, text # <<>>,
         \A i \in 1 .. Len(text) : IsToken(text[i]),
         Len(text) <= MaxName, s.bytes + Len(text) <= MaxHeader
  PROVE  NameRead(s, Consume(s, text), text, Len(text))
<1> DEFINE n == Len(text)
<1>1. n \in Nat /\ n >= 1 /\ s.bytes \in Nat /\ MaxHeader \in Nat /\ MaxName \in Nat /\ DOMAIN text = 1 .. n
  BY EmptySeq, LenProperties, ScannerAssumption DEF Texts, Scanners, ScannerType
<1>2. PICK f \in [0 .. n -> Scanners] :
        /\ f[0] = s
        /\ \A i \in 1 .. n : f[i] = ScanCounted(f[i - 1], text[i])
        /\ Consume(s, text) = f[n]
  BY <1>1, ConsumeTable
<1> DEFINE T == {i \in Nat : i + 1 <= n => NameRead(s, f[i + 1], text, i + 1)}
<1>a. n <= MaxName /\ s.bytes + n <= MaxHeader /\ \A i \in 1 .. n : IsToken(text[i])
  BY <1>1
<1> HIDE DEF n
<1>3. NameRead(s, f[1], text, 1)
  <2> DEFINE byte == text[1]
             c == Counted(s)
             b == [c EXCEPT !.candidates = FieldKinds, !.name = 0]
             u == AddFieldNameByte(b, byte)
             t == Goto(u, "FieldName")
  <2>1. 1 \in 1 .. n /\ 1 - 1 = 0 /\ s.bytes < MaxHeader /\ s.phase \notin {"Opaque", "Failed"}
    BY <1>1, <1>a
  <2>2. f[1] = ScanCounted(s, byte) /\ f[1] \in Scanners /\ IsToken(byte)
    BY <1>2, <1>a, <2>1
  <2>3. /\ ScanCounted(s, byte) = ScanByte(c, byte) /\ c \in Scanners /\ SameHead(s, c, 1)
        /\ SameFields(s, c)
    <3> HIDE DEF c, byte
    <3> QED
      BY <2>1, ByteStep DEF c
  <2>4. ScanByte(c, byte) = t
    <3>1. byte # "cr" /\ byte \notin {" ", "tab"}
      BY <2>2 DEF IsToken, Letters
    <3>2. c.phase = "HeaderLineStart"
      BY <2>3 DEF SameFields
    <3> HIDE DEF c, byte
    <3> QED
      BY <2>2, <3>1, <3>2 DEF ScanByte
  <2> HIDE DEF c
  <2>5. /\ b \in ScannerType /\ b.name = 0 /\ b.candidates = FieldKinds /\ b.bytes = c.bytes
        /\ b.stream = c.stream /\ b.saw = c.saw
    <3>1. 0 \in 0 .. MaxName
      BY <1>1
    <3> QED
      BY <2>3, <3>1 DEF Scanners, ScannerType
  <2> HIDE DEF b
  <2>6. b.candidates = {k \in FieldKinds : Prefix(Lowered(text), 0, kFieldNames[k])}
    <3>1. \A lit : Prefix(Lowered(text), 0, lit)
      BY DEF Prefix
    <3> QED
      BY <2>5, <3>1
  <2>7. /\ u.name = 1 /\ u.bytes = b.bytes /\ u.stream = b.stream /\ u.saw = b.saw
        /\ u.candidates = {k \in FieldKinds : Prefix(Lowered(text), 1, kFieldNames[k])}
    <3>1. 0 + 1 = 1 /\ 0 + 1 \in DOMAIN text
      BY <1>1, <2>1
    <3> QED
      BY <2>5, <2>6, <3>1, NameByte
  <2>8. u \in ScannerType
    <3>1. b.name < MaxName
      BY <1>1, <1>a, <2>5
    <3> QED
      BY <2>5, <3>1, NameType DEF Keeps
  <2> HIDE DEF u
  <2>9. /\ t.phase = "FieldName" /\ t.name = u.name /\ t.candidates = u.candidates
        /\ t.bytes = u.bytes /\ t.stream = u.stream /\ t.saw = u.saw
    BY <2>8 DEF Goto, ScannerType
  <2> HIDE DEF t
  <2> QED
    BY <2>2, <2>3, <2>4, <2>5, <2>7, <2>9 DEF NameRead, SameHead
<1>4. 0 \in T
  BY <1>3
<1>5. ASSUME NEW i \in Nat, i \in T PROVE i + 1 \in T
  <2> DEFINE m == i + 1
             t == f[m]
             c == Counted(t)
             byte == text[m + 1]
             u == AddFieldNameByte(c, byte)
  <2> SUFFICES ASSUME m + 1 <= n PROVE NameRead(s, f[m + 1], text, m + 1)
    OBVIOUS
  <2>1. /\ m \in Nat /\ m <= n /\ m + 1 \in 1 .. n /\ (m + 1) - 1 = m /\ m \in 0 .. n
        /\ NameRead(s, t, text, m)
    BY <1>1, <1>5
  <2>2. f[m + 1] = ScanCounted(t, byte) /\ t \in Scanners /\ f[m + 1] \in Scanners
    BY <1>2, <2>1
  <2>3. t.phase = "FieldName" /\ t.bytes < MaxHeader /\ t.name = m /\ SameHead(s, t, m)
    <3>1. t.bytes = s.bytes + m
      BY <2>1 DEF NameRead, SameHead
    <3> HIDE DEF m, t
    <3> QED
      BY <1>1, <1>a, <2>1, <3>1 DEF NameRead
  <2>4. IsToken(byte) /\ byte # ":"
    BY <1>a, <2>1 DEF IsToken, Letters
  <2> HIDE DEF t, byte, m
  <2>5. /\ ScanCounted(t, byte) = ScanByte(c, byte) /\ c \in Scanners /\ SameHead(t, c, 1)
        /\ SameFields(t, c)
    BY <2>2, <2>3, ByteStep
  <2>6. c.phase = "FieldName" /\ c.name = m /\ c.candidates = t.candidates
    BY <2>3, <2>5 DEF SameFields
  <2> HIDE DEF c
  <2>7. ScanByte(c, byte) = u
    <3>1. ~(c.name >= MaxName)
      BY <1>1, <1>a, <2>1, <2>6
    <3> QED
      BY <2>4, <2>6, <3>1 DEF ScanByte
  <2>8. /\ u.name = m + 1 /\ u.phase = c.phase /\ u.bytes = c.bytes /\ u.stream = c.stream /\ u.saw = c.saw
        /\ u.candidates = {k \in FieldKinds : Prefix(Lowered(text), m + 1, kFieldNames[k])}
    <3>1. m + 1 \in DOMAIN text /\ m \in Nat
      BY <1>1, <2>1
    <3>2. c \in ScannerType /\ c.candidates = {k \in FieldKinds : Prefix(Lowered(text), m, kFieldNames[k])}
      BY <2>1, <2>5, <2>6 DEF NameRead, Scanners
    <3> QED
      BY <2>6, <3>1, <3>2, NameByte DEF byte
  <2> HIDE DEF u
  <2>9. SameHead(t, u, 1)
    BY <2>2, <2>5, <2>7, <2>8 DEF SameHead
  <2>10. SameHead(s, u, m + 1)
    BY <2>1, <2>2, <2>3, <2>9, SameHeadTwice
  <2> QED
    BY <2>2, <2>5, <2>6, <2>7, <2>8, <2>10 DEF NameRead
<1> HIDE DEF T
<1>6. Nat \subseteq T
  BY <1>4, <1>5, InductionOnSet
<1>7. n - 1 \in T /\ (n - 1) + 1 = n
  BY <1>1, <1>6
<1>8. NameRead(s, f[n], text, n)
  <2>1. n <= n
    BY <1>1
  <2> QED
    BY <1>7, <2>1 DEF T
<1> QED
  BY <1>2, <1>8 DEF n

(* The kind of a field by its name. *)
KindOf(text) ==
  LET found == {k \in FieldKinds : Lowered(text) = kFieldNames[k]}
  IN IF found = {} THEN "generic" ELSE CHOOSE k \in found : TRUE

(* A text in small letters.                                                *)
LEMMA LoweredType ==
  ASSUME NEW text \in Texts
  PROVE  Lowered(text) \in Seq(Bytes) /\ Len(Lowered(text)) = Len(text) /\ DOMAIN Lowered(text) = 1 .. Len(text)
<1>1. /\ Len(text) \in Nat /\ DOMAIN text = 1 .. Len(text)
      /\ \A i \in 1 .. Len(text) : text[i] \in Bytes
  BY LenProperties, ElementOfSeq DEF Texts
<1>2. \A b \in Bytes : Lower(b) \in Bytes
  BY DEF Lower, Bytes, Letters
<1>3. \A i \in 1 .. Len(text) : Lower(text[i]) \in Bytes
  BY <1>1, <1>2
<1>4. Lowered(text) = [i \in 1 .. Len(text) |-> Lower(text[i])]
  BY <1>1 DEF Lowered
<1> QED
  BY <1>1, <1>3, <1>4

(* What a field's name leaves in a request that is accepted so far. *)
KindFits(s, kind) ==
  /\ kind \notin {"contentLength", "transferEncoding"}
  /\ kind = "upgrade" => s.stream
  /\ s.stream /\ kind \in Watched => kind \notin s.saw

Kept(s, kind) == IF s.stream /\ kind \in Watched THEN kind ELSE "generic"
SawWith(s, kind) == IF s.stream /\ kind \in Watched THEN s.saw \cup {kind} ELSE s.saw

(* What is left of the candidates at the colon is the field's kind.        *)
LEMMA NameClassified ==
  ASSUME NEW c, NEW text \in Texts, c.name = Len(text),
         c.candidates = {k \in FieldKinds : Prefix(Lowered(text), Len(text), kFieldNames[k])}
  PROVE  ClassifyField(c) = KindOf(text)
<1> DEFINE found == {k \in c.candidates : Len(kFieldNames[k]) = c.name}
           named == {k \in FieldKinds : Lowered(text) = kFieldNames[k]}
<1>1. ASSUME NEW k \in FieldKinds
      PROVE  Prefix(Lowered(text), Len(text), kFieldNames[k]) /\ Len(kFieldNames[k]) = c.name
               <=> Lowered(text) = kFieldNames[k]
  <2>1. kFieldNames[k] \in Seq(Bytes)
    BY FieldNames DEF Texts
  <2>2. Lowered(text) \in Seq(Bytes) /\ Len(Lowered(text)) = Len(text)
    BY LoweredType
  <2> DEFINE lit == kFieldNames[k]
             low == Lowered(text)
  <2>3. Prefix(low, Len(low), lit) /\ Len(low) = Len(lit) <=> low = lit
    BY <2>1, <2>2, PrefixWhole
  <2> HIDE DEF low, lit
  <2> QED
    BY <2>2, <2>3 DEF low, lit
<1>2. found = named
  BY <1>1
<1>3. ClassifyField(c) = IF found = {} THEN "generic" ELSE CHOOSE k \in found : TRUE
  BY DEF ClassifyField
<1>4. KindOf(text) = IF named = {} THEN "generic" ELSE CHOOSE k \in named : TRUE
  BY DEF KindOf
<1> HIDE DEF found, named
<1> QED
  BY <1>2, <1>3, <1>4

(* The colon after a name. *)
ValueBegun(s, t, kind) ==
  /\ t \in Scanners /\ t.stream = s.stream /\ t.saw = SawWith(s, kind)
  /\ t.kind = Kept(s, kind) /\ t.value = 0 /\ t.matches = TRUE /\ t.isNull = TRUE

(* A name that the request may have is followed by its value.              *)
LEMMA NameEnds ==
  ASSUME NEW s \in Scanners, NEW text \in Texts, s.phase = "FieldName", s.name = Len(text),
         s.candidates = {k \in FieldKinds : Prefix(Lowered(text), Len(text), kFieldNames[k])},
         s.bytes < MaxHeader, KindFits(s, KindOf(text))
  PROVE  LET t == Consume(s, <<":">>) IN
         ValueBegun(s, t, KindOf(text)) /\ t.phase = "ValueSpace" /\ t.bytes = s.bytes + 1
<1> DEFINE c == Counted(s)
           kind == KindOf(text)
           watched == c.stream /\ kind \in {"origin", "upgrade", "connection"}
           u == [c EXCEPT !.phase = "ValueSpace",
                    !.kind = IF watched THEN kind ELSE "generic",
                    !.saw = IF watched THEN @ \cup {kind} ELSE @,
                    !.value = 0, !.matches = TRUE, !.isNull = TRUE]
<1>1. /\ Consume(s, <<":">>) = ScanByte(c, ":") /\ c \in Scanners /\ SameHead(s, c, 1)
      /\ SameFields(s, c) /\ Keeps(c, ScanByte(c, ":"))
  BY ByteStep
<1>2. /\ c.phase = "FieldName" /\ c.stream = s.stream /\ c.saw = s.saw /\ c.bytes = s.bytes + 1
      /\ c.name = s.name /\ c.candidates = s.candidates
  BY <1>1 DEF SameHead, SameFields
<1> HIDE DEF c
<1>3. ClassifyField(c) = kind
  BY <1>2, NameClassified
<1> HIDE DEF kind
<1>4. ScanByte(c, ":") = BeginValue(c)
  BY <1>2 DEF ScanByte
<1>5. BeginValue(c) = u
  <2>1. /\ kind \notin {"contentLength", "transferEncoding"}
        /\ kind = "upgrade" => c.stream
        /\ ~(watched /\ kind \in c.saw)
    BY <1>2 DEF KindFits, kind, Watched
  <2> QED
    BY <1>3, <2>1 DEF BeginValue
<1>6. watched <=> s.stream /\ kind \in Watched
  BY <1>2 DEF Watched
<1> HIDE DEF watched
<1>7. /\ u.phase = "ValueSpace" /\ u.kind = (IF watched THEN kind ELSE "generic")
      /\ u.saw = (IF watched THEN c.saw \cup {kind} ELSE c.saw)
      /\ u.value = 0 /\ u.matches = TRUE /\ u.isNull = TRUE
      /\ u.bytes = c.bytes /\ u.stream = c.stream
  BY <1>1 DEF Scanners, ScannerType
<1> HIDE DEF u
<1>8. u \in Scanners
  <2>1. s.bytes \in Nat /\ ~(c.bytes > MaxHeader)
    BY <1>2, ScannerAssumption DEF Scanners, ScannerType
  <2> QED
    BY <1>1, <1>4, <1>5, <1>7, <2>1 DEF Scanners, Keeps
<1>9. u.kind = Kept(s, kind) /\ u.saw = SawWith(s, kind)
  BY <1>2, <1>6, <1>7 DEF Kept, SawWith
<1> QED
  BY <1>1, <1>2, <1>4, <1>5, <1>7, <1>8, <1>9 DEF ValueBegun, kind

(* Orders of numbers.                                                      *)
LEMMA Within ==
  ASSUME NEW a \in Nat, NEW b \in Nat, NEW n, n = a, a <= b
  PROVE  ~(n > b)
OBVIOUS

LEMMA WithinToo ==
  ASSUME NEW a \in Nat, NEW b \in Nat, NEW d \in Nat, a <= b, b <= d
  PROVE  a <= d
OBVIOUS

(* The value a handshake must have. *)
ValueFits(kind, text) ==
  /\ kind = "origin" => text = ExpectedOrigin
  /\ kind = "upgrade" => Lowered(text) = kUpgradeValue
  /\ kind = "connection" => Lowered(text) = kConnectionValue

(* What the first i bytes of a value match. *)
Matched(t, text, i) ==
  /\ t.kind = "origin" => (t.matches <=> Prefix(text, i, ExpectedOrigin))
  /\ t.kind = "origin" => (t.isNull <=> Prefix(text, i, kNull))
  /\ t.kind = "upgrade" => (t.matches <=> Prefix(Lowered(text), i, kUpgradeValue))
  /\ t.kind = "connection" => (t.matches <=> Prefix(Lowered(text), i, kConnectionValue))

(* The first i bytes of a value. *)
ValueRead(s, t, text, i) ==
  /\ SameHead(s, t, i) /\ t.phase = "Value" /\ t.kind = s.kind /\ t.value = i
  /\ Matched(t, text, i)

(* The space after the colon.                                              *)
LEMMA SpaceRead ==
  ASSUME NEW s \in Scanners, s.phase = "ValueSpace", s.bytes < MaxHeader
  PROVE  LET t == Consume(s, <<" ">>) IN
         /\ SameHead(s, t, 1) /\ t.phase = "Value" /\ t.kind = s.kind /\ t.value = s.value
         /\ t.matches = s.matches /\ t.isNull = s.isNull
<1>1. Counted(s).phase = s.phase
  BY DEF Counted, Scanners, ScannerType
<1>2. ScanByte(Counted(s), " ") = Goto(Counted(s), "Value")
  BY <1>1 DEF ScanByte, Expect
<1>3. "Value" \in Phases /\ s.phase \notin {"Opaque", "Failed"}
  BY DEF Phases
<1>4. /\ SameHead(s, Consume(s, <<" ">>), 1)
      /\ Consume(s, <<" ">>) = [s EXCEPT !.bytes = @ + 1, !.phase = "Value"]
  BY <1>2, <1>3, ByteMoves
<1> DEFINE t == Consume(s, <<" ">>)
<1> HIDE DEF t
<1>5. SameHead(s, t, 1) /\ t = [s EXCEPT !.bytes = @ + 1, !.phase = "Value"]
  BY <1>4 DEF t
<1>6. /\ t.phase = "Value" /\ t.kind = s.kind /\ t.value = s.value
      /\ t.matches = s.matches /\ t.isNull = s.isNull
  BY <1>5 DEF Scanners, ScannerType
<1> QED
  BY <1>5, <1>6 DEF t

(* What an origin may not hold. *)
IsSeparator(byte) == byte \in {",", " "}

(* A byte of a value is compared with that of each literal that its field  *)
(* may have.                                                               *)
LEMMA ValueByte ==
  ASSUME NEW c \in ScannerType, NEW text, NEW i \in Nat, c.value = i, i + 1 \in DOMAIN text,
         text[i + 1] \notin Controls, i + 1 <= MaxValue,
         c.kind = "origin" => i + 1 <= MaxOrigin /\ ~IsSeparator(text[i + 1]),
         Matched(c, text, i)
  PROVE  LET u == AddValueByte(c, text[i + 1]) IN
         /\ u.phase = c.phase /\ u.bytes = c.bytes /\ u.stream = c.stream /\ u.saw = c.saw
         /\ u.kind = c.kind /\ u.value = i + 1
         /\ Matched(u, text, i + 1)
<1> DEFINE byte == text[i + 1]
           n == c.value + 1
           u == AddValueByte(c, byte)
<1>0. n = i + 1 /\ MaxValue \in Nat /\ MaxOrigin \in Nat
  BY ScannerAssumption
<1>1. byte \notin Controls /\ ~(n > MaxValue) /\ n = i + 1
  <2>1. i + 1 <= MaxValue
    OBVIOUS
  <2>2. i + 1 \in Nat
    OBVIOUS
  <2>3. ~(n > MaxValue)
    BY <1>0, <2>1, <2>2, Within
  <2> QED
    BY <1>0, <2>3
<1>2. Lowered(text)[i + 1] = Lower(byte)
  BY DEF Lowered
<1>3. /\ \A lit : Prefix(text, i + 1, lit) <=> Prefix(text, i, lit) /\ Prefixed(byte, n, lit)
      /\ \A lit : Prefix(Lowered(text), i + 1, lit)
                    <=> Prefix(Lowered(text), i, lit) /\ Prefixed(Lower(byte), n, lit)
  <2>1. \A lit : Prefix(text, i + 1, lit) <=> Prefix(text, i, lit) /\ Prefixed(text[i + 1], i + 1, lit)
    BY PrefixGrows
  <2> DEFINE low == Lowered(text)
  <2>2. \A lit : Prefix(low, i + 1, lit) <=> Prefix(low, i, lit) /\ Prefixed(low[i + 1], i + 1, lit)
    BY PrefixGrows
  <2> QED
    BY <1>1, <1>2, <2>1, <2>2
<1>4. c.kind \in {"origin", "upgrade", "connection", "generic"}
  BY DEF ScannerType, Watched
<1>5. CASE c.kind = "origin"
  <2> DEFINE m == c.matches /\ Prefixed(byte, n, ExpectedOrigin)
             z == c.isNull /\ Prefixed(byte, n, kNull)
             w == [c EXCEPT !.value = n, !.matches = m, !.isNull = z]
  <2>0. i + 1 <= MaxOrigin /\ ~IsSeparator(byte)
    BY <1>5
  <2>1. ~(n > MaxOrigin \/ byte \in {",", " "})
    <3>1. i + 1 \in Nat
      OBVIOUS
    <3>2. ~(n > MaxOrigin)
      BY <1>0, <2>0, <3>1, Within
    <3> QED
      BY <2>0, <3>2 DEF IsSeparator
  <2>2. u = w
    BY <1>1, <1>5, <2>1 DEF AddValueByte
  <2>3. (m <=> Prefix(text, i + 1, ExpectedOrigin)) /\ (z <=> Prefix(text, i + 1, kNull))
    BY <1>3, <1>5 DEF Matched
  <2> HIDE DEF m, z, n, u, byte
  <2>4. /\ w.phase = c.phase /\ w.bytes = c.bytes /\ w.stream = c.stream /\ w.saw = c.saw
        /\ w.kind = c.kind /\ w.value = n /\ w.matches = m /\ w.isNull = z
    BY DEF ScannerType
  <2> HIDE DEF w
  <2> QED
    BY <1>1, <1>5, <2>2, <2>3, <2>4 DEF u, byte, Matched
<1>6. CASE c.kind = "upgrade"
  <2> DEFINE m == c.matches /\ Prefixed(Lower(byte), n, kUpgradeValue)
             w == [c EXCEPT !.value = n, !.matches = m]
  <2>2. u = w
    BY <1>1, <1>6 DEF AddValueByte
  <2>3. m <=> Prefix(Lowered(text), i + 1, kUpgradeValue)
    BY <1>3, <1>6 DEF Matched
  <2> HIDE DEF m, n, u, byte
  <2>4. /\ w.phase = c.phase /\ w.bytes = c.bytes /\ w.stream = c.stream /\ w.saw = c.saw
        /\ w.kind = c.kind /\ w.value = n /\ w.matches = m
    BY DEF ScannerType
  <2> HIDE DEF w
  <2> QED
    BY <1>1, <1>6, <2>2, <2>3, <2>4 DEF u, byte, Matched
<1>7. CASE c.kind = "connection"
  <2> DEFINE m == c.matches /\ Prefixed(Lower(byte), n, kConnectionValue)
             w == [c EXCEPT !.value = n, !.matches = m]
  <2>2. u = w
    BY <1>1, <1>7 DEF AddValueByte
  <2>3. m <=> Prefix(Lowered(text), i + 1, kConnectionValue)
    BY <1>3, <1>7 DEF Matched
  <2> HIDE DEF m, n, u, byte
  <2>4. /\ w.phase = c.phase /\ w.bytes = c.bytes /\ w.stream = c.stream /\ w.saw = c.saw
        /\ w.kind = c.kind /\ w.value = n /\ w.matches = m
    BY DEF ScannerType
  <2> HIDE DEF w
  <2> QED
    BY <1>1, <1>7, <2>2, <2>3, <2>4 DEF u, byte, Matched
<1>8. CASE c.kind = "generic"
  <2> DEFINE w == [c EXCEPT !.value = n]
  <2>2. u = w
    BY <1>1, <1>8 DEF AddValueByte
  <2> HIDE DEF n, u, byte
  <2>4. /\ w.phase = c.phase /\ w.bytes = c.bytes /\ w.stream = c.stream /\ w.saw = c.saw
        /\ w.kind = c.kind /\ w.value = n
    BY DEF ScannerType
  <2> HIDE DEF w
  <2> QED
    BY <1>1, <1>8, <2>2, <2>4 DEF u, byte, Matched
<1> QED
  BY <1>4, <1>5, <1>6, <1>7, <1>8

(* What a value of the expected origin is not too long or wrong for. *)
LEMMA OriginBytes ==
  /\ Len(ExpectedOrigin) = 2 /\ 2 <= MaxOrigin
  /\ \A i \in 1 .. 2 : ~IsSeparator(ExpectedOrigin[i])
<1>1. Len(ExpectedOrigin) = 2 /\ ExpectedOrigin[1] = "h" /\ ExpectedOrigin[2] = "a"
  BY DEF ExpectedOrigin
<1>2. \A i \in 1 .. 2 : i = 1 \/ i = 2
  OBVIOUS
<1>3. 2 <= MaxOrigin
  BY <1>1, ScannerAssumption
<1> HIDE DEF ExpectedOrigin
<1>4. ~IsSeparator(ExpectedOrigin[1]) /\ ~IsSeparator(ExpectedOrigin[2])
  BY <1>1 DEF IsSeparator
<1> QED
  BY <1>1, <1>2, <1>3, <1>4

ValueStart(s) == s.phase = "Value" /\ s.value = 0 /\ s.matches = TRUE /\ s.isNull = TRUE

(* An origin that is not too long and holds no separator. *)
OriginText(kind, text) ==
  kind = "origin" => Len(text) <= MaxOrigin /\ \A i \in 1 .. Len(text) : ~IsSeparator(text[i])

(* A value without controls is read to its end. *)
LEMMA ValueIsRead ==
  ASSUME NEW s \in Scanners, ValueStart(s),
         NEW text \in Texts, \A i \in 1 .. Len(text) : text[i] \notin Controls,
         OriginText(s.kind, text),
         Len(text) <= MaxValue, s.bytes + Len(text) <= MaxHeader
  PROVE  ValueRead(s, Consume(s, text), text, Len(text))
<1> DEFINE n == Len(text)
<1>1. n \in Nat /\ s.bytes \in Nat /\ MaxHeader \in Nat /\ MaxValue \in Nat /\ DOMAIN text = 1 .. n
  BY LenProperties, ScannerAssumption DEF Texts, Scanners, ScannerType
<1>2. PICK f \in [0 .. n -> Scanners] :
        /\ f[0] = s
        /\ \A i \in 1 .. n : f[i] = ScanCounted(f[i - 1], text[i])
        /\ Consume(s, text) = f[n]
  BY <1>1, ConsumeTable
<1> DEFINE T == {i \in Nat : i <= n => ValueRead(s, f[i], text, i)}
<1>a. n <= MaxValue /\ s.bytes + n <= MaxHeader /\ \A i \in 1 .. n : text[i] \notin Controls
  BY <1>1
<1>b. s.kind = "origin" => n <= MaxOrigin /\ \A i \in 1 .. n : ~IsSeparator(text[i])
  BY DEF OriginText
<1> HIDE DEF n
<1>3. 0 \in T
  <2>1. SameHead(s, s, 0)
    BY <1>1 DEF SameHead
  <2>2. \A t, lit : Prefix(t, 0, lit)
    BY DEF Prefix
  <2>3. s.matches = TRUE /\ s.isNull = TRUE /\ s.phase = "Value" /\ s.value = 0
    BY DEF ValueStart
  <2>4. Matched(s, text, 0)
    BY <2>2, <2>3 DEF Matched
  <2>5. ValueRead(s, s, text, 0)
    BY <2>1, <2>3, <2>4 DEF ValueRead
  <2> QED
    BY <1>2, <2>5
<1>4. ASSUME NEW i \in Nat, i \in T PROVE i + 1 \in T
  <2> DEFINE t == f[i]
             c == Counted(t)
             byte == text[i + 1]
             u == AddValueByte(c, byte)
  <2> SUFFICES ASSUME i + 1 <= n PROVE ValueRead(s, f[i + 1], text, i + 1)
    OBVIOUS
  <2>1. i \in 0 .. n /\ i + 1 \in 1 .. n /\ (i + 1) - 1 = i /\ ValueRead(s, t, text, i)
    BY <1>1, <1>4
  <2>2. f[i + 1] = ScanCounted(t, byte) /\ t \in Scanners /\ f[i + 1] \in Scanners
    BY <1>2, <2>1
  <2>3. t.phase = "Value" /\ t.bytes < MaxHeader /\ t.value = i /\ t.kind = s.kind /\ SameHead(s, t, i)
    <3>1. t.bytes = s.bytes + i
      BY <2>1 DEF ValueRead, SameHead
    <3> HIDE DEF t
    <3> QED
      BY <1>1, <1>a, <2>1, <3>1 DEF ValueRead
  <2>4. byte \notin Controls /\ byte \notin {"cr", "lf"} /\ i + 1 <= MaxValue
    BY <1>1, <1>a, <2>1 DEF Controls
  <2>b. s.kind = "origin" => i + 1 <= MaxOrigin /\ ~IsSeparator(byte)
    <3> HAVE s.kind = "origin"
    <3>1. n <= MaxOrigin /\ ~IsSeparator(byte)
      BY <1>b, <2>1
    <3>2. i + 1 \in Nat /\ i + 1 <= n /\ n \in Nat /\ MaxOrigin \in Nat
      BY <1>1, <2>1, ScannerAssumption
    <3> QED
      BY <3>1, <3>2, WithinToo
  <2> HIDE DEF t
  <2>5. /\ ScanCounted(t, byte) = ScanByte(c, byte) /\ c \in Scanners /\ SameHead(t, c, 1)
        /\ SameFields(t, c)
    BY <2>2, <2>3, ByteStep
  <2>6. /\ c.phase = "Value" /\ c.value = i /\ c.kind = s.kind
        /\ c.matches = t.matches /\ c.isNull = t.isNull
    BY <2>3, <2>5 DEF SameFields
  <2> HIDE DEF c
  <2>7. ScanByte(c, byte) = u
    BY <2>4, <2>6 DEF ScanByte
  <2>8. /\ u.phase = c.phase /\ u.bytes = c.bytes /\ u.stream = c.stream /\ u.saw = c.saw
        /\ u.kind = c.kind /\ u.value = i + 1
        /\ Matched(u, text, i + 1)
    <3>1. c \in ScannerType /\ i + 1 \in DOMAIN text
      BY <1>1, <2>1, <2>5 DEF Scanners
    <3>2. Matched(c, text, i)
      BY <2>1, <2>3, <2>6 DEF ValueRead, Matched
    <3>3. c.kind = "origin" => i + 1 <= MaxOrigin /\ ~IsSeparator(text[i + 1])
      BY <2>b, <2>6
    <3>4. text[i + 1] \notin Controls
      BY <2>4
    <3> HIDE DEF byte
    <3> QED
      BY <2>4, <2>6, <3>1, <3>2, <3>3, <3>4, ValueByte DEF u, byte
  <2> HIDE DEF u, byte
  <2>9. SameHead(t, u, 1)
    BY <2>2, <2>5, <2>7, <2>8 DEF SameHead
  <2>10. SameHead(s, u, i + 1)
    BY <2>2, <2>3, <2>9, SameHeadTwice
  <2> QED
    BY <2>2, <2>5, <2>6, <2>7, <2>8, <2>10 DEF ValueRead
<1> HIDE DEF T
<1>5. Nat \subseteq T
  BY <1>3, <1>4, InductionOnSet
<1>6. ValueRead(s, f[n], text, n)
  <2>1. n <= n /\ n \in T
    BY <1>1, <1>5
  <2> QED
    BY <2>1 DEF T
<1> QED
  BY <1>2, <1>6 DEF n

(* The whole of a value is what it must be. *)
LEMMA ValuePasses ==
  ASSUME NEW c \in ScannerType, NEW text \in Texts, c.value = Len(text),
         Matched(c, text, Len(text)), ValueFits(c.kind, text)
  PROVE  FinishValue(c) = Goto(c, "FieldLf")
<1>1. c.kind \in {"origin", "upgrade", "connection", "generic"}
  BY DEF ScannerType, Watched
<1>2. /\ ExpectedOrigin \in Seq(Bytes) /\ kUpgradeValue \in Seq(Bytes)
      /\ kConnectionValue \in Seq(Bytes)
  <2>1. \A a, b \in Bytes : <<a, b>> \in Seq(Bytes)
    OBVIOUS
  <2>2. {"h", "a", "w", "s", "u", "g"} \subseteq Bytes
    BY DEF Bytes, Letters
  <2> QED
    BY <2>1, <2>2 DEF ExpectedOrigin, kUpgradeValue, kConnectionValue
<1>3. CASE c.kind = "origin"
  <2>1. text = ExpectedOrigin
    BY <1>3 DEF ValueFits
  <2>2. Prefix(text, Len(text), ExpectedOrigin)
    BY <1>2, <2>1, PrefixWhole
  <2>3. c.matches /\ c.value = Len(ExpectedOrigin)
    BY <1>3, <2>1, <2>2 DEF Matched
  <2>4. ~c.isNull
    <3>1. ~Prefix(text, Len(text), kNull)
      <4>1. ExpectedOrigin[1] = "h" /\ kNull[1] = "n" /\ 1 \in 1 .. Len(ExpectedOrigin)
        BY DEF ExpectedOrigin, kNull
      <4> QED
        BY <2>1, <4>1 DEF Prefix
    <3> QED
      BY <1>3, <3>1 DEF Matched
  <2>5. c.value # 0
    <3>1. Len(ExpectedOrigin) = 2
      BY DEF ExpectedOrigin
    <3> QED
      BY <2>3, <3>1
  <2>6. /\ ~(c.kind = "origin" /\ c.value = 0)
        /\ ~(c.kind = "origin" /\ c.isNull /\ c.value = Len(kNull))
        /\ ~(c.kind = "origin" /\ ~(c.matches /\ c.value = Len(ExpectedOrigin)))
        /\ ~(c.kind = "upgrade" /\ ~(c.matches /\ c.value = Len(kUpgradeValue)))
        /\ ~(c.kind = "connection" /\ ~(c.matches /\ c.value = Len(kConnectionValue)))
    BY <1>3, <2>3, <2>4, <2>5
  <2> QED
    BY <2>6 DEF FinishValue
<1>4. CASE c.kind = "upgrade"
  <2> DEFINE low == Lowered(text)
  <2>1. low = kUpgradeValue /\ low \in Seq(Bytes) /\ Len(low) = Len(text)
    BY <1>4, LoweredType DEF ValueFits
  <2> HIDE DEF low
  <2>2. Prefix(low, Len(low), kUpgradeValue) /\ Len(low) = Len(kUpgradeValue)
    BY <1>2, <2>1, PrefixWhole
  <2>3. c.matches /\ c.value = Len(kUpgradeValue)
    BY <1>4, <2>1, <2>2 DEF Matched, low
  <2>6. /\ ~(c.kind = "origin" /\ c.value = 0)
        /\ ~(c.kind = "origin" /\ c.isNull /\ c.value = Len(kNull))
        /\ ~(c.kind = "origin" /\ ~(c.matches /\ c.value = Len(ExpectedOrigin)))
        /\ ~(c.kind = "upgrade" /\ ~(c.matches /\ c.value = Len(kUpgradeValue)))
        /\ ~(c.kind = "connection" /\ ~(c.matches /\ c.value = Len(kConnectionValue)))
    BY <1>4, <2>3
  <2> QED
    BY <2>6 DEF FinishValue
<1>5. CASE c.kind = "connection"
  <2> DEFINE low == Lowered(text)
  <2>1. low = kConnectionValue /\ low \in Seq(Bytes) /\ Len(low) = Len(text)
    BY <1>5, LoweredType DEF ValueFits
  <2> HIDE DEF low
  <2>2. Prefix(low, Len(low), kConnectionValue) /\ Len(low) = Len(kConnectionValue)
    BY <1>2, <2>1, PrefixWhole
  <2>3. c.matches /\ c.value = Len(kConnectionValue)
    BY <1>5, <2>1, <2>2 DEF Matched, low
  <2>6. /\ ~(c.kind = "origin" /\ c.value = 0)
        /\ ~(c.kind = "origin" /\ c.isNull /\ c.value = Len(kNull))
        /\ ~(c.kind = "origin" /\ ~(c.matches /\ c.value = Len(ExpectedOrigin)))
        /\ ~(c.kind = "upgrade" /\ ~(c.matches /\ c.value = Len(kUpgradeValue)))
        /\ ~(c.kind = "connection" /\ ~(c.matches /\ c.value = Len(kConnectionValue)))
    BY <1>5, <2>3
  <2> QED
    BY <2>6 DEF FinishValue
<1>6. CASE c.kind = "generic"
  BY <1>6 DEF FinishValue
<1> QED
  BY <1>1, <1>3, <1>4, <1>5, <1>6

(* The end of a value, and of its line.                                    *)
LEMMA ValueEnds ==
  ASSUME NEW s \in Scanners, s.phase = "Value", NEW text \in Texts, s.value = Len(text),
         Matched(s, text, Len(text)), ValueFits(s.kind, text), s.bytes + 2 <= MaxHeader
  PROVE  /\ SameHead(s, Consume(s, <<"cr", "lf">>), 2)
         /\ Consume(s, <<"cr", "lf">>).phase = "HeaderLineStart"
<1> DEFINE c == Counted(s)
           t == Consume(s, <<"cr">>)
           u == Consume(t, <<"lf">>)
<1>0. s.bytes \in Nat /\ MaxHeader \in Nat /\ s.bytes < MaxHeader
  BY ScannerAssumption DEF Scanners, ScannerType
<1>1. SameHead(s, t, 1) /\ t = [s EXCEPT !.bytes = @ + 1, !.phase = "FieldLf"]
  <2>1. c \in Scanners /\ SameFields(s, c)
    BY <1>0, ByteStep
  <2>2. /\ c.phase = "Value" /\ c.kind = s.kind /\ c.value = s.value
        /\ c.matches = s.matches /\ c.isNull = s.isNull
    BY <2>1 DEF SameFields
  <2>3. c \in ScannerType /\ c.value = Len(text) /\ ValueFits(c.kind, text)
    BY <2>1, <2>2 DEF Scanners
  <2> HIDE DEF c
  <2>4. Matched(c, text, Len(text))
    BY <2>2 DEF Matched
  <2>5. FinishValue(c) = Goto(c, "FieldLf")
    BY <2>3, <2>4, ValuePasses
  <2>6. ScanByte(c, "cr") = Goto(c, "FieldLf")
    BY <2>2, <2>5 DEF ScanByte
  <2>7. "FieldLf" \in Phases /\ s.phase \notin {"Opaque", "Failed"}
    BY DEF Phases
  <2> QED
    BY <1>0, <2>6, <2>7, ByteMoves DEF c
<1> HIDE DEF t
<1>2. t \in Scanners /\ t.phase = "FieldLf" /\ t.bytes < MaxHeader
  <2>1. t \in Scanners /\ t.bytes = s.bytes + 1
    BY <1>1 DEF SameHead
  <2>2. t.phase = "FieldLf"
    BY <1>1 DEF Scanners, ScannerType
  <2> QED
    BY <1>0, <2>1, <2>2
<1>3. SameHead(t, u, 1) /\ u = [t EXCEPT !.bytes = @ + 1, !.phase = "HeaderLineStart"]
  <2>1. Counted(t).phase = t.phase
    BY <1>2 DEF Counted, Scanners, ScannerType
  <2>2. ScanByte(Counted(t), "lf") = Goto(Counted(t), "HeaderLineStart")
    BY <1>2, <2>1 DEF ScanByte, Expect
  <2>3. "HeaderLineStart" \in Phases /\ t.phase \notin {"Opaque", "Failed"}
    BY <1>2 DEF Phases
  <2> QED
    BY <1>2, <2>2, <2>3, ByteMoves
<1>4. u.phase = "HeaderLineStart"
  BY <1>2, <1>3 DEF Scanners, ScannerType
<1>5. SameHead(s, u, 2)
  <2>1. 1 + 1 = 2
    OBVIOUS
  <2> HIDE DEF u
  <2> QED
    BY <1>1, <1>3, <2>1, SameHeadTwice
<1>6. Consume(s, <<"cr", "lf">>) = u
  BY ConsumeTwo DEF t
<1> QED
  BY <1>4, <1>5, <1>6

FieldFormed(f) ==
  /\ f.name # <<>> /\ Len(f.name) <= MaxName /\ Len(f.value) <= MaxValue
  /\ \A j \in 1 .. Len(f.name) : IsToken(f.name[j])
  /\ \A j \in 1 .. Len(f.value) : f.value[j] \notin Controls

(* A line of a head that goes on. *)
LineAfter(s, t, length, saw) ==
  /\ t \in Scanners /\ t.phase = "HeaderLineStart" /\ t.bytes = s.bytes + length
  /\ t.stream = s.stream /\ t.saw = saw

Colon == <<":">>
Separator == <<":", " ">>

(* A field of an admissible request: its name, colon, space, value, end of *)
(* line.                                                                   *)
LEMMA FieldRead ==
  ASSUME NEW s \in Scanners, s.phase = "HeaderLineStart",
         NEW r \in RequestType, r.sep = Separator, r.eol = <<"cr", "lf">>,
         NEW f \in FieldType, FieldFormed(f),
         KindFits(s, KindOf(f.name)), ValueFits(Kept(s, KindOf(f.name)), f.value),
         s.bytes + Len(FieldText(r, f)) <= MaxHeader
  PROVE  LineAfter(s, Consume(s, FieldText(r, f)), Len(FieldText(r, f)), SawWith(s, KindOf(f.name)))
<1> DEFINE name == f.name
           value == f.value
           kind == KindOf(name)
           co == Colon
           sp == <<" ">>
           a2 == name \o r.sep
           a3 == a2 \o value
           a4 == a3 \o r.eol
           m == Len(name)
           n == Len(value)
<1>1. /\ name \in Texts /\ value \in Texts /\ r.sep \in Texts /\ r.eol \in Texts
      /\ co \in Texts /\ sp \in Texts /\ co \o sp = r.sep
  <2>1. ":" \in Bytes /\ " " \in Bytes
    BY DEF Bytes
  <2>2. <<":">> \in Seq(Bytes) /\ <<" ">> \in Seq(Bytes) /\ <<":">> \o <<" ">> = <<":", " ">>
    BY <2>1, Pair
  <2> QED
    BY <2>2 DEF FieldType, RequestType, Texts, Colon, Separator
<1>2. /\ m \in Nat /\ n \in Nat /\ Len(r.sep) = 2 /\ Len(r.eol) = 2
      /\ s.bytes \in Nat /\ MaxHeader \in Nat
  <2>1. s.bytes \in Nat /\ MaxHeader \in Nat
    BY ScannerAssumption DEF Scanners, ScannerType
  <2>2. Len(r.sep) = 2
    <3>1. \A a, b : Len(<<a, b>>) = 2
      OBVIOUS
    <3> QED
      BY <3>1, Zenon DEF Separator
  <2>3. Len(r.eol) = 2
    OBVIOUS
  <2> HIDE DEF name, value
  <2>4. m \in Nat /\ n \in Nat
    BY <1>1, LenProperties DEF Texts
  <2> QED
    BY <2>1, <2>2, <2>3, <2>4
<1>3. \A x, y \in Texts : x \o y \in Texts /\ Len(x \o y) = Len(x) + Len(y)
  BY ConcatProperties DEF Texts
<1>4. FieldText(r, f) = a4
  BY DEF FieldText
<1>a. /\ name # <<>> /\ m <= MaxName /\ n <= MaxValue
      /\ \A j \in 1 .. m : IsToken(name[j])
      /\ \A j \in 1 .. n : value[j] \notin Controls
  BY DEF FieldFormed
<1>b. KindFits(s, kind) /\ ValueFits(Kept(s, kind), value)
  OBVIOUS
<1>5. a2 \in Texts /\ Len(a2) = m + 2
  <2> HIDE DEF name
  <2>1. Len(a2) = m + Len(r.sep) /\ a2 \in Texts
    BY <1>1, <1>3
  <2> HIDE DEF a2, m
  <2> QED
    BY <1>2, <2>1
<1>6. a3 \in Texts /\ Len(a3) = m + 2 + n
  <2> HIDE DEF a2, value
  <2> QED
    BY <1>1, <1>2, <1>3, <1>5 DEF n
<1>7. a4 \in Texts /\ Len(a4) = m + 2 + n + 2
  <2> HIDE DEF a3, n, m
  <2> QED
    BY <1>1, <1>2, <1>3, <1>6, ZenonT(30)
<1> HIDE DEF kind
<1>8. s.bytes + (m + 2 + n + 2) <= MaxHeader
  <2>1. s.bytes + Len(a4) <= MaxHeader
    BY <1>4
  <2> HIDE DEF a4, m, n
  <2> QED
    BY <1>7, <2>1
<1>9. ASSUME NEW x \in Texts, NEW y \in Texts, NEW q \in Scanners
      PROVE  Consume(q, x \o y) = Consume(Consume(q, x), y)
  BY ConsumeConcat DEF Texts
<1> DEFINE s1 == Consume(s, name)
           s2 == Consume(s1, co)
           s3 == Consume(s2, sp)
           s4 == Consume(s3, value)
           s5 == Consume(s4, r.eol)
<1>10. NameRead(s, s1, name, m)
  <2> HIDE DEF name, value
  <2>1. s.bytes + Len(name) <= MaxHeader
    <3> HIDE DEF n
    <3> QED
      BY <1>2, <1>8
  <2> QED
    BY <1>1, <1>a, <2>1, NameIsRead
<1>11. /\ s1 \in Scanners /\ s1.phase = "FieldName" /\ s1.name = m /\ s1.bytes = s.bytes + m
       /\ s1.stream = s.stream /\ s1.saw = s.saw
       /\ s1.candidates = {k \in FieldKinds : Prefix(Lowered(name), m, kFieldNames[k])}
  BY <1>10 DEF NameRead, SameHead
<1> HIDE DEF s1
<1>12. /\ ValueBegun(s1, s2, kind) /\ s2.phase = "ValueSpace" /\ s2.bytes = s.bytes + m + 1
  <2>1. s1.bytes < MaxHeader
    <3> HIDE DEF m, n
    <3> QED
      BY <1>2, <1>8, <1>11
  <2>2. KindFits(s1, kind)
    BY <1>b, <1>11 DEF KindFits
  <2>3. ValueBegun(s1, s2, kind) /\ s2.phase = "ValueSpace" /\ s2.bytes = s1.bytes + 1
    BY <1>1, <1>11, <2>1, <2>2, NameEnds DEF kind, Colon
  <2> HIDE DEF s2
  <2> QED
    BY <1>11, <2>3
<1> HIDE DEF s2
<1>13. /\ s2 \in Scanners /\ s2.stream = s.stream /\ s2.saw = SawWith(s, kind)
       /\ s2.kind = Kept(s, kind) /\ s2.value = 0 /\ s2.matches = TRUE /\ s2.isNull = TRUE
  BY <1>11, <1>12 DEF ValueBegun, SawWith, Kept
<1>14. /\ SameHead(s2, s3, 1) /\ ValueStart(s3) /\ s3.kind = Kept(s, kind)
  <2>1. s2.bytes < MaxHeader
    <3> HIDE DEF m, n
    <3> QED
      BY <1>2, <1>8, <1>12
  <2>2. /\ SameHead(s2, s3, 1) /\ s3.phase = "Value" /\ s3.kind = s2.kind /\ s3.value = s2.value
        /\ s3.matches = s2.matches /\ s3.isNull = s2.isNull
    BY <1>12, <1>13, <2>1, SpaceRead
  <2> QED
    BY <1>13, <2>2 DEF ValueStart
<1> HIDE DEF s3
<1>15. s3 \in Scanners /\ s3.bytes = s.bytes + m + 2
  <2>1. s3 \in Scanners /\ s3.bytes = s2.bytes + 1
    BY <1>14 DEF SameHead
  <2> HIDE DEF m
  <2> QED
    BY <1>2, <1>12, <2>1
<1>16. ValueRead(s3, s4, value, n)
  <2>1. s3.bytes + n <= MaxHeader
    <3> HIDE DEF m, n
    <3> QED
      BY <1>2, <1>8, <1>15
  <2>2. OriginText(s3.kind, value)
    <3>1. s3.kind = "origin" => value = ExpectedOrigin
      BY <1>b, <1>14 DEF ValueFits
    <3> HIDE DEF value
    <3> QED
      BY <3>1, OriginBytes DEF OriginText
  <2> HIDE DEF name, value
  <2> QED
    BY <1>1, <1>a, <1>14, <1>15, <2>1, <2>2, ValueIsRead
<1> HIDE DEF s4
<1>17. /\ SameHead(s3, s4, n) /\ s4 \in Scanners /\ s4.phase = "Value" /\ s4.value = n
       /\ s4.kind = s3.kind /\ Matched(s4, value, n) /\ s4.bytes = s3.bytes + n
  BY <1>16 DEF ValueRead, SameHead
<1>18. SameHead(s4, s5, 2) /\ s5.phase = "HeaderLineStart"
  <2>1. s4.bytes + 2 <= MaxHeader
    <3> HIDE DEF m, n
    <3> QED
      BY <1>2, <1>8, <1>15, <1>17
  <2>2. ValueFits(s4.kind, value)
    BY <1>b, <1>14, <1>17
  <2>3. s5 = Consume(s4, <<"cr", "lf">>)
    OBVIOUS
  <2> HIDE DEF s5
  <2> QED
    BY <1>1, <1>17, <2>1, <2>2, <2>3, ValueEnds
<1> HIDE DEF s5
<1>19. Consume(s, a4) = s5
  <2> HIDE DEF name, value, co, sp
  <2>1. Consume(s, name \o r.sep) = Consume(s1, r.sep)
    BY <1>1, <1>9 DEF s1
  <2>2. Consume(s1, co \o sp) = s3
    BY <1>1, <1>9, <1>11 DEF s2, s3
  <2>3. Consume(s, a2) = s3
    BY <1>1, <2>1, <2>2
  <2> HIDE DEF a2
  <2>4. Consume(s, a3) = s4
    BY <1>1, <1>5, <1>9, <2>3 DEF s4
  <2> HIDE DEF a3
  <2> QED
    BY <1>1, <1>6, <1>9, <2>4 DEF s5
<1>20. /\ s5 \in Scanners /\ s5.bytes = s.bytes + (m + 2 + n + 2)
       /\ s5.stream = s.stream /\ s5.saw = SawWith(s, kind)
  <2>1. /\ s5 \in Scanners /\ s5.bytes = s4.bytes + 2 /\ s5.stream = s4.stream /\ s5.saw = s4.saw
        /\ s4.stream = s3.stream /\ s4.saw = s3.saw /\ s3.stream = s2.stream /\ s3.saw = s2.saw
    BY <1>14, <1>17, <1>18 DEF SameHead
  <2> HIDE DEF m, n
  <2> QED
    BY <1>2, <1>13, <1>15, <1>17, <2>1
<1> QED
  BY <1>4, <1>7, <1>18, <1>19, <1>20 DEF LineAfter, kind

(* The kinds of field that a scanner of this stream has to remember.       *)
FieldKind(r, i) == KindOf(r.fields[i].name)
Seen(stream, r, j) ==
  IF stream THEN {k \in Watched : \E i \in 1 .. j : FieldKind(r, i) = k} ELSE {}

(* What the fields of an admissible request are like.                      *)
FieldFits(stream, r, i) ==
  /\ FieldFormed(r.fields[i])
  /\ FieldKind(r, i) \notin {"contentLength", "transferEncoding"}
  /\ FieldKind(r, i) = "upgrade" => stream
  /\ stream /\ FieldKind(r, i) \in Watched =>
       /\ \A j \in 1 .. Len(r.fields) : FieldKind(r, j) = FieldKind(r, i) => j = i
       /\ ValueFits(FieldKind(r, i), r.fields[i].value)
FieldsFit(stream, r) == \A i \in 1 .. Len(r.fields) : FieldFits(stream, r, i)

Lines(r) == [i \in DOMAIN r.fields |-> FieldText(r, r.fields[i])]

(* The lines of a request are texts.                                       *)
LEMMA LinesType ==
  ASSUME NEW r \in RequestType
  PROVE  /\ Lines(r) \in Seq(Texts) /\ Len(Lines(r)) = Len(r.fields)
         /\ Len(r.fields) \in Nat
         /\ \A i \in 1 .. Len(r.fields) :
              r.fields[i] \in FieldType /\ Lines(r)[i] = FieldText(r, r.fields[i])
<1>1. r.fields \in Seq(FieldType)
  BY DEF RequestType
<1>2. /\ Len(r.fields) \in Nat /\ DOMAIN r.fields = 1 .. Len(r.fields)
      /\ \A i \in 1 .. Len(r.fields) : r.fields[i] \in FieldType
  BY <1>1, LenProperties, ElementOfSeq
<1>3. \A i \in 1 .. Len(r.fields) : FieldText(r, r.fields[i]) \in Texts
  BY <1>2, FieldTextType
<1> QED
  BY <1>2, <1>3 DEF Lines

(* One more line makes a head no shorter.                                  *)
LEMMA TableGrows ==
  ASSUME NEW n \in Nat, NEW f \in [0 .. n -> Texts], NEW texts \in Seq(Texts), Len(texts) = n,
         \A i \in 1 .. n : f[i] = f[i - 1] \o texts[i]
  PROVE  \A i \in 0 .. n : Len(f[i]) \in Nat /\ Len(f[i]) <= Len(f[n])
<1>0. \A i \in 0 .. n : f[i] \in Texts /\ Len(f[i]) \in Nat
  <2>1. \A x \in Texts : Len(x) \in Nat
    BY LenProperties DEF Texts
  <2> QED
    BY <2>1
<1> DEFINE T == {k \in Nat : k <= n => Len(f[n - k]) <= Len(f[n])}
<1>1. 0 \in T
  <2>1. n - 0 = n /\ n \in 0 .. n
    OBVIOUS
  <2>2. Len(f[n]) <= Len(f[n])
    BY <1>0, <2>1
  <2> QED
    BY <2>1, <2>2
<1>2. ASSUME NEW k \in Nat, k \in T PROVE k + 1 \in T
  <2> DEFINE i == n - k
  <2> SUFFICES ASSUME k + 1 <= n PROVE Len(f[n - (k + 1)]) <= Len(f[n])
    OBVIOUS
  <2>1. i \in 1 .. n /\ i - 1 \in 0 .. n /\ n - (k + 1) = i - 1 /\ i \in 0 .. n /\ n \in 0 .. n
    OBVIOUS
  <2>2. Len(f[i]) <= Len(f[n])
    BY <1>2
  <2> HIDE DEF i
  <2>3. texts[i] \in Texts /\ Len(texts[i]) \in Nat
    BY <2>1, ElementOfSeq, LenProperties DEF Texts
  <2>4. Len(f[i]) = Len(f[i - 1]) + Len(texts[i])
    <3>1. f[i] = f[i - 1] \o texts[i] /\ f[i - 1] \in Texts
      BY <1>0, <2>1
    <3> QED
      BY <2>3, <3>1, ConcatProperties DEF Texts
  <2>5. Len(f[i - 1]) \in Nat /\ Len(f[i]) \in Nat /\ Len(f[n]) \in Nat
    BY <1>0, <2>1
  <2> QED
    BY <2>1, <2>2, <2>3, <2>4, <2>5
<1> HIDE DEF T
<1>3. Nat \subseteq T
  BY <1>1, <1>2, InductionOnSet
<1>4. ASSUME NEW i \in 0 .. n PROVE Len(f[i]) <= Len(f[n])
  <2>1. n - i \in Nat /\ n - i <= n /\ n - (n - i) = i
    OBVIOUS
  <2> QED
    BY <1>3, <2>1 DEF T
<1> QED
  BY <1>0, <1>4

(* One field more.                                                         *)
LEMMA SeenMore ==
  ASSUME NEW stream \in BOOLEAN, NEW r, NEW j \in Nat
  PROVE  /\ Seen(stream, r, 0) = {}
         /\ Seen(stream, r, j + 1) =
              IF stream /\ FieldKind(r, j + 1) \in Watched
              THEN Seen(stream, r, j) \cup {FieldKind(r, j + 1)} ELSE Seen(stream, r, j)
<1>1. \A i : i \in 1 .. j + 1 <=> i \in 1 .. j \/ i = j + 1
  OBVIOUS
<1>2. \A i : i \notin 1 .. 0
  OBVIOUS
<1> QED
  BY <1>1, <1>2 DEF Seen

(* All fields of an admissible request: what the scanner saw of the stream's *)
(* are those that are there.                                               *)
LEMMA FieldsRead ==
  ASSUME NEW s \in Scanners, s.phase = "HeaderLineStart", s.saw = {},
         NEW r \in RequestType, r.sep = Separator, r.eol = <<"cr", "lf">>,
         FieldsFit(s.stream, r), s.bytes + Len(Joined(Lines(r))) <= MaxHeader
  PROVE  LineAfter(s, Consume(s, Joined(Lines(r))), Len(Joined(Lines(r))),
                   Seen(s.stream, r, Len(r.fields)))
<1> DEFINE n == Len(r.fields)
           L == Lines(r)
<1>1. /\ L \in Seq(Texts) /\ Len(L) = n /\ n \in Nat
      /\ \A i \in 1 .. n : r.fields[i] \in FieldType /\ L[i] = FieldText(r, r.fields[i])
  BY LinesType
<1>2. PICK f \in [0 .. n -> Texts] :
        /\ f[0] = <<>>
        /\ \A i \in 1 .. n : f[i] = f[i - 1] \o L[i]
        /\ Joined(L) = f[n]
  <2> HIDE DEF L
  <2> QED
    BY <1>1, JoinedTable, ZenonT(30)
<1>3. \A i \in 0 .. n : Len(f[i]) \in Nat /\ Len(f[i]) <= Len(f[n])
  <2> HIDE DEF n, L
  <2> QED
    BY <1>1, <1>2, TableGrows
<1>4. /\ s.bytes \in Nat /\ MaxHeader \in Nat /\ s.stream \in BOOLEAN
      /\ s.bytes + Len(f[n]) <= MaxHeader
  <2>1. s.bytes \in Nat /\ MaxHeader \in Nat /\ s.stream \in BOOLEAN
    BY ScannerAssumption DEF Scanners, ScannerType
  <2>2. s.bytes + Len(Joined(L)) <= MaxHeader
    OBVIOUS
  <2> QED
    BY <1>2, <2>1, <2>2
<1>5. \A i \in 1 .. n : FieldFits(s.stream, r, i)
  BY DEF FieldsFit
<1> DEFINE T == {j \in Nat : j <= n => LineAfter(s, Consume(s, f[j]), Len(f[j]), Seen(s.stream, r, j))}
<1> HIDE DEF n, L
<1>6. 0 \in T
  <2>1. f[0] = <<>> /\ Len(<<>>) = 0 /\ Consume(s, <<>>) = s
    BY <1>2, ConsumeNothing, EmptySeq
  <2>2. Seen(s.stream, r, 0) = {}
    BY <1>4, SeenMore
  <2>3. LineAfter(s, s, 0, {})
    BY <1>4 DEF LineAfter
  <2> QED
    BY <2>1, <2>2, <2>3
<1>7. ASSUME NEW j \in Nat, j \in T PROVE j + 1 \in T
  <2> DEFINE t == Consume(s, f[j])
             field == r.fields[j + 1]
             kind == FieldKind(r, j + 1)
             u == Consume(t, L[j + 1])
             m == Len(L[j + 1])
  <2> SUFFICES ASSUME j + 1 <= n
               PROVE  LineAfter(s, Consume(s, f[j + 1]), Len(f[j + 1]), Seen(s.stream, r, j + 1))
    OBVIOUS
  <2>1. j + 1 \in 1 .. n /\ j \in 0 .. n /\ j + 1 \in 0 .. n /\ (j + 1) - 1 = j
    BY <1>1
  <2>2. LineAfter(s, t, Len(f[j]), Seen(s.stream, r, j))
    BY <1>7, <2>1
  <2>3. f[j + 1] = f[j] \o L[j + 1] /\ f[j] \in Texts /\ L[j + 1] \in Texts
    <3>1. f[j + 1] = f[(j + 1) - 1] \o L[j + 1]
      BY <1>2, <2>1
    <3>2. L[j + 1] \in Texts /\ f[j] \in Texts
      BY <1>1, <2>1, ElementOfSeq
    <3> QED
      BY <2>1, <3>1, <3>2
  <2>4. Consume(s, f[j + 1]) = u
    BY <2>3, ConsumeConcat DEF Texts
  <2>5. Len(f[j + 1]) = Len(f[j]) + m /\ m \in Nat /\ Len(f[j]) \in Nat
    BY <2>3, ConcatProperties, LenProperties DEF Texts
  <2>6. /\ t \in Scanners /\ t.phase = "HeaderLineStart" /\ t.bytes = s.bytes + Len(f[j])
        /\ t.stream = s.stream /\ t.saw = Seen(s.stream, r, j)
    BY <2>2 DEF LineAfter
  <2> HIDE DEF t
  <2>7. field \in FieldType /\ L[j + 1] = FieldText(r, field) /\ FieldFits(s.stream, r, j + 1)
    BY <1>1, <1>5, <2>1
  <2>8. t.bytes + m <= MaxHeader
    <3>1. Len(f[j + 1]) <= Len(f[n]) /\ Len(f[n]) \in Nat
      BY <1>1, <1>3, <2>1
    <3> HIDE DEF m
    <3> QED
      BY <1>4, <2>5, <2>6, <3>1, SMTT(30)
  <2>9. kind = KindOf(field.name) /\ FieldFormed(field)
    BY <2>7 DEF FieldKind, FieldFits
  <2> HIDE DEF kind
  <2>10. KindFits(t, kind)
    <3>1. kind \notin {"contentLength", "transferEncoding"} /\ (kind = "upgrade" => t.stream)
      BY <2>6, <2>7 DEF FieldFits, kind
    <3>2. ASSUME t.stream, kind \in Watched, kind \in t.saw PROVE FALSE
      <4>1. PICK i \in 1 .. j : FieldKind(r, i) = kind
        BY <2>6, <3>2 DEF Seen
      <4>2. \A i2 \in 1 .. n : FieldKind(r, i2) = kind => i2 = j + 1
        BY <2>6, <2>7, <3>2 DEF FieldFits, kind, n
      <4>3. i \in 1 .. n /\ i # j + 1
        BY <1>1, <2>1
      <4> QED
        BY <4>1, <4>2, <4>3
    <3> QED
      BY <3>1, <3>2 DEF KindFits
  <2>11. ValueFits(Kept(t, kind), field.value)
    <3>1. CASE t.stream /\ kind \in Watched
      <4>1. ValueFits(kind, field.value)
        BY <2>6, <2>7, <3>1 DEF FieldFits, kind
      <4> QED
        BY <3>1, <4>1 DEF Kept
    <3>2. CASE ~(t.stream /\ kind \in Watched)
      <4>1. Kept(t, kind) = "generic"
        BY <3>2 DEF Kept
      <4> QED
        BY <4>1 DEF ValueFits
    <3> QED
      BY <3>1, <3>2
  <2>12. LineAfter(t, u, m, SawWith(t, kind))
    <3> HIDE DEF field, m, u
    <3>1. t.bytes + Len(FieldText(r, field)) <= MaxHeader
      BY <2>7, <2>8 DEF m
    <3>2. LineAfter(t, Consume(t, FieldText(r, field)), Len(FieldText(r, field)), SawWith(t, KindOf(field.name)))
      BY <2>6, <2>7, <2>9, <2>10, <2>11, <3>1, FieldRead
    <3> QED
      BY <2>7, <2>9, <3>2 DEF m, u
  <2>13. SawWith(t, kind) = Seen(s.stream, r, j + 1)
    <3> DEFINE stream == s.stream
               seen == Seen(stream, r, j)
               more == Seen(stream, r, j + 1)
    <3>1. stream \in BOOLEAN
      BY <1>4
    <3> HIDE DEF stream
    <3>2. more = IF stream /\ kind \in Watched THEN seen \cup {kind} ELSE seen
      BY <3>1, SeenMore DEF kind
    <3>3. t.stream = stream /\ t.saw = seen
      BY <2>6 DEF stream
    <3> HIDE DEF seen, more
    <3>4. SawWith(t, kind) = more
      BY <3>2, <3>3, Zenon DEF SawWith
    <3> QED
      BY <3>4 DEF more, stream
  <2> HIDE DEF u, m
  <2>14. LineAfter(s, u, Len(f[j + 1]), Seen(s.stream, r, j + 1))
    <3>1. /\ u \in Scanners /\ u.phase = "HeaderLineStart" /\ u.bytes = t.bytes + m
          /\ u.stream = t.stream /\ u.saw = Seen(s.stream, r, j + 1)
      BY <2>12, <2>13 DEF LineAfter
    <3>2. u.bytes = s.bytes + Len(f[j + 1])
      BY <1>4, <2>5, <2>6, <3>1
    <3> QED
      BY <2>6, <3>1, <3>2 DEF LineAfter
  <2> QED
    BY <2>4, <2>14
<1> HIDE DEF T
<1>8. Nat \subseteq T
  BY <1>6, <1>7, InductionOnSet
<1>9. LineAfter(s, Consume(s, f[n]), Len(f[n]), Seen(s.stream, r, n))
  <2>1. n \in T /\ n <= n
    BY <1>1, <1>8
  <2> QED
    BY <2>1 DEF T
<1> QED
  BY <1>2, <1>9 DEF n, L

(* No two kinds have the same name, so that each field is of the one kind  *)
(* that Named counts it for.                                               *)
LEMMA NamesDiffer ==
  ASSUME NEW j \in FieldKinds, NEW k \in FieldKinds, kFieldNames[j] = kFieldNames[k]
  PROVE  j = k
<1> DEFINE first(x) == kFieldNames[x][1]
           length(x) == Len(kFieldNames[x])
<1>1. \A x \in FieldKinds : x \in {"origin", "upgrade", "connection", "contentLength", "transferEncoding"}
  BY DEF FieldKinds, kFieldNames
<1>2. /\ first("origin") = "o" /\ first("upgrade") = "u" /\ first("connection") = "c"
      /\ first("contentLength") = "c" /\ first("transferEncoding") = "t"
  BY DEF kFieldNames
<1>3. length("connection") = 2 /\ length("contentLength") = 3
  <2>1. /\ kFieldNames["connection"] = <<"c", "n">> /\ kFieldNames["contentLength"] = <<"c", "n", "l">>
    BY DEF kFieldNames
  <2>2. \A a, b, c : Len(<<a, b>>) = 2 /\ Len(<<a, b, c>>) = 3
    OBVIOUS
  <2> QED
    BY <2>1, <2>2
<1>4. first(j) = first(k) /\ length(j) = length(k)
  OBVIOUS
<1> HIDE DEF first, length
<1> QED
  BY <1>1, <1>2, <1>3, <1>4

LEMMA KindIs ==
  ASSUME NEW text, NEW k \in FieldKinds
  PROVE  KindOf(text) = k <=> Lowered(text) = kFieldNames[k]
<1> DEFINE found == {x \in FieldKinds : Lowered(text) = kFieldNames[x]}
<1>1. KindOf(text) = IF found = {} THEN "generic" ELSE CHOOSE x \in found : TRUE
  BY DEF KindOf
<1>2. k # "generic"
  BY DEF FieldKinds, kFieldNames
<1>3. CASE KindOf(text) = k
  <2>1. found # {} /\ k = CHOOSE x \in found : TRUE
    BY <1>1, <1>2, <1>3
  <2>2. k \in found
    <3> HIDE DEF found
    <3> QED
      BY <2>1
  <2> QED
    BY <1>3, <2>2
<1>4. CASE Lowered(text) = kFieldNames[k]
  <2>1. \A x \in found : x = k
    BY <1>4, NamesDiffer
  <2>2. k \in found
    BY <1>4
  <2> HIDE DEF found
  <2>3. found = {k}
    BY <2>1, <2>2
  <2>4. (CHOOSE x \in found : TRUE) = k
    BY <2>3
  <2> QED
    BY <1>1, <1>4, <2>2, <2>4
<1> QED
  BY <1>3, <1>4

LEMMA NamedIs ==
  ASSUME NEW r \in RequestType, NEW k \in FieldKinds
  PROVE  \A i : i \in Named(r, k) <=> i \in 1 .. Len(r.fields) /\ FieldKind(r, i) = k
<1>1. DOMAIN r.fields = 1 .. Len(r.fields)
  BY LenProperties DEF RequestType
<1> QED
  BY <1>1, KindIs DEF Named, FieldKind

(* The one field of a kind, and its value. *)
LEMMA OnlyOne ==
  ASSUME NEW r \in RequestType, NEW k \in FieldKinds, Cardinality(Named(r, k)) = 1
  PROVE  \E i \in 1 .. Len(r.fields) :
           /\ FieldKind(r, i) = k /\ OnlyValue(r, k) = r.fields[i].value
           /\ \A j \in 1 .. Len(r.fields) : FieldKind(r, j) = k => j = i
<1> DEFINE n == Len(r.fields)
           N == Named(r, k)
<1>1. n \in Nat
  BY LinesType
<1>2. \A i : i \in N <=> i \in 1 .. n /\ FieldKind(r, i) = k
  BY NamedIs
<1>3. Cardinality(N) = 1
  OBVIOUS
<1>4. OnlyValue(r, k) = CHOOSE v \in {r.fields[i].value : i \in N} : TRUE
  BY DEF OnlyValue
<1> HIDE DEF n, N
<1>5. IsFiniteSet(N)
  <2>1. IsFiniteSet(1 .. n)
    BY <1>1, FS_Interval
  <2>2. N \subseteq 1 .. n
    BY <1>2
  <2> QED
    BY <2>1, <2>2, FS_Subset
<1>6. PICK i : N = {i}
  BY <1>3, <1>5, FS_Singleton
<1>7. {r.fields[x].value : x \in N} = {r.fields[i].value}
  BY <1>6
<1>8. OnlyValue(r, k) = r.fields[i].value
  BY <1>4, <1>7
<1>9. i \in 1 .. n /\ FieldKind(r, i) = k /\ \A j \in 1 .. n : FieldKind(r, j) = k => j = i
  BY <1>2, <1>6
<1> QED
  BY <1>8, <1>9 DEF n

(* What is admissible, field by field. *)
LEMMA FieldsAreFit ==
  ASSUME NEW r \in RequestType, Admissible(r)
  PROVE  /\ FieldsFit(IsStream(r), r)
         /\ IsStream(r) => Seen(TRUE, r, Len(r.fields)) = Watched
<1> DEFINE n == Len(r.fields)
<1>1. /\ n \in Nat /\ DOMAIN r.fields = 1 .. n
      /\ \A i \in 1 .. n : r.fields[i] \in FieldType
  BY LinesType, LenProperties DEF RequestType
<1>2. \A i \in 1 .. n : FieldFormed(r.fields[i])
  <2> SUFFICES ASSUME NEW i \in 1 .. n PROVE FieldFormed(r.fields[i])
    OBVIOUS
  <2> DEFINE f == r.fields[i]
  <2>1. f.name \in Texts /\ f.value \in Texts
    BY <1>1 DEF FieldType
  <2>2. DOMAIN f.name = 1 .. Len(f.name) /\ DOMAIN f.value = 1 .. Len(f.value)
    BY <2>1, LenProperties DEF Texts
  <2>3. /\ f.name # <<>> /\ Len(f.name) <= MaxName /\ Len(f.value) <= MaxValue
        /\ \A j \in DOMAIN f.name : IsToken(f.name[j])
        /\ \A j \in DOMAIN f.value : f.value[j] \notin Controls
    BY <1>1 DEF Admissible, IsWellFormed
  <2> QED
    BY <2>2, <2>3 DEF FieldFormed
<1>3. {"origin", "upgrade", "connection", "contentLength", "transferEncoding"} \subseteq FieldKinds
      /\ Watched = {"origin", "upgrade", "connection"}
  BY DEF FieldKinds, kFieldNames, Watched
<1>4. \A i \in 1 .. n : FieldKind(r, i) \notin {"contentLength", "transferEncoding"}
  <2>1. Named(r, "contentLength") = {} /\ Named(r, "transferEncoding") = {}
    BY DEF Admissible
  <2> QED
    BY <1>3, <2>1, NamedIs
<1>5. ASSUME NEW i \in 1 .. n, FieldKind(r, i) = "upgrade" PROVE IsStream(r)
  <2>1. i \in Named(r, "upgrade")
    BY <1>3, <1>5, NamedIs
  <2> QED
    BY <2>1 DEF Admissible
<1>6. ASSUME IsStream(r), NEW k \in Watched
      PROVE  \E i \in 1 .. n :
               /\ FieldKind(r, i) = k /\ ValueFits(k, r.fields[i].value)
               /\ \A j \in 1 .. n : FieldKind(r, j) = k => j = i
  <2>1. IsHandshake(r)
    BY <1>6 DEF Admissible
  <2>2. Cardinality(Named(r, k)) = 1
    BY <1>3, <2>1 DEF IsHandshake
  <2>3. k \in FieldKinds
    BY <1>3
  <2>4. PICK i \in 1 .. n :
          /\ FieldKind(r, i) = k /\ OnlyValue(r, k) = r.fields[i].value
          /\ \A j \in 1 .. n : FieldKind(r, j) = k => j = i
    BY <2>2, <2>3, OnlyOne
  <2>5. ValueFits(k, OnlyValue(r, k))
    BY <1>3, <2>1 DEF ValueFits, IsHandshake
  <2> QED
    BY <2>4, <2>5
<1>7. ASSUME IsStream(r) PROVE Seen(TRUE, r, n) = Watched
  <2>1. \A k \in Watched : \E i \in 1 .. n : FieldKind(r, i) = k
    BY <1>6, <1>7
  <2> QED
    BY <2>1 DEF Seen
<1>8. ASSUME NEW i \in 1 .. n PROVE FieldFits(IsStream(r), r, i)
  <2>1. ASSUME IsStream(r), FieldKind(r, i) \in Watched
        PROVE  /\ \A j \in 1 .. n : FieldKind(r, j) = FieldKind(r, i) => j = i
               /\ ValueFits(FieldKind(r, i), r.fields[i].value)
    <3>1. PICK i2 \in 1 .. n :
            /\ FieldKind(r, i2) = FieldKind(r, i) /\ ValueFits(FieldKind(r, i), r.fields[i2].value)
            /\ \A j \in 1 .. n : FieldKind(r, j) = FieldKind(r, i) => j = i2
      BY <1>6, <2>1
    <3>2. i2 = i
      BY <3>1
    <3> QED
      BY <3>1, <3>2
  <2> QED
    BY <1>2, <1>4, <1>5, <2>1 DEF FieldFits
<1> QED
  BY <1>7, <1>8 DEF FieldsFit

(* Where the last byte of an admissible head finds the scanner, and leaves it. *)
HeadPasses(r) ==
  LET end == Consume(Fresh, RequestText(r)) IN
  /\ \E head \in Texts : /\ RequestText(r) = head \o <<"lf">>
                         /\ Consume(Fresh, head).phase = "HeadersEndLf"
  /\ IF IsStream(r) THEN end.phase = "Opaque" ELSE end = Fresh

(* The end of a head.                                                      *)
LEMMA EndRead ==
  ASSUME NEW s \in Scanners, s.phase = "HeaderLineStart", s.bytes + 2 <= MaxHeader,
         s.stream => s.saw = Watched
  PROVE  LET t == Consume(s, <<"cr">>)
             u == Consume(t, <<"lf">>) IN
         /\ t \in Scanners /\ t.phase = "HeadersEndLf"
         /\ IF s.stream THEN u.phase = "Opaque" ELSE u = Fresh
<1> DEFINE c == Counted(s)
           t == Consume(s, <<"cr">>)
           u == Consume(t, <<"lf">>)
           d == Counted(t)
<1>0. s.bytes \in Nat /\ MaxHeader \in Nat /\ s.bytes < MaxHeader
  BY ScannerAssumption DEF Scanners, ScannerType
<1>1. SameHead(s, t, 1) /\ t = [s EXCEPT !.bytes = @ + 1, !.phase = "HeadersEndLf"]
  <2>1. c.phase = "HeaderLineStart"
    BY DEF Counted, Scanners, ScannerType
  <2>2. ScanByte(c, "cr") = Goto(c, "HeadersEndLf")
    BY <2>1 DEF ScanByte
  <2>3. "HeadersEndLf" \in Phases /\ s.phase \notin {"Opaque", "Failed"}
    BY DEF Phases
  <2> QED
    BY <1>0, <2>2, <2>3, ByteMoves
<1> HIDE DEF t
<1>2. /\ t \in Scanners /\ t.phase = "HeadersEndLf" /\ t.bytes < MaxHeader
      /\ t.stream = s.stream /\ t.saw = s.saw
  <2>1. t \in Scanners /\ t.bytes = s.bytes + 1 /\ t.stream = s.stream /\ t.saw = s.saw
    BY <1>1 DEF SameHead
  <2>2. t.phase = "HeadersEndLf"
    BY <1>1 DEF Scanners, ScannerType
  <2> QED
    BY <1>0, <2>1, <2>2
<1>3. /\ u = ScanByte(d, "lf") /\ d \in Scanners
      /\ d.phase = "HeadersEndLf" /\ d.stream = s.stream /\ d.saw = s.saw
  <2>1. t.phase \notin {"Opaque", "Failed"}
    BY <1>2
  <2>2. Consume(t, <<"lf">>) = ScanByte(d, "lf") /\ d \in Scanners /\ SameFields(t, d)
    BY <1>2, <2>1, ByteStep
  <2> QED
    BY <1>2, <2>2 DEF SameFields
<1> HIDE DEF d
<1>4. u = FinishHeaders(d)
  BY <1>3 DEF ScanByte
<1>5. CASE s.stream
  <2>1. u = Goto(d, "Opaque")
    BY <1>3, <1>4, <1>5 DEF FinishHeaders, Watched
  <2>2. Goto(d, "Opaque").phase = "Opaque"
    BY <1>3 DEF Goto, Scanners, ScannerType
  <2> QED
    BY <1>2, <1>5, <2>1, <2>2 DEF t
<1>6. CASE ~s.stream
  <2>1. u = Fresh
    BY <1>3, <1>4, <1>6 DEF FinishHeaders
  <2> QED
    BY <1>2, <1>6, <2>1 DEF t
<1> QED
  BY <1>5, <1>6

(* An admissible request read from its first byte: it is accepted at its last *)
(* byte, or leaves a fresh scanner, and is not decided before.             *)
LEMMA HeadRead ==
  ASSUME NEW r \in RequestType, Admissible(r)
  PROVE  HeadPasses(r)
<1> DEFINE line == LineText(r)
           fields == Joined(Lines(r))
           cr == <<"cr">>
           lf == <<"lf">>
           b2 == line \o fields
           head == b2 \o cr
           s1 == Consume(Fresh, line)
           s2 == Consume(s1, fields)
           t == Consume(s2, cr)
           u == Consume(t, lf)
<1>1. /\ IsWellFormed(r) /\ r.sep = Separator /\ r.eol = <<"cr", "lf">> /\ r.end = <<"cr", "lf">>
      /\ Len(RequestText(r)) <= MaxHeader
  BY DEF Admissible, IsWellFormed, Separator
<1>2. /\ line \in Texts /\ fields \in Texts /\ cr \in Texts /\ lf \in Texts
      /\ r.end \in Texts /\ cr \o lf = r.end /\ Len(cr) = 1 /\ Len(lf) = 1
  <2>1. fields \in Texts
    BY LinesType, JoinedType
  <2>2. /\ r.method \in Texts /\ r.target \in Texts /\ r.version \in Texts
        /\ r.eol \in Texts /\ r.end \in Texts
    BY DEF RequestType
  <2>3. <<" ">> \in Texts
    BY DEF Texts, Bytes
  <2>4. \A x, y \in Texts : x \o y \in Texts
    BY ConcatProperties DEF Texts
  <2>5. line \in Texts
    BY <2>2, <2>3, <2>4 DEF LineText
  <2>6. "cr" \in Bytes /\ "lf" \in Bytes
    BY DEF Bytes, Controls
  <2>7. cr \in Seq(Bytes) /\ lf \in Seq(Bytes) /\ cr \o lf = <<"cr", "lf">>
    BY <2>6, Pair
  <2>8. Len(cr) = 1 /\ Len(lf) = 1
    OBVIOUS
  <2> HIDE DEF line, fields, cr, lf
  <2> QED
    BY <1>1, <2>1, <2>2, <2>5, <2>7, <2>8 DEF Texts
<1>3. RequestText(r) = b2 \o r.end
  BY DEF RequestText, LineText, Lines
<1> HIDE DEF line, fields, cr, lf
<1>4. \A x, y \in Texts : x \o y \in Texts /\ Len(x \o y) = Len(x) + Len(y) /\ Len(x) \in Nat
  BY ConcatProperties, LenProperties DEF Texts
<1>5. b2 \in Texts /\ Len(b2) = Len(line) + Len(fields) /\ Len(line) \in Nat /\ Len(fields) \in Nat
  BY <1>2, <1>4
<1> HIDE DEF b2
<1>6. head \in Texts /\ RequestText(r) = head \o lf
  <2>1. b2 \o (cr \o lf) = (b2 \o cr) \o lf
    <3>1. b2 \in Seq(Bytes) /\ cr \in Seq(Bytes) /\ lf \in Seq(Bytes)
      BY <1>2, <1>5 DEF Texts
    <3>2. \A S : \A x, y, z \in Seq(S) : (x \o y) \o z = x \o (y \o z)
      BY ConcatAssociative
    <3> QED
      BY <3>1, <3>2
  <2> QED
    BY <1>2, <1>3, <1>4, <1>5, <2>1
<1>7. Len(line) + Len(fields) + 2 <= MaxHeader /\ MaxHeader \in Nat
  <2>1. Len(b2 \o r.end) = Len(b2) + Len(r.end) /\ Len(r.end) = 2
    BY <1>1, <1>2, <1>4, <1>5
  <2>2. Len(b2 \o r.end) <= MaxHeader
    BY <1>1, <1>3
  <2> QED
    BY <1>5, <2>1, <2>2, ScannerAssumption
<1>8. /\ s1 \in Scanners /\ s1.phase = "HeaderLineStart" /\ s1.saw = {}
      /\ s1.bytes = Len(line) /\ (s1.stream <=> IsStream(r)) /\ s1.stream \in BOOLEAN
  <2>1. Len(LineText(r)) <= MaxHeader /\ LineFormed(r)
    <3>1. LineFormed(r)
      BY <1>1, Zenon DEF IsWellFormed, LineFormed
    <3> QED
      BY <1>5, <1>7, <3>1 DEF line
  <2>2. /\ s1 \in Scanners /\ s1.phase = "HeaderLineStart" /\ s1.saw = {}
        /\ s1.bytes = Len(line) /\ (s1.stream <=> IsStream(r))
    BY <1>1, <2>1, LineRead DEF line
  <2> HIDE DEF s1
  <2> QED
    BY <2>2 DEF Scanners, ScannerType
<1> HIDE DEF s1
<1>9. s1.stream = IsStream(r)
  <2>1. IsStream(r) \in BOOLEAN
    BY DEF IsStream
  <2> QED
    BY <1>8, <2>1
<1>10. LineAfter(s1, s2, Len(fields), Seen(s1.stream, r, Len(r.fields)))
  <2>1. FieldsFit(s1.stream, r)
    BY <1>9, FieldsAreFit
  <2>2. s1.bytes + Len(Joined(Lines(r))) <= MaxHeader
    BY <1>5, <1>7, <1>8 DEF fields
  <2> QED
    BY <1>1, <1>8, <2>1, <2>2, FieldsRead DEF fields
<1> HIDE DEF s2
<1>11. /\ s2 \in Scanners /\ s2.phase = "HeaderLineStart" /\ s2.stream = s1.stream
       /\ s2.saw = Seen(s1.stream, r, Len(r.fields)) /\ s2.bytes + 2 <= MaxHeader
  <2>1. /\ s2 \in Scanners /\ s2.phase = "HeaderLineStart" /\ s2.stream = s1.stream
        /\ s2.saw = Seen(s1.stream, r, Len(r.fields)) /\ s2.bytes = s1.bytes + Len(fields)
    BY <1>10 DEF LineAfter
  <2> QED
    BY <1>5, <1>7, <1>8, <2>1
<1>12. s2.stream => s2.saw = Watched
  <2>1. ASSUME s2.stream PROVE s2.saw = Watched
    <3>1. IsStream(r) /\ s1.stream = TRUE
      BY <1>8, <1>11, <2>1
    <3>2. Seen(TRUE, r, Len(r.fields)) = Watched
      BY <3>1, FieldsAreFit
    <3> QED
      BY <1>11, <3>1, <3>2
  <2> QED
    BY <2>1
<1>13. /\ t.phase = "HeadersEndLf"
       /\ IF s2.stream THEN u.phase = "Opaque" ELSE u = Fresh
  BY <1>11, <1>12, EndRead DEF cr, lf
<1>14. Consume(Fresh, head) = t /\ Consume(Fresh, RequestText(r)) = u
  <2>1. \A q \in Scanners : \A x, y \in Texts : Consume(q, x \o y) = Consume(Consume(q, x), y)
    BY ConsumeConcat DEF Texts
  <2>2. Consume(Fresh, b2) = s2
    BY <1>2, <2>1, FreshScans DEF b2, s1, s2
  <2> HIDE DEF t
  <2>3. Consume(Fresh, head) = t
    BY <1>2, <1>5, <2>1, <2>2, FreshScans DEF t
  <2> HIDE DEF head
  <2>4. Consume(Fresh, RequestText(r)) = u
    BY <1>2, <1>6, <2>1, <2>3, FreshScans
  <2> QED
    BY <2>3, <2>4
<1> HIDE DEF t, u, head
<1>15. IF IsStream(r) THEN u.phase = "Opaque" ELSE u = Fresh
  BY <1>8, <1>11, <1>13
<1>16. RequestText(r) = head \o <<"lf">> /\ head \in Texts
  BY <1>6 DEF lf
<1> QED
  BY <1>13, <1>14, <1>15, <1>16 DEF HeadPasses

-----------------------------------------------------------------------------
(* Several requests on one socket, cut anywhere.                           *)

(* A text cut in two. *)
LEMMA SplitAt ==
  ASSUME NEW w \in Texts, NEW k \in 0 .. Len(w)
  PROVE  /\ SubSeq(w, 1, k) \in Texts /\ SubSeq(w, k + 1, Len(w)) \in Texts
         /\ Len(SubSeq(w, 1, k)) = k
         /\ w = SubSeq(w, 1, k) \o SubSeq(w, k + 1, Len(w))
<1>1. w \in Seq(Bytes) /\ Len(w) \in Nat /\ \A i \in 1 .. Len(w) : w[i] \in Bytes
  BY LenProperties, ElementOfSeq DEF Texts
<1> DEFINE n == Len(w)
<1>2. n \in Nat /\ k \in 0 .. n /\ \A i \in 1 .. n : w[i] \in Bytes
  BY <1>1
<1> HIDE DEF n
<1>3. k \in Nat /\ k + 1 \in Int /\ 1 \in Int /\ n \in Int /\ k \in Int
  BY <1>2
<1>4. SubSeq(w, 1, k) \in Seq(Bytes) /\ Len(SubSeq(w, 1, k)) = k
  <2>1. \A i \in 1 .. k : w[i] \in Bytes
    BY <1>2
  <2>2. SubSeq(w, 1, k) \in Seq(Bytes) /\ Len(SubSeq(w, 1, k)) = IF 1 <= k THEN k - 1 + 1 ELSE 0
    BY <1>3, <2>1, SubSeqProperties
  <2> QED
    BY <1>3, <2>2
<1>5. SubSeq(w, k + 1, n) \in Seq(Bytes)
  <2>1. \A i \in k + 1 .. n : w[i] \in Bytes
    BY <1>2
  <2> QED
    BY <1>3, <2>1, SubSeqProperties
<1>6. SubSeq(w, 1, k) \o SubSeq(w, k + 1, n) = SubSeq(w, 1, n)
  <2>1. 1 \in 1 .. Len(w) + 1 /\ k \in 1 - 1 .. Len(w) /\ n \in k .. Len(w)
    BY <1>2 DEF n
  <2> QED
    BY <1>1, <2>1, ConcatAdjacentSubSeq
<1>7. SubSeq(w, 1, n) = w
  BY <1>1, SubSeqFull DEF n
<1> QED
  BY <1>4, <1>5, <1>6, <1>7 DEF n, Texts

(* What was received, k bytes, of a text that is a and then b: it ends in  *)
(* a, or it is a and the beginning of b.                                   *)
LEMMA CutShort ==
  ASSUME NEW a \in Texts, NEW b \in Texts, NEW k \in Nat, k <= Len(a)
  PROVE  /\ SubSeq(a \o b, 1, k) = SubSeq(a, 1, k) /\ SubSeq(a, 1, k) \in Texts
         /\ \E rest \in Texts : a = SubSeq(a, 1, k) \o rest
<1>1. a \in Seq(Bytes) /\ b \in Seq(Bytes) /\ Len(a) \in Nat /\ k \in 0 .. Len(a)
  BY LenProperties DEF Texts
<1>2. SubSeq(a \o b, 1, k) = SubSeq(a, 1, k)
  <2>1. CASE k = 0
    BY <2>1, SubSeqEmpty
  <2>2. CASE k # 0
    <3>1. 1 \in 1 .. Len(a) /\ k \in 1 .. Len(a)
      BY <1>1, <2>2
    <3> QED
      BY <1>1, <3>1, SubSeqOfConcat1
  <2> QED
    BY <2>1, <2>2
<1>3. /\ SubSeq(a, 1, k) \in Texts /\ SubSeq(a, k + 1, Len(a)) \in Texts
      /\ a = SubSeq(a, 1, k) \o SubSeq(a, k + 1, Len(a))
  BY <1>1, SplitAt
<1> QED
  BY <1>2, <1>3

(* It is a and the beginning of b.                                         *)
LEMMA CutLong ==
  ASSUME NEW a \in Texts, NEW b \in Texts, NEW k \in Nat, k >= Len(a), k <= Len(a \o b)
  PROVE  /\ SubSeq(a \o b, 1, k) = a \o SubSeq(b, 1, k - Len(a))
         /\ SubSeq(b, 1, k - Len(a)) \in Texts /\ k - Len(a) \in 0 .. Len(b)
<1> DEFINE w == a \o b
           m == Len(a)
           n == Len(b)
           y == SubSeq(b, 1, k - m)
<1>1. /\ a \in Seq(Bytes) /\ b \in Seq(Bytes) /\ m \in Nat /\ n \in Nat
      /\ w \in Seq(Bytes) /\ Len(w) = m + n /\ k \in m .. m + n
  <2>1. m \in Nat /\ n \in Nat /\ w \in Seq(Bytes) /\ Len(w) = m + n
    BY LenProperties, ConcatProperties DEF Texts
  <2> HIDE DEF w, m, n
  <2>2. k <= m + n /\ k >= m
    BY <2>1 DEF w, m
  <2> QED
    BY <2>1, <2>2 DEF Texts
<1>2. w \in Texts /\ a \in Texts /\ b \in Texts
  BY <1>1 DEF Texts
<1>3. SubSeq(w, 1, k) = SubSeq(w, 1, m) \o SubSeq(w, m + 1, k)
  <2>1. 1 \in 1 .. Len(w) + 1 /\ m \in 1 - 1 .. Len(w) /\ k \in m .. Len(w)
    BY <1>1
  <2> HIDE DEF w
  <2> QED
    BY <1>1, <2>1, ConcatAdjacentSubSeq
<1>4. SubSeq(w, 1, m) = a
  <2>1. CASE m = 0
    <3>1. SubSeq(w, 1, m) = <<>>
      BY <2>1, SubSeqEmpty
    <3>2. a = <<>>
      BY <1>1, <2>1, EmptySeq
    <3> QED
      BY <3>1, <3>2
  <2>2. CASE m # 0
    <3>1. 1 \in 1 .. Len(a) /\ m \in 1 .. Len(a)
      BY <1>1, <2>2
    <3>2. SubSeq(w, 1, m) = SubSeq(a, 1, m)
      BY <1>1, <3>1, SubSeqOfConcat1
    <3> QED
      BY <1>1, <3>2, SubSeqFull
  <2> QED
    BY <2>1, <2>2
<1>5. SubSeq(w, m + 1, k) = y
  <2>1. CASE k = m
    BY <1>1, <2>1, SubSeqEmpty
  <2>2. CASE k # m
    <3>1. m + 1 \in Len(a) + 1 .. Len(a) + Len(b) /\ k \in Len(a) + 1 .. Len(a) + Len(b)
      <4> HIDE DEF w
      <4>1. m + 1 \in m + 1 .. m + n /\ k \in m + 1 .. m + n
        <5> HIDE DEF m, n
        <5> QED
          BY <1>1, <2>2
      <4> QED
        BY <4>1
    <3>2. SubSeq(w, m + 1, k) = SubSeq(b, (m + 1) - Len(a), k - Len(a))
      BY <1>1, <3>1, SubSeqOfConcat2
    <3>3. (m + 1) - Len(a) = 1
      BY <1>1
    <3> QED
      BY <3>2, <3>3
  <2> QED
    BY <2>1, <2>2
<1>6. k - m \in 0 .. n
  <2> HIDE DEF m, n
  <2> QED
    BY <1>1
<1>7. y \in Texts
  BY <1>2, <1>6, SplitAt
<1> HIDE DEF y
<1>8. SubSeq(w, 1, k) = a \o y
  BY <1>3, <1>4, <1>5
<1> HIDE DEF w, m, n
<1> QED
  BY <1>6, <1>7, <1>8 DEF w, y, m, n

(* The first i requests of a client, as they are sent. *)
Heads(q, i) == Joined([j \in 1 .. i |-> RequestText(q[j])])

(* They are one text each, the next one longer by one request.             *)
LEMMA HeadsAre ==
  ASSUME NEW q \in Seq(RequestType)
  PROVE  /\ Heads(q, 0) = <<>> /\ Stream(q) = Heads(q, Len(q)) /\ Len(q) \in Nat
         /\ \A i \in 0 .. Len(q) : Heads(q, i) \in Texts /\ Len(Heads(q, i)) \in Nat
         /\ \A i \in 1 .. Len(q) : /\ Heads(q, i) = Heads(q, i - 1) \o RequestText(q[i])
                                   /\ RequestText(q[i]) \in Texts
<1> DEFINE n == Len(q)
           X(i) == [j \in 1 .. i |-> RequestText(q[j])]
<1>1. n \in Nat /\ DOMAIN q = 1 .. n /\ \A i \in 1 .. n : q[i] \in RequestType
  BY LenProperties, ElementOfSeq
<1>2. \A i \in 1 .. n : RequestText(q[i]) \in Texts
  BY <1>1, RequestTextType
<1> HIDE DEF n
<1>3. ASSUME NEW i \in 0 .. n
      PROVE  X(i) \in Seq(Texts) /\ Len(X(i)) = i /\ \A j \in 1 .. i : X(i)[j] = RequestText(q[j])
  <2>1. i \in Nat /\ \A j \in 1 .. i : j \in 1 .. n
    BY <1>1
  <2>2. \A j \in 1 .. i : RequestText(q[j]) \in Texts
    BY <1>2, <2>1
  <2> QED
    BY <2>1, <2>2
<1>4. \A i : Heads(q, i) = Joined(X(i))
  BY DEF Heads
<1>5. Stream(q) = Joined(X(n))
  BY <1>1 DEF Stream
<1> HIDE DEF X
<1>6. PICK f \in [0 .. n -> Texts] :
        /\ f[0] = <<>>
        /\ \A i \in 1 .. n : f[i] = f[i - 1] \o X(n)[i]
  <2> DEFINE texts == X(n)
  <2>1. n \in 0 .. n
    BY <1>1
  <2>2. texts \in Seq(Texts) /\ Len(texts) = n
    BY <1>3, <2>1
  <2> HIDE DEF texts
  <2>3. PICK f \in [0 .. n -> Texts] :
          /\ f[0] = <<>>
          /\ \A i \in 1 .. n : f[i] = f[i - 1] \o texts[i]
    BY <2>2, JoinedTable
  <2> QED
    BY <2>3 DEF texts
<1>7. \A i \in 1 .. n : f[i] = f[i - 1] \o RequestText(q[i])
  <2>1. n \in 0 .. n
    BY <1>1
  <2>2. \A i \in 1 .. n : X(n)[i] = RequestText(q[i])
    BY <1>3, <2>1
  <2> QED
    BY <1>6, <2>2
<1>8. ASSUME NEW i \in 0 .. n PROVE Heads(q, i) = f[i]
  <2> DEFINE texts == X(i)
  <2>1. texts \in Seq(Texts) /\ Len(texts) = i /\ \A j \in 1 .. i : texts[j] = RequestText(q[j])
    BY <1>3
  <2> HIDE DEF texts
  <2>2. \A j \in 1 .. Len(texts) : f[j] = f[j - 1] \o texts[j]
    <3>1. \A j \in 1 .. i : j \in 1 .. n
      BY <1>1
    <3> QED
      BY <1>7, <2>1, <3>1
  <2>3. Joined(texts) = f[Len(texts)]
    BY <1>6, <2>1, <2>2, JoinedIs
  <2> QED
    BY <1>4, <2>1, <2>3 DEF texts
<1>9. \A i \in 0 .. n : Heads(q, i) \in Texts /\ Len(Heads(q, i)) \in Nat
  <2>1. \A x \in Texts : Len(x) \in Nat
    BY LenProperties DEF Texts
  <2> QED
    BY <1>8, <2>1
<1>10. ASSUME NEW i \in 1 .. n PROVE Heads(q, i) = Heads(q, i - 1) \o RequestText(q[i])
  <2>1. i \in 0 .. n /\ i - 1 \in 0 .. n
    BY <1>1
  <2> QED
    BY <1>7, <1>8, <2>1
<1>11. Heads(q, 0) = <<>> /\ Stream(q) = Heads(q, n)
  <2>1. 0 \in 0 .. n
    BY <1>1
  <2> QED
    BY <1>4, <1>5, <1>6, <1>8, <2>1
<1> QED
  BY <1>1, <1>2, <1>9, <1>10, <1>11 DEF n

(* What a client sends begins with its first requests.                     *)
LEMMA HeadsGrow ==
  ASSUME NEW q \in Seq(RequestType), NEW i \in 0 .. Len(q)
  PROVE  \E rest \in Texts : Stream(q) = Heads(q, i) \o rest
<1> DEFINE n == Len(q)
<1>1. /\ n \in Nat /\ Stream(q) = Heads(q, n)
      /\ \A j \in 0 .. n : Heads(q, j) \in Texts
      /\ \A j \in 1 .. n : /\ Heads(q, j) = Heads(q, j - 1) \o RequestText(q[j])
                           /\ RequestText(q[j]) \in Texts
  BY HeadsAre
<1>2. i \in 0 .. n
  OBVIOUS
<1> HIDE DEF n
<1> DEFINE Begins(j) == \E rest \in Texts : Stream(q) = Heads(q, j) \o rest
           T == {k \in Nat : k <= n => Begins(n - k)}
<1>3. 0 \in T
  <2>1. n - 0 = n /\ n \in 0 .. n
    BY <1>1
  <2>2. Heads(q, n) = Heads(q, n) \o <<>> /\ <<>> \in Texts
    <3>1. Heads(q, n) \in Seq(Bytes)
      BY <1>1, <2>1 DEF Texts
    <3> QED
      BY <3>1, ConcatEmptySeq, EmptySeq DEF Texts
  <2>3. Begins(n)
    BY <1>1, <2>2
  <2> HIDE DEF Begins
  <2> QED
    BY <2>1, <2>3
<1>4. ASSUME NEW k \in Nat, k \in T PROVE k + 1 \in T
  <2> SUFFICES ASSUME k + 1 <= n PROVE Begins(n - (k + 1))
    OBVIOUS
  <2> DEFINE j == n - k
  <2>1. j \in 1 .. n /\ j - 1 \in 0 .. n /\ n - (k + 1) = j - 1 /\ k <= n
    BY <1>1
  <2>2. PICK rest \in Texts : Stream(q) = Heads(q, j) \o rest
    BY <1>4, <2>1
  <2> HIDE DEF j
  <2>3. /\ Heads(q, j) = Heads(q, j - 1) \o RequestText(q[j])
        /\ Heads(q, j - 1) \in Seq(Bytes) /\ RequestText(q[j]) \in Seq(Bytes) /\ rest \in Seq(Bytes)
    BY <1>1, <2>1 DEF Texts
  <2>4. Stream(q) = Heads(q, j - 1) \o (RequestText(q[j]) \o rest)
    BY <2>2, <2>3, ConcatAssociative, SMTT(30)
  <2>5. RequestText(q[j]) \o rest \in Texts
    BY <2>3, ConcatProperties DEF Texts
  <2>6. Begins(j - 1)
    BY <2>4, <2>5
  <2> QED
    BY <2>1, <2>6
<1> HIDE DEF T
<1>5. Nat \subseteq T
  BY <1>3, <1>4, InductionOnSet
<1>6. n - i \in Nat /\ n - i <= n /\ n - (n - i) = i
  BY <1>1, <1>2
<1>7. Begins(n - (n - i))
  <2> HIDE DEF Begins
  <2> QED
    BY <1>5, <1>6 DEF T
<1> QED
  BY <1>6, <1>7

Ordinary(r) == Admissible(r) /\ ~IsStream(r)

(* A scan that has not ended had not ended before. *)
LEMMA NotEndedYet ==
  ASSUME NEW x \in Texts, NEW rest \in Texts
  PROVE  /\ Consume(Fresh, x) \in Scanners
         /\ Consume(Fresh, x \o rest) = Consume(Consume(Fresh, x), rest)
         /\ Consume(Fresh, x).phase \in {"Opaque", "Failed"} =>
              Consume(Fresh, x \o rest) = Consume(Fresh, x)
<1>1. Len(x) \in Nat /\ Len(rest) \in Nat /\ Fresh \in Scanners
  BY LenProperties, FreshScans DEF Texts
<1>2. Consume(Fresh, x) \in Scanners
  BY <1>1, ConsumeType
<1>3. Consume(Fresh, x \o rest) = Consume(Consume(Fresh, x), rest)
  BY <1>1, ConsumeConcat DEF Texts
<1> QED
  BY <1>1, <1>2, <1>3, ConsumeEnds

(* Ordinary requests leave the scanner as it was. *)
LEMMA OrdinaryPass ==
  ASSUME NEW q \in Seq(RequestType), NEW i \in 0 .. Len(q), \A j \in 1 .. i : Ordinary(q[j])
  PROVE  Consume(Fresh, Heads(q, i)) = Fresh
<1> DEFINE T == {j \in Nat : j <= i => Consume(Fresh, Heads(q, j)) = Fresh}
<1>1. /\ Heads(q, 0) = <<>> /\ Len(q) \in Nat
      /\ \A j \in 0 .. Len(q) : Heads(q, j) \in Texts
      /\ \A j \in 1 .. Len(q) : /\ Heads(q, j) = Heads(q, j - 1) \o RequestText(q[j])
                                /\ RequestText(q[j]) \in Texts
  BY HeadsAre
<1>2. 0 \in T
  BY <1>1, FreshScans, ConsumeNothing
<1>3. ASSUME NEW j \in Nat, j \in T PROVE j + 1 \in T
  <2> SUFFICES ASSUME j + 1 <= i PROVE Consume(Fresh, Heads(q, j + 1)) = Fresh
    OBVIOUS
  <2>1. j + 1 \in 1 .. Len(q) /\ j \in 0 .. Len(q) /\ (j + 1) - 1 = j /\ j + 1 \in 1 .. i
    BY <1>1
  <2>2. Consume(Fresh, Heads(q, j)) = Fresh
    BY <1>3
  <2>3. q[j + 1] \in RequestType /\ Ordinary(q[j + 1])
    BY <2>1, ElementOfSeq
  <2>4. Consume(Fresh, RequestText(q[j + 1])) = Fresh
    BY <2>3, HeadRead DEF Ordinary, HeadPasses
  <2>5. /\ Heads(q, j + 1) = Heads(q, j) \o RequestText(q[j + 1])
        /\ Heads(q, j) \in Texts /\ RequestText(q[j + 1]) \in Texts
    BY <1>1, <2>1
  <2> QED
    BY <2>2, <2>4, <2>5, NotEndedYet
<1> HIDE DEF T
<1>4. i \in T
  BY <1>2, <1>3, InductionOnSet
<1> QED
  BY <1>4 DEF T

(* The request that decides, from its first byte. *)
LEMMA OneRequest ==
  ASSUME NEW r \in RequestType, ~Ordinary(r), NEW rest \in Texts, NEW k \in Nat,
         k <= Len(RequestText(r) \o rest),
         ~Admissible(r) => Consume(Fresh, RequestText(r)).phase = "Failed"
  PROVE  LET t == Consume(Fresh, SubSeq(RequestText(r) \o rest, 1, k)) IN
         /\ t.phase = "Opaque" <=> Admissible(r) /\ k >= Len(RequestText(r))
         /\ t.phase = "Failed" => ~Admissible(r) /\ k > 0
         /\ ~Admissible(r) /\ k >= Len(RequestText(r)) => t.phase = "Failed"
         /\ Len(RequestText(r)) > 0
<1> DEFINE b == RequestText(r)
           all == Consume(Fresh, b)
           t == Consume(Fresh, SubSeq(b \o rest, 1, k))
<1>1. b \in Texts /\ Len(b) \in Nat
  BY RequestTextType, LenProperties DEF Texts
<1>2. IF Admissible(r) THEN all.phase = "Opaque" ELSE all.phase = "Failed"
  BY HeadRead DEF Ordinary, HeadPasses
<1>3. Len(b) > 0
  <2>1. CASE b = <<>>
    BY <1>2, <2>1, ConsumeNothing, FreshScans
  <2>2. CASE b # <<>>
    BY <1>1, <2>2, EmptySeq DEF Texts
  <2> QED
    BY <2>1, <2>2
<1>4. CASE k >= Len(b)
  <2>1. /\ SubSeq(b \o rest, 1, k) = b \o SubSeq(rest, 1, k - Len(b))
        /\ SubSeq(rest, 1, k - Len(b)) \in Texts
    <3>1. k <= Len(b \o rest)
      OBVIOUS
    <3> HIDE DEF b
    <3> QED
      BY <1>1, <1>4, <3>1, CutLong
  <2>2. t = all
    <3> DEFINE z == SubSeq(rest, 1, k - Len(b))
               y == SubSeq(b \o rest, 1, k)
    <3>1. all.phase \in {"Opaque", "Failed"}
      BY <1>2
    <3>2. y = b \o z /\ z \in Texts
      BY <2>1
    <3> HIDE DEF b, z, y
    <3>3. all.phase \in {"Opaque", "Failed"} => Consume(Fresh, b \o z) = all
      BY <1>1, <3>2, NotEndedYet
    <3>4. Consume(Fresh, y) = all
      BY <3>1, <3>2, <3>3
    <3> QED
      BY <3>4 DEF y, b
  <2>3. k > 0
    <3> HIDE DEF b
    <3> QED
      BY <1>1, <1>3, <1>4
  <2> HIDE DEF t, all
  <2>4. /\ t.phase = "Opaque" <=> Admissible(r)
        /\ t.phase = "Failed" <=> ~Admissible(r)
    BY <1>2, <2>2
  <2> QED
    BY <1>3, <1>4, <2>3, <2>4 DEF t, b
<1>5. CASE ~(k >= Len(b))
  <2>1. k <= Len(b) /\ k < Len(b)
    BY <1>1, <1>5
  <2>2. /\ SubSeq(b \o rest, 1, k) = SubSeq(b, 1, k) /\ SubSeq(b, 1, k) \in Texts
        /\ \E more \in Texts : b = SubSeq(b, 1, k) \o more
    <3> HIDE DEF b
    <3> QED
      BY <1>1, <2>1, CutShort
  <2> DEFINE x == SubSeq(b, 1, k)
  <2>3. PICK more \in Texts : b = x \o more
    BY <2>2
  <2>4. CASE ~Admissible(r)
    <3>1. all.phase = "Failed"
      BY <1>2, <2>4
    <3>2. t.phase = "Opaque" => all = t
      <4> DEFINE y == SubSeq(b \o rest, 1, k)
      <4>1. y = x /\ x \in Texts
        BY <2>2
      <4> HIDE DEF b, x, y
      <4>2. Consume(Fresh, x).phase = "Opaque" => Consume(Fresh, b) = Consume(Fresh, x)
        BY <2>3, <4>1, NotEndedYet
      <4> QED
        BY <4>1, <4>2 DEF y, b
    <3>3. t.phase # "Opaque"
      BY <3>1, <3>2
    <3>4. t.phase = "Failed" => k > 0
      <4>1. CASE k = 0
        <5>1. SubSeq(b, 1, k) = <<>>
          BY <4>1, SubSeqEmpty
        <5>2. t = Fresh
          BY <2>2, <5>1, ConsumeNothing, FreshScans
        <5> QED
          BY <5>2, FreshScans
      <4>2. CASE k # 0
        BY <4>2
      <4> QED
        BY <4>1, <4>2
    <3> HIDE DEF t
    <3> QED
      BY <1>3, <1>5, <2>4, <3>3, <3>4 DEF t, b
  <2>5. CASE Admissible(r)
    <3>1. PICK head \in Texts : b = head \o <<"lf">> /\ Consume(Fresh, head).phase = "HeadersEndLf"
      BY <2>5, HeadRead DEF HeadPasses
    <3>2. <<"lf">> \in Texts /\ Len(<<"lf">>) = 1
      <4>1. "lf" \in Bytes
        BY DEF Bytes, Controls
      <4> QED
        BY <4>1 DEF Texts
    <3>3. k <= Len(head)
      <4>1. Len(b) = Len(head) + 1 /\ Len(head) \in Nat
        <5> DEFINE lf == <<"lf">>
        <5> HIDE DEF lf, b
        <5>1. lf \in Seq(Bytes) /\ Len(lf) = 1 /\ head \in Seq(Bytes) /\ b = head \o lf
          BY <3>1, <3>2 DEF lf, Texts
        <5> QED
          BY <5>1, ConcatProperties, LenProperties, SMTT(30)
      <4> HIDE DEF b
      <4> QED
        BY <2>1, <4>1
    <3>4. /\ SubSeq(head \o <<"lf">>, 1, k) = SubSeq(head, 1, k) /\ SubSeq(head, 1, k) \in Texts
          /\ \E tail \in Texts : head = SubSeq(head, 1, k) \o tail
      BY <3>2, <3>3, CutShort
    <3>5. x = SubSeq(head, 1, k)
      BY <3>1, <3>4
    <3> HIDE DEF x, b
    <3>6. PICK tail \in Texts : head = x \o tail
      BY <3>4, <3>5
    <3>7. t = Consume(Fresh, x) /\ x \in Texts
      BY <2>2 DEF x
    <3> HIDE DEF t
    <3>8. t.phase \notin {"Opaque", "Failed"}
      BY <3>1, <3>6, <3>7, NotEndedYet
    <3> QED
      BY <1>3, <1>5, <2>5, <3>8 DEF t, b
  <2> QED
    BY <2>4, <2>5
<1> QED
  BY <1>4, <1>5

(* Deciding is the first request that is not an ordinary one.              *)
LEMMA DecidingIs ==
  ASSUME sent \in Seq(RequestType)
  PROVE  /\ Deciding = 0 => \A j \in 1 .. Len(sent) : Ordinary(sent[j])
         /\ Deciding # 0 => /\ Deciding \in 1 .. Len(sent) /\ ~Ordinary(sent[Deciding])
                            /\ \A j \in 1 .. Deciding - 1 : Ordinary(sent[j])
<1> DEFINE n == Len(sent)
           ends == {i \in DOMAIN sent : IsStream(sent[i]) \/ ~Admissible(sent[i])}
           first == CHOOSE i \in ends : \A j \in ends : i <= j
<1>1. n \in Nat /\ DOMAIN sent = 1 .. n
  BY LenProperties
<1>2. Deciding = IF ends = {} THEN 0 ELSE first
  BY DEF Deciding
<1>3. \A i : i \in ends <=> i \in 1 .. n /\ ~Ordinary(sent[i])
  BY <1>1 DEF Ordinary
<1> HIDE DEF ends, n
<1>4. ASSUME ends # {}
      PROVE  /\ first \in 1 .. n /\ ~Ordinary(sent[first])
             /\ \A j \in 1 .. first - 1 : Ordinary(sent[j])
  <2>1. ends \subseteq Nat
    BY <1>1, <1>3
  <2>2. \E i \in ends : \A j \in ends : i <= j
    BY <1>4, <2>1, LeastNatural
  <2>3. first \in ends /\ \A j \in ends : first <= j
    BY <2>2
  <2> HIDE DEF first
  <2>4. \A j \in 1 .. first - 1 : Ordinary(sent[j])
    <3>1. first \in 1 .. n
      BY <1>3, <2>3
    <3> SUFFICES ASSUME NEW j \in 1 .. first - 1, ~Ordinary(sent[j]) PROVE FALSE
      OBVIOUS
    <3>2. j \in ends
      BY <1>1, <1>3, <3>1
    <3>3. first <= j
      BY <2>3, <3>2
    <3> QED
      BY <1>1, <3>1, <3>3
  <2> QED
    BY <1>3, <2>3, <2>4
<1> HIDE DEF first
<1>5. ends = {} => \A j \in 1 .. n : Ordinary(sent[j])
  BY <1>3
<1>6. ends # {} => first # 0
  BY <1>1, <1>4
<1> QED
  BY <1>2, <1>4, <1>5, <1>6 DEF n

(* Every inadmissible request is refused when it is sent alone. *)
RefusedAlone ==
  \A r \in Requests \cup Openers :
    ~Admissible(r) => Consume(Fresh, RequestText(r)).phase = "Failed"

(* What the scanner made of the bytes so far is what ScannerAgrees says.   *)
LEMMA AllAgree ==
  ASSUME HeadInv, RefusedAlone
  PROVE  ScannerAgrees
<1> SUFFICES ASSUME socket \in {"http", "refused"} PROVE ScannerAgrees
  BY DEF ScannerAgrees
<1> DEFINE i == Deciding
           n == Len(sent)
           read == Consume(Fresh, Received)
<1>1. sent \in Seq(RequestType)
  BY SentTyped DEF HeadInv
<1>2. /\ read = scanner /\ at \in Nat /\ at <= Len(Wire)
      /\ accepted <=> read.phase = "Opaque"
      /\ socket = "refused" <=> read.phase = "Failed"
  BY DEF HeadInv, CutsDoNotMatter
<1>3. /\ n \in Nat /\ Wire = Heads(sent, n) /\ Wire = Stream(sent)
      /\ \A j \in 0 .. n : Heads(sent, j) \in Texts /\ Len(Heads(sent, j)) \in Nat
      /\ \A j \in 1 .. n : /\ Heads(sent, j) = Heads(sent, j - 1) \o RequestText(sent[j])
                           /\ RequestText(sent[j]) \in Texts
  BY <1>1, HeadsAre, WireIsStream
<1>4. \A j : Before(j) = Len(Heads(sent, j))
  BY DEF Before, Heads
<1>5. Received = SubSeq(Wire, 1, at)
  BY DEF Received
<1> HIDE DEF read
<1>6. ASSUME NEW a \in Texts, NEW rest \in Texts, Wire = a \o rest, Consume(Fresh, a) = Fresh,
             at <= Len(a)
      PROVE  read.phase \notin {"Opaque", "Failed"}
  <2> DEFINE x == SubSeq(a, 1, at)
  <2>1. /\ SubSeq(a \o rest, 1, at) = x /\ x \in Texts
        /\ \E more \in Texts : a = x \o more
    BY <1>2, <1>6, CutShort
  <2> HIDE DEF x
  <2>2. PICK more \in Texts : a = x \o more
    BY <2>1
  <2>3. read = Consume(Fresh, x)
    BY <1>5, <1>6, <2>1 DEF read
  <2> QED
    BY <1>6, <2>1, <2>2, <2>3, NotEndedYet, FreshScans
<1>7. CASE i = 0
  <2>1. \A j \in 1 .. n : Ordinary(sent[j])
    BY <1>1, <1>7, DecidingIs
  <2>2. n \in 0 .. n
    BY <1>3
  <2>3. Consume(Fresh, Wire) = Fresh /\ Wire \in Texts
    BY <1>1, <1>3, <2>1, <2>2, OrdinaryPass
  <2>4. Wire = Wire \o <<>> /\ <<>> \in Texts
    BY <2>3, ConcatEmptySeq, EmptySeq DEF Texts
  <2>5. read.phase \notin {"Opaque", "Failed"}
    BY <1>2, <1>6, <2>3, <2>4
  <2> QED
    BY <1>2, <1>7, <2>5 DEF ScannerAgrees
<1>8. CASE i # 0
  <2> DEFINE a == Heads(sent, i - 1)
             r == sent[i]
             b == RequestText(r)
             k == at - Len(a)
  <2>1. i \in 1 .. n /\ ~Ordinary(r) /\ \A j \in 1 .. i - 1 : Ordinary(sent[j])
    BY <1>1, <1>8, DecidingIs
  <2> HIDE DEF i
  <2>2. i - 1 \in 0 .. n /\ i \in 0 .. n /\ r \in RequestType /\ r \in Requests \cup Openers
    <3>1. i - 1 \in 0 .. n /\ i \in 0 .. n
      BY <1>3, <2>1
    <3>2. sent[i] \in Requests \cup Openers
      <4>1. sent \in Seq(Requests \cup Openers)
        BY DEF HeadInv
      <4> QED
        BY <2>1, <4>1, ElementOfSeq
    <3>3. sent[i] \in RequestType
      BY <1>1, <2>1, ElementOfSeq
    <3> QED
      BY <3>1, <3>2, <3>3
  <2>3. Heads(sent, i) = a \o b /\ a \in Texts /\ b \in Texts /\ Len(a) \in Nat
    BY <1>3, <2>1, <2>2
  <2>4. Consume(Fresh, a) = Fresh
    BY <1>1, <2>1, <2>2, OrdinaryPass
  <2>5. PICK rest \in Texts : Wire = Heads(sent, i) \o rest
    BY <1>1, <1>3, <2>2, HeadsGrow
  <2>6. /\ Before(i - 1) = Len(a) /\ Before(i) = Len(a) + Len(b) /\ Len(b) \in Nat
    <3>1. Before(i) = Len(a \o b)
      BY <1>4, <2>3
    <3> QED
      BY <1>4, <2>3, <3>1, ConcatProperties, LenProperties DEF Texts
  <2>7. ~Admissible(r) => Consume(Fresh, b).phase = "Failed"
    BY <2>2 DEF RefusedAlone
  <2>8. Wire = a \o (b \o rest) /\ b \o rest \in Texts
    <3>1. Wire = (a \o b) \o rest
      BY <2>3, <2>5
    <3> HIDE DEF a, b
    <3> QED
      BY <2>3, <3>1, ConcatAssociative, ConcatProperties DEF Texts
  <2>9. CASE at <= Len(a)
    <3>1. read.phase \notin {"Opaque", "Failed"}
      BY <1>6, <2>3, <2>4, <2>8, <2>9
    <3>2. Len(b) > 0
      <4>1. 0 <= Len(b \o rest)
        BY <2>8, LenProperties DEF Texts
      <4> QED
        BY <2>1, <2>2, <2>7, <4>1, OneRequest
    <3>3. ~(at >= Before(i))
      BY <1>2, <2>3, <2>6, <2>9, <3>2
    <3> QED
      BY <1>2, <3>1, <3>3 DEF ScannerAgrees, i
  <2>10. CASE at > Len(a)
    <3>1. /\ SubSeq(a \o (b \o rest), 1, at) = a \o SubSeq(b \o rest, 1, k)
          /\ SubSeq(b \o rest, 1, k) \in Texts /\ k \in 0 .. Len(b \o rest)
      <4>1. at >= Len(a) /\ at <= Len(a \o (b \o rest))
        BY <1>2, <2>3, <2>8, <2>10
      <4> DEFINE tail == b \o rest
      <4>2. tail \in Texts
        BY <2>8
      <4> HIDE DEF a, tail
      <4> QED
        BY <1>2, <2>3, <4>1, <4>2, CutLong DEF tail
    <3>2. read = Consume(Fresh, SubSeq(b \o rest, 1, k))
      <4> DEFINE y == SubSeq(b \o rest, 1, k)
      <4>1. Received = a \o y /\ y \in Texts
        BY <1>5, <2>8, <3>1
      <4> HIDE DEF a, y
      <4>2. Consume(Fresh, a \o y) = Consume(Fresh, y)
        BY <2>3, <2>4, <4>1, NotEndedYet
      <4> QED
        BY <4>1, <4>2 DEF read, y
    <3>3. k \in Nat /\ k <= Len(b \o rest)
      <4>1. Len(b \o rest) \in Nat
        BY <2>8, LenProperties DEF Texts
      <4> HIDE DEF k
      <4> QED
        BY <3>1, <4>1
    <3>4. /\ read.phase = "Opaque" <=> Admissible(r) /\ k >= Len(b)
          /\ read.phase = "Failed" => ~Admissible(r) /\ k > 0
          /\ ~Admissible(r) /\ k >= Len(b) => read.phase = "Failed"
      <4> HIDE DEF k
      <4> QED
        BY <2>1, <2>2, <2>7, <3>2, <3>3, OneRequest
    <3>5. (k >= Len(b) <=> at >= Before(i)) /\ (at > Before(i - 1))
      <4> HIDE DEF a, b
      <4> QED
        BY <1>2, <2>3, <2>6, <2>10
    <3> HIDE DEF k, a, b
    <3>6. /\ accepted <=> i # 0 /\ Admissible(r) /\ at >= Before(i)
          /\ socket = "refused" => i # 0 /\ ~Admissible(r) /\ at > Before(i - 1)
          /\ i # 0 /\ ~Admissible(r) /\ at >= Before(i) => socket = "refused"
      BY <1>2, <1>8, <3>4, <3>5
    <3> QED
      BY <3>6 DEF ScannerAgrees, i
  <2> QED
    BY <1>2, <2>3, <2>9, <2>10
<1> QED
  BY <1>7, <1>8

-----------------------------------------------------------------------------
(* The converse: a framed request that is not refused is admissible.       *)
Alive(s, text) == Consume(s, text).phase # "Failed"

(* What is not refused was not refused before.                             *)
LEMMA AliveSplit ==
  ASSUME NEW s \in Scanners, NEW a \in Texts, NEW b \in Texts, Alive(s, a \o b)
  PROVE  /\ Alive(s, a) /\ Consume(s, a) \in Scanners
         /\ Alive(Consume(s, a), b)
         /\ Consume(s, a \o b) = Consume(Consume(s, a), b)
<1> DEFINE t == Consume(s, a)
<1>1. Consume(s, a \o b) = Consume(t, b)
  BY ConsumeConcat DEF Texts
<1>2. Len(a) \in Nat /\ Len(b) \in Nat
  BY LenProperties DEF Texts
<1>3. t \in Scanners
  BY <1>2, ConsumeType
<1> HIDE DEF t
<1>4. t.phase = "Failed" => Consume(t, b) = t
  BY <1>2, <1>3, ConsumeEnds
<1> QED
  BY <1>1, <1>3, <1>4 DEF Alive, t

(* A text, byte by byte.                                                   *)
LEMMA OneMore ==
  ASSUME NEW text \in Texts, NEW i \in 1 .. Len(text)
  PROVE  LET p == SubSeq(text, 1, i - 1) IN
         /\ p \in Texts /\ Len(p) = i - 1 /\ \A j \in 1 .. i - 1 : p[j] = text[j]
         /\ text[i] \in Bytes /\ <<text[i]>> \in Texts
         /\ SubSeq(text, 1, i) \in Texts /\ SubSeq(text, i + 1, Len(text)) \in Texts
         /\ SubSeq(text, 1, i) = p \o <<text[i]>>
         /\ text = SubSeq(text, 1, i) \o SubSeq(text, i + 1, Len(text))
<1> DEFINE p == SubSeq(text, 1, i - 1)
           q == SubSeq(text, 1, i)
<1>0. Len(text) \in Nat /\ i - 1 \in 0 .. Len(text) /\ i \in 0 .. Len(text) /\ text \in Seq(Bytes)
  BY LenProperties DEF Texts
<1>1. p \in Texts /\ Len(p) = i - 1
  BY <1>0, SplitAt
<1>2. q \in Texts /\ Len(q) = i /\ SubSeq(text, i + 1, Len(text)) \in Texts
      /\ text = q \o SubSeq(text, i + 1, Len(text))
  BY <1>0, SplitAt
<1>3. (\A j \in 1 .. i - 1 : p[j] = text[j]) /\ (\A j \in 1 .. i : q[j] = text[j])
  BY <1>0, SubSeqProperties
<1>4. text[i] \in Bytes
  BY <1>0, ElementOfSeq
<1>5. <<text[i]>> \in Texts /\ Len(<<text[i]>>) = 1 /\ <<text[i]>>[1] = text[i]
  BY <1>4 DEF Texts
<1> DEFINE b == <<text[i]>>
<1> HIDE DEF p, q, b
<1>6. p \o b \in Texts /\ Len(p \o b) = i
      /\ \A j \in 1 .. i : (p \o b)[j] = IF j <= i - 1 THEN p[j] ELSE b[j - (i - 1)]
  <2>1. p \in Seq(Bytes) /\ b \in Seq(Bytes) /\ Len(b) = 1
    BY <1>1, <1>5 DEF Texts, b
  <2>2. /\ p \o b \in Seq(Bytes) /\ Len(p \o b) = Len(p) + Len(b)
        /\ \A j \in 1 .. Len(p) + Len(b) : (p \o b)[j] = IF j <= Len(p) THEN p[j] ELSE b[j - Len(p)]
    BY <2>1, ConcatProperties
  <2>3. Len(p) + Len(b) = i
    BY <1>0, <1>1, <2>1
  <2> QED
    BY <1>1, <2>2, <2>3 DEF Texts
<1>7. \A j \in 1 .. i : (p \o b)[j] = q[j]
  <2> TAKE j \in 1 .. i
  <2>1. CASE j <= i - 1
    <3>1. j \in 1 .. i - 1
      BY <1>0, <2>1
    <3> QED
      BY <1>3, <1>6, <2>1, <3>1
  <2>2. CASE ~(j <= i - 1)
    <3>1. j = i /\ j - (i - 1) = 1
      BY <1>0, <2>2
    <3>2. b[1] = text[i]
      BY <1>5 DEF b
    <3>3. (p \o b)[j] = b[1] /\ q[j] = text[i]
      BY <1>3, <1>6, <2>2, <3>1
    <3> QED
      BY <3>2, <3>3
  <2> QED
    BY <2>1, <2>2
<1>8. p \o b = q
  <2>1. p \o b \in Seq(Bytes) /\ q \in Seq(Bytes)
    BY <1>2, <1>6 DEF Texts
  <2> QED
    BY <1>2, <1>6, <1>7, <2>1, SeqEqual
<1> QED
  BY <1>1, <1>2, <1>3, <1>4, <1>5, <1>8 DEF p, q, b

(* Not refused at any of its bytes.                                        *)
LEMMA AliveAt ==
  ASSUME NEW s \in Scanners, NEW text \in Texts, Alive(s, text), NEW i \in 1 .. Len(text)
  PROVE  LET t == Consume(s, SubSeq(text, 1, i - 1)) IN
         t \in Scanners /\ Alive(t, <<text[i]>>) /\ Alive(s, SubSeq(text, 1, i - 1))
<1> DEFINE p == SubSeq(text, 1, i - 1)
           b == <<text[i]>>
           q == SubSeq(text, 1, i)
           rest == SubSeq(text, i + 1, Len(text))
<1>1. p \in Texts /\ b \in Texts /\ q \in Texts /\ rest \in Texts /\ q = p \o b /\ text = q \o rest
  BY OneMore
<1> HIDE DEF p, b, q, rest
<1>2. Alive(s, q)
  BY <1>1, AliveSplit
<1> QED
  BY <1>1, <1>2, AliveSplit DEF p, b

(* One byte that is not refused is below the limit of the head.            *)
LEMMA AliveByte ==
  ASSUME NEW s \in Scanners, s.phase \notin {"Opaque", "Failed"}, NEW byte, Alive(s, <<byte>>)
  PROVE  /\ s.bytes \in Nat /\ s.bytes < MaxHeader
         /\ Consume(s, <<byte>>) = ScanByte(Counted(s), byte)
         /\ ScanByte(Counted(s), byte).phase # "Failed"
         /\ Counted(s) \in Scanners /\ SameFields(s, Counted(s))
         /\ Counted(s).bytes = s.bytes + 1
<1>1. s.bytes \in Nat /\ MaxHeader \in Nat
  BY ScannerAssumption DEF Scanners, ScannerType
<1>2. s.bytes < MaxHeader
  <2> SUFFICES ASSUME ~(s.bytes < MaxHeader) PROVE FALSE
    OBVIOUS
  <2> DEFINE c == [s EXCEPT !.bytes = @ + 1]
  <2>1. c.bytes = s.bytes + 1 /\ c.bytes > MaxHeader
    BY <1>1 DEF Scanners, ScannerType
  <2>2. ScanCounted(s, byte) = Reject(c, "HeaderTooLong")
    BY <2>1 DEF ScanCounted
  <2>3. Reject(c, "HeaderTooLong").phase = "Failed"
    BY DEF Reject, Scanners, ScannerType
  <2> QED
    BY <2>2, <2>3, ConsumeByte DEF Alive
<1>3. /\ Consume(s, <<byte>>) = ScanByte(Counted(s), byte)
      /\ Counted(s) \in Scanners /\ SameFields(s, Counted(s)) /\ SameHead(s, Counted(s), 1)
  BY <1>2, ByteStep
<1> QED
  BY <1>1, <1>2, <1>3 DEF Alive, SameHead

(* The first bytes of a text. *)
LEMMA FirstBytes ==
  ASSUME NEW text \in Texts
  PROVE  /\ Len(text) \in Nat /\ (Len(text) = 0 <=> text = <<>>) /\ DOMAIN text = 1 .. Len(text)
         /\ Len(text) >= 1 => SubSeq(text, 1, 0) = <<>>
         /\ Len(text) >= 2 => SubSeq(text, 1, 1) = <<text[1]>>
         /\ Len(text) >= 3 => SubSeq(text, 1, 2) = <<text[1], text[2]>>
         /\ Len(text) = 1 => text = <<text[1]>>
         /\ Len(text) = 2 => text = <<text[1], text[2]>>
<1>1. text \in Seq(Bytes) /\ Len(text) \in Nat /\ (Len(text) = 0 <=> text = <<>>) /\ DOMAIN text = 1 .. Len(text)
  BY LenProperties, EmptySeq DEF Texts
<1>2. \A j \in 0 .. Len(text) : SubSeq(text, 1, j) \in Seq(Bytes) /\ Len(SubSeq(text, 1, j)) = j
                                /\ \A i \in 1 .. j : SubSeq(text, 1, j)[i] = text[i]
  <2> TAKE j \in 0 .. Len(text)
  <2>1. SubSeq(text, 1, j) \in Seq(Bytes) /\ Len(SubSeq(text, 1, j)) = j
    BY SplitAt DEF Texts
  <2>2. \A i \in 1 .. j : SubSeq(text, 1, j)[i] = text[i]
    BY <1>1, SubSeqProperties
  <2> QED
    BY <2>1, <2>2
<1>3. Len(text) >= 1 => SubSeq(text, 1, 0) = <<>>
  <2> SUFFICES ASSUME Len(text) >= 1 PROVE SubSeq(text, 1, 0) = <<>>
    OBVIOUS
  <2>1. SubSeq(text, 1, 0) \in Seq(Bytes) /\ Len(SubSeq(text, 1, 0)) = 0
    BY <1>1, <1>2
  <2> QED
    BY <2>1, EmptySeq
<1>4. ASSUME NEW w \in Seq(Bytes), Len(w) = 1 PROVE w = <<w[1]>>
  BY <1>4
<1>5. ASSUME NEW w \in Seq(Bytes), Len(w) = 2 PROVE w = <<w[1], w[2]>>
  BY <1>5
<1>6. Len(text) >= 2 => SubSeq(text, 1, 1) = <<text[1]>>
  <2> SUFFICES ASSUME Len(text) >= 2 PROVE SubSeq(text, 1, 1) = <<text[1]>>
    OBVIOUS
  <2> DEFINE w == SubSeq(text, 1, 1)
  <2>1. w \in Seq(Bytes) /\ Len(w) = 1 /\ w[1] = text[1]
    BY <1>1, <1>2
  <2> HIDE DEF w
  <2> QED
    BY <1>4, <2>1 DEF w
<1>7. Len(text) >= 3 => SubSeq(text, 1, 2) = <<text[1], text[2]>>
  <2> SUFFICES ASSUME Len(text) >= 3 PROVE SubSeq(text, 1, 2) = <<text[1], text[2]>>
    OBVIOUS
  <2> DEFINE w == SubSeq(text, 1, 2)
  <2>1. w \in Seq(Bytes) /\ Len(w) = 2 /\ w[1] = text[1] /\ w[2] = text[2]
    BY <1>1, <1>2
  <2> HIDE DEF w
  <2> QED
    BY <1>5, <2>1 DEF w
<1> QED
  BY <1>1, <1>3, <1>4, <1>5, <1>6, <1>7

(* A byte of a literal is the one that is due. *)
(* A byte of a literal that is not refused is the one that is due.         *)
LEMMA AliveMatch ==
  ASSUME NEW s \in Scanners, s.phase \in {"Method", "Version"}, NEW lit, NEW phase, NEW reason,
         Literal(s.phase, lit, phase, reason), NEW byte, Alive(s, <<byte>>)
  PROVE  LET t == Consume(s, <<byte>>) IN
         /\ byte = lit[s.literal + 1]
         /\ s.literal + 1 # Len(lit) =>
              t.phase = s.phase /\ t.literal = s.literal + 1 /\ t \in Scanners
<1> DEFINE c == Counted(s)
           u == [c EXCEPT !.literal = @ + 1]
<1>1. /\ Consume(s, <<byte>>) = ScanByte(c, byte) /\ ScanByte(c, byte).phase # "Failed"
      /\ c \in Scanners /\ c.phase = s.phase /\ c.literal = s.literal
  <2>1. s.phase \notin {"Opaque", "Failed"}
    OBVIOUS
  <2>2. /\ Consume(s, <<byte>>) = ScanByte(c, byte) /\ ScanByte(c, byte).phase # "Failed"
        /\ c \in Scanners /\ SameFields(s, c)
    BY <2>1, AliveByte
  <2> QED
    BY <2>2 DEF SameFields
<1>2. ScanByte(c, byte) = Match(c, byte, lit, phase, reason)
  BY <1>1 DEF Literal
<1>3. Consume(s, <<byte>>) \in Scanners
  <2>1. Len(<<byte>>) \in Nat
    OBVIOUS
  <2> QED
    BY <2>1, ConsumeType
<1> HIDE DEF c
<1>4. u.literal = s.literal + 1 /\ u.phase = s.phase
  BY <1>1 DEF Scanners, ScannerType
<1>5. Reject(c, reason).phase = "Failed"
  BY <1>1 DEF Reject, Scanners, ScannerType
<1>6. byte = lit[u.literal]
  BY <1>1, <1>2, <1>5 DEF Match
<1>7. u.literal # Len(lit) => ScanByte(c, byte) = u
  BY <1>2, <1>6 DEF Match
<1> QED
  BY <1>1, <1>3, <1>4, <1>6, <1>7

(* The byte that must come next. *)
Expects(phase, byte) ==
  \A c \in Scanners : \A other : c.phase = phase /\ other # byte => ScanByte(c, other).phase = "Failed"

(* It is the only one that is not refused.                                 *)
LEMMA AliveNext ==
  ASSUME NEW s \in Scanners, s.phase \notin {"Opaque", "Failed"}, NEW byte, Alive(s, <<byte>>),
         NEW want, Expects(s.phase, want)
  PROVE  byte = want
<1>1. ScanByte(Counted(s), byte).phase # "Failed" /\ Counted(s) \in Scanners /\ SameFields(s, Counted(s))
  BY AliveByte
<1>2. Counted(s).phase = s.phase
  BY <1>1 DEF SameFields
<1> QED
  BY <1>1, <1>2 DEF Expects

(* A text that ends at its first x, where a literal and then x are due, is *)
(* the literal.                                                            *)
LEMMA LiteralIs ==
  ASSUME NEW s \in Scanners, s.literal = 0, NEW a, NEW b, NEW phase \in Phases, NEW reason,
         s.phase \in {"Method", "Version"}, phase \notin {"Opaque", "Failed"},
         Literal(s.phase, <<a, b>>, phase, reason),
         NEW x \in Bytes, x # a, x # b, Expects(phase, x),
         NEW text \in Texts, Lacks(text, x), Alive(s, text \o <<x>>)
  PROVE  text = <<a, b>> /\ s.bytes + 3 <= MaxHeader
<1> DEFINE n == Len(text)
           lit == <<a, b>>
           one == Consume(s, <<a>>)
<1>0. lit[1] = a /\ lit[2] = b /\ Len(lit) = 2 /\ 0 + 1 = 1 /\ 1 + 1 = 2 /\ 1 # 2 /\ <<x>> \in Texts
  BY DEF Texts
<1> HIDE DEF lit
<1>1. n \in Nat /\ (n = 0 <=> text = <<>>) /\ DOMAIN text = 1 .. n
  BY FirstBytes
<1>2. Alive(s, text) /\ Alive(Consume(s, text), <<x>>)
  BY <1>0, AliveSplit
<1> HIDE DEF n
<1>3. \A byte : Alive(s, <<byte>>) =>
        /\ byte = a
        /\ Consume(s, <<byte>>).phase = s.phase /\ Consume(s, <<byte>>).literal = 1
        /\ Consume(s, <<byte>>) \in Scanners
  <2> TAKE byte
  <2> SUFFICES ASSUME Alive(s, <<byte>>)
               PROVE  /\ byte = a
                      /\ Consume(s, <<byte>>).phase = s.phase /\ Consume(s, <<byte>>).literal = 1
                      /\ Consume(s, <<byte>>) \in Scanners
    OBVIOUS
  <2>1. Literal(s.phase, lit, phase, reason)
    BY DEF lit
  <2>2. /\ byte = lit[s.literal + 1]
        /\ s.literal + 1 # Len(lit) =>
             /\ Consume(s, <<byte>>).phase = s.phase /\ Consume(s, <<byte>>).literal = s.literal + 1
             /\ Consume(s, <<byte>>) \in Scanners
    BY <2>1, AliveMatch
  <2> QED
    BY <1>0, <2>2
<1>4. one \in Scanners /\ one.phase = s.phase /\ one.literal = 1 =>
        \A byte : Alive(one, <<byte>>) => byte = b
  <2> SUFFICES ASSUME one \in Scanners, one.phase = s.phase, one.literal = 1, NEW byte, Alive(one, <<byte>>)
               PROVE  byte = b
    OBVIOUS
  <2>1. Literal(one.phase, lit, phase, reason)
    BY DEF lit
  <2>2. byte = lit[one.literal + 1]
    <3> HIDE DEF one
    <3> QED
      BY <2>1, AliveMatch
  <2> QED
    BY <1>0, <2>2
<1> HIDE DEF one
<1>5. n # 0
  <2> SUFFICES ASSUME n = 0 PROVE FALSE
    OBVIOUS
  <2>1. Consume(s, text) = s
    BY <1>1, ConsumeNothing
  <2> QED
    BY <1>2, <1>3, <2>1
<1>6. Alive(s, <<text[1]>>)
  <2>1. 1 \in 1 .. Len(text) /\ 1 - 1 = 0 /\ Len(text) >= 1
    BY <1>1, <1>5 DEF n
  <2>2. Alive(Consume(s, SubSeq(text, 1, 1 - 1)), <<text[1]>>)
    BY <1>2, <2>1, AliveAt
  <2>3. SubSeq(text, 1, 0) = <<>>
    BY <2>1, FirstBytes
  <2>4. Consume(s, <<>>) = s
    BY ConsumeNothing
  <2> QED
    BY <2>1, <2>2, <2>3, <2>4
<1>7. text[1] = a /\ one \in Scanners /\ one.phase = s.phase /\ one.literal = 1
  BY <1>3, <1>6 DEF one
<1>8. n # 1
  <2> SUFFICES ASSUME n = 1 PROVE FALSE
    OBVIOUS
  <2>1. text = <<a>>
    BY <1>7, FirstBytes DEF n
  <2> QED
    BY <1>2, <1>4, <1>7, <2>1 DEF one
<1>9. text[2] = b
  <2>1. 2 \in 1 .. Len(text) /\ 2 - 1 = 1 /\ Len(text) >= 2
    BY <1>1, <1>5, <1>8 DEF n
  <2>2. Alive(Consume(s, SubSeq(text, 1, 2 - 1)), <<text[2]>>)
    BY <1>2, <2>1, AliveAt
  <2>3. SubSeq(text, 1, 1) = <<a>>
    BY <1>7, <2>1, FirstBytes
  <2> QED
    BY <1>4, <1>7, <2>1, <2>2, <2>3 DEF one
<1>10. one.bytes = s.bytes + 1 /\ s.bytes \in Nat /\ s.bytes + 2 <= MaxHeader
  <2>1. s.bytes \in Nat /\ s.bytes < MaxHeader /\ one = ScanByte(Counted(s), a)
        /\ Counted(s).bytes = s.bytes + 1
    <3>1. s.phase \notin {"Opaque", "Failed"}
      OBVIOUS
    <3> QED
      BY <1>6, <1>7, <3>1, AliveByte DEF one
  <2>2. one.bytes = s.bytes + 1
    <3> DEFINE c == Counted(s)
               u == [c EXCEPT !.literal = @ + 1]
    <3>1. c \in Scanners /\ SameFields(s, c)
      <4>1. s.phase \notin {"Opaque", "Failed"}
        OBVIOUS
      <4> QED
        BY <1>6, <4>1, AliveByte
    <3>2. ScanByte(c, a) = Match(c, a, lit, phase, reason) /\ c.literal = 0
      BY <3>1 DEF Literal, SameFields, lit
    <3> HIDE DEF c
    <3>3. u.literal = 1 /\ u.bytes = c.bytes
      BY <3>1, <3>2 DEF Scanners, ScannerType
    <3>4. Match(c, a, lit, phase, reason) = u
      BY <1>0, <3>3 DEF Match
    <3> QED
      BY <2>1, <3>2, <3>3, <3>4 DEF c
  <2>3. one.bytes < MaxHeader
    <3>1. Alive(one, <<text[2]>>)
      <4>1. 2 \in 1 .. Len(text) /\ 2 - 1 = 1 /\ Len(text) >= 2
        BY <1>1, <1>5, <1>8 DEF n
      <4>2. Alive(Consume(s, SubSeq(text, 1, 2 - 1)), <<text[2]>>)
        BY <1>2, <4>1, AliveAt
      <4>3. SubSeq(text, 1, 1) = <<a>>
        BY <1>7, <4>1, FirstBytes
      <4> QED
        BY <4>1, <4>2, <4>3 DEF one
    <3>2. one.phase \notin {"Opaque", "Failed"}
      BY <1>7
    <3> QED
      BY <1>7, <3>1, <3>2, AliveByte
  <2> QED
    BY <2>1, <2>2, <2>3, ScannerAssumption
<1>11. /\ SameHead(s, Consume(s, <<a, b>>), 2) /\ Consume(s, <<a, b>>).phase = phase
  BY <1>10, LiteralRead
<1> DEFINE two == Consume(s, <<a, b>>)
<1>12. two \in Scanners /\ two.bytes = s.bytes + 2 /\ two.phase = phase
  BY <1>11 DEF SameHead
<1>13. \A byte : Alive(two, <<byte>>) => byte = x
  <2> HIDE DEF two
  <2> QED
    BY <1>12, AliveNext
<1>14. n = 2
  <2> SUFFICES ASSUME n # 2 PROVE FALSE
    OBVIOUS
  <2>1. 3 \in 1 .. Len(text) /\ 3 - 1 = 2 /\ Len(text) >= 3
    BY <1>1, <1>5, <1>8 DEF n
  <2>2. Alive(Consume(s, SubSeq(text, 1, 3 - 1)), <<text[3]>>)
    BY <1>2, <2>1, AliveAt
  <2>3. SubSeq(text, 1, 2) = <<a, b>>
    BY <1>7, <1>9, <2>1, FirstBytes
  <2>4. text[3] = x
    BY <1>13, <2>1, <2>2, <2>3
  <2> QED
    BY <1>1, <2>1, <2>4 DEF Lacks, n
<1>15. text = <<a, b>>
  BY <1>7, <1>9, <1>14, FirstBytes DEF n
<1>16. two.bytes < MaxHeader
  <2>1. Alive(two, <<x>>)
    BY <1>2, <1>15
  <2> HIDE DEF two
  <2> QED
    BY <1>12, <2>1, AliveByte
<1> QED
  BY <1>10, <1>12, <1>15, <1>16, ScannerAssumption

Blank == <<" ">>
NoBlank(text) == Lacks(text, " ")

(* A target that ends at its first space is well formed. *)
LEMMA TargetIs ==
  ASSUME NEW s \in Scanners, s.phase = "TargetStart",
         NEW text \in Texts, NoBlank(text), Alive(s, text \o Blank)
  PROVE  /\ text # <<>> /\ text[1] = "/" /\ Len(text) <= MaxTarget
         /\ \A i \in 1 .. Len(text) : IsTarget(text[i])
         /\ s.bytes + Len(text) <= MaxHeader
<1> DEFINE n == Len(text)
           Right(i) == IsTarget(text[i]) /\ i <= MaxTarget /\ s.bytes + i <= MaxHeader
           Wrong == {i \in 1 .. n : ~Right(i)}
<1>0. Blank \in Texts
  <2>1. " " \in Bytes
    BY DEF Bytes
  <2> QED
    BY <2>1, Pair, Zenon DEF Texts, Blank
<1>1. n \in Nat /\ (n = 0 <=> text = <<>>) /\ DOMAIN text = 1 .. n
  BY FirstBytes
<1>2. Alive(s, text) /\ Alive(Consume(s, text), Blank)
  BY <1>0, AliveSplit
<1>3. s.bytes \in Nat /\ MaxHeader \in Nat /\ MaxTarget \in Nat /\ MaxTarget >= 1
  BY ScannerAssumption DEF Scanners, ScannerType
<1>4. ASSUME NEW byte, Alive(s, <<byte>>) PROVE byte = "/" /\ s.bytes + 1 <= MaxHeader
  <2>1. Expects(s.phase, "/")
    <3> SUFFICES ASSUME NEW c \in Scanners, NEW other, c.phase = "TargetStart", other # "/"
                 PROVE  ScanByte(c, other).phase = "Failed"
      BY DEF Expects
    <3> DEFINE b == [c EXCEPT !.target = 1, !.onTarget = TRUE]
    <3>1. ScanByte(c, other) = Reject(b, "RequestTarget")
      BY DEF ScanByte, Expect
    <3> QED
      BY <3>1 DEF Reject, Scanners, ScannerType
  <2>2. s.phase \notin {"Opaque", "Failed"}
    OBVIOUS
  <2>3. byte = "/"
    BY <1>4, <2>1, <2>2, AliveNext
  <2>4. s.bytes < MaxHeader
    BY <1>4, <2>2, AliveByte
  <2> QED
    BY <1>3, <2>3, <2>4
<1> HIDE DEF n
<1>5. n # 0
  <2> SUFFICES ASSUME n = 0 PROVE FALSE
    OBVIOUS
  <2>1. Consume(s, text) = s
    BY <1>1, ConsumeNothing
  <2>2. Alive(s, <<" ">>)
    BY <1>2, <2>1 DEF Blank
  <2>3. " " = "/"
    BY <1>4, <2>2, Zenon
  <2>4. " " # "/"
    OBVIOUS
  <2> QED
    BY <2>3, <2>4
<1>6. text[1] = "/" /\ s.bytes + 1 <= MaxHeader
  <2>1. 1 \in 1 .. Len(text) /\ 1 - 1 = 0 /\ Len(text) >= 1
    BY <1>1, <1>5 DEF n
  <2>2. Alive(Consume(s, SubSeq(text, 1, 1 - 1)), <<text[1]>>)
    BY <1>2, <2>1, AliveAt
  <2>3. SubSeq(text, 1, 0) = <<>>
    BY <2>1, FirstBytes
  <2>4. Consume(s, <<>>) = s
    BY ConsumeNothing
  <2> QED
    BY <1>4, <2>1, <2>2, <2>3, <2>4
<1>7. Right(1)
  BY <1>3, <1>6 DEF IsTarget, Controls
<1> HIDE DEF Right
<1>8. Wrong = {}
  <2> SUFFICES ASSUME Wrong # {} PROVE FALSE
    OBVIOUS
  <2>1. PICK m \in Wrong : \A k \in Wrong : m <= k
    <3>1. Wrong \subseteq Nat
      BY <1>1
    <3> HIDE DEF Wrong
    <3> QED
      BY <3>1, LeastNatural
  <2> DEFINE p == SubSeq(text, 1, m - 1)
             t == Consume(s, p)
             c == Counted(t)
             byte == text[m]
  <2>2. m \in 1 .. Len(text) /\ m # 1 /\ m - 1 \in Nat /\ m - 1 >= 1 /\ (m - 1) + 1 = m /\ ~Right(m)
    BY <1>1, <1>7, <2>1 DEF n
  <2>3. \A k \in 1 .. m - 1 : Right(k)
    BY <1>1, <2>1, <2>2 DEF n
  <2>4. p \in Texts /\ Len(p) = m - 1 /\ \A j \in 1 .. m - 1 : p[j] = text[j]
    BY <2>2, OneMore
  <2>5. t \in Scanners /\ Alive(t, <<byte>>)
    BY <1>2, <2>2, AliveAt
  <2>6. byte # " "
    BY <1>1, <2>2 DEF NoBlank, Lacks, n
  <2> HIDE DEF p, byte, Wrong
  <2>7. TargetRead(s, t, p, m - 1)
    <3>1. p # <<>>
      BY <2>2, <2>4, FirstBytes
    <3>2. 1 \in 1 .. m - 1 /\ m - 1 \in 1 .. m - 1
      BY <2>2
    <3>3. p[1] = "/" /\ \A i \in 1 .. Len(p) : IsTarget(p[i])
      BY <1>6, <2>3, <2>4, <3>2 DEF Right
    <3>4. Len(p) <= MaxTarget /\ s.bytes + Len(p) <= MaxHeader
      BY <2>3, <2>4, <3>2 DEF Right
    <3>5. TargetRead(s, Consume(s, p), p, Len(p))
      BY <2>4, <3>1, <3>3, <3>4, TargetIsRead
    <3> QED
      BY <2>4, <3>5
  <2>8. t.phase = "Target" /\ t.target = m - 1 /\ t.bytes = s.bytes + (m - 1)
    BY <2>7 DEF TargetRead, SameHead
  <2> HIDE DEF t
  <2>9. t.phase \notin {"Opaque", "Failed"}
    BY <2>8
  <2>10. /\ t.bytes < MaxHeader /\ ScanByte(c, byte).phase # "Failed"
         /\ c \in Scanners /\ SameFields(t, c)
    BY <2>5, <2>9, AliveByte
  <2>11. c.phase = "Target" /\ c.target = m - 1
    BY <2>8, <2>10 DEF SameFields
  <2>12. ScanByte(c, byte) = TargetByte(c, byte)
    BY <2>11 DEF ScanByte
  <2>13. Reject(c, "RequestTarget").phase = "Failed"
    BY <2>10 DEF Reject, Scanners, ScannerType
  <2>14. IsTarget(byte) /\ ~(c.target + 1 > MaxTarget)
    <3> HIDE DEF c
    <3> QED
      BY <2>6, <2>10, <2>12, <2>13 DEF TargetByte
  <2>15. m <= MaxTarget
    BY <1>3, <2>2, <2>11, <2>14
  <2>16. s.bytes + m <= MaxHeader
    BY <1>3, <2>2, <2>8, <2>10
  <2>17. IsTarget(text[m])
    BY <2>14 DEF byte
  <2> QED
    BY <2>2, <2>15, <2>16, <2>17 DEF Right
<1>9. \A i \in 1 .. n : Right(i)
  BY <1>8
<1>10. n \in 1 .. n /\ n <= MaxTarget /\ s.bytes + n <= MaxHeader
  BY <1>1, <1>5, <1>9 DEF Right
<1>11. \A i \in 1 .. n : IsTarget(text[i])
  BY <1>9 DEF Right
<1>12. text # <<>>
  BY <1>1, <1>5
<1> QED
  BY <1>6, <1>10, <1>11, <1>12 DEF n

NoColon(text) == Lacks(text, ":")
NoCr(text) == Lacks(text, "cr")
IsColon(byte) == byte = ":"

(* The colon is no part of a name.                                         *)
LEMMA ColonIs ==
  /\ Colon \in Texts /\ IsColon(":") /\ ~IsToken(":") /\ ":" # "cr"
  /\ \A s : Alive(s, Colon) <=> Alive(s, <<":">>)
<1>1. ":" \in Bytes
  BY Zenon DEF Bytes
<1>2. Colon \in Texts
  BY <1>1, Pair, Zenon DEF Texts, Colon
<1>3. ~IsToken(":") /\ ":" # "cr" /\ IsColon(":")
  BY Zenon DEF IsToken, Letters, IsColon
<1>4. \A s : Alive(s, Colon) <=> Alive(s, <<":">>)
  BY Zenon DEF Colon
<1> QED
  BY <1>2, <1>3, <1>4, Zenon

(* The first byte of a line that is not the last one. *)
LEMMA NameStarts ==
  ASSUME NEW s \in Scanners, s.phase = "HeaderLineStart", NEW byte, byte # "cr", Alive(s, <<byte>>)
  PROVE  IsToken(byte) /\ s.bytes + 1 <= MaxHeader
<1> DEFINE c == Counted(s)
<1>1. s.phase \notin {"Opaque", "Failed"}
  OBVIOUS
<1>2. /\ s.bytes < MaxHeader /\ s.bytes \in Nat
      /\ ScanByte(c, byte).phase # "Failed" /\ c \in Scanners /\ SameFields(s, c)
  BY <1>1, AliveByte
<1>3. c.phase = "HeaderLineStart"
  BY <1>2 DEF SameFields
<1> HIDE DEF c
<1>4. Reject(c, "ObsFold").phase = "Failed" /\ Reject(c, "MalformedHeader").phase = "Failed"
  BY <1>2 DEF Reject, Scanners, ScannerType
<1>5. IsToken(byte)
  <2> SUFFICES ASSUME ~IsToken(byte) PROVE FALSE
    OBVIOUS
  <2>1. ScanByte(c, byte) \in {Reject(c, "ObsFold"), Reject(c, "MalformedHeader")}
    <3>1. ScanByte(c, byte) = IF byte \in {" ", "tab"} THEN Reject(c, "ObsFold") ELSE Reject(c, "MalformedHeader")
      BY <1>3 DEF ScanByte
    <3> QED
      BY <3>1, Zenon
  <2> QED
    BY <1>2, <1>4, <2>1
<1> QED
  BY <1>2, <1>5, ScannerAssumption

(* A byte of a name. *)
LEMMA NameGoesOn ==
  ASSUME NEW s \in Scanners, s.phase = "FieldName", NEW byte, ~IsColon(byte), Alive(s, <<byte>>)
  PROVE  IsToken(byte) /\ s.name < MaxName /\ s.bytes + 1 <= MaxHeader
<1> DEFINE c == Counted(s)
<1>1. s.phase \notin {"Opaque", "Failed"}
  OBVIOUS
<1>2. /\ s.bytes < MaxHeader /\ s.bytes \in Nat
      /\ ScanByte(c, byte).phase # "Failed" /\ c \in Scanners /\ SameFields(s, c)
  BY <1>1, AliveByte
<1>3. c.phase = "FieldName" /\ c.name = s.name
  BY <1>2 DEF SameFields
<1> HIDE DEF c
<1>4. Reject(c, "FieldNameTooLong").phase = "Failed" /\ Reject(c, "MalformedHeader").phase = "Failed"
  BY <1>2 DEF Reject, Scanners, ScannerType
<1>5. ScanByte(c, byte) =
        IF ~IsToken(byte) THEN Reject(c, "MalformedHeader")
        ELSE IF c.name >= MaxName THEN Reject(c, "FieldNameTooLong")
        ELSE AddFieldNameByte(c, byte)
  BY <1>3 DEF ScanByte, IsColon
<1>6. IsToken(byte) /\ ~(c.name >= MaxName)
  BY <1>2, <1>4, <1>5
<1>7. c.name \in Nat /\ MaxName \in Nat
  BY <1>2, ScannerAssumption DEF Scanners, ScannerType
<1> QED
  BY <1>2, <1>3, <1>6, <1>7, ScannerAssumption

(* A name that ends at its first colon is well formed. *)
LEMMA NameFormed ==
  ASSUME NEW s \in Scanners, s.phase = "HeaderLineStart",
         NEW text \in Texts, NoColon(text), NoCr(text), Alive(s, text \o Colon)
  PROVE  /\ text # <<>> /\ Len(text) <= MaxName
         /\ \A i \in 1 .. Len(text) : IsToken(text[i])
         /\ s.bytes + Len(text) <= MaxHeader
<1> DEFINE n == Len(text)
           Right(i) == IsToken(text[i]) /\ i <= MaxName /\ s.bytes + i <= MaxHeader
           Wrong == {i \in 1 .. n : ~Right(i)}
<1>1. n \in Nat /\ (n = 0 <=> text = <<>>) /\ DOMAIN text = 1 .. n
  BY FirstBytes
<1>2. Alive(s, text) /\ Alive(Consume(s, text), Colon)
  BY ColonIs, AliveSplit
<1>3. s.bytes \in Nat /\ MaxHeader \in Nat /\ MaxName \in Nat /\ MaxName >= 1
  BY ScannerAssumption DEF Scanners, ScannerType
<1>4. \A i \in 1 .. n : text[i] # "cr" /\ ~IsColon(text[i])
  BY <1>1 DEF NoCr, NoColon, Lacks, IsColon
<1> HIDE DEF n
<1>5. n # 0
  <2> SUFFICES ASSUME n = 0 PROVE FALSE
    OBVIOUS
  <2>1. Consume(s, text) = s
    BY <1>1, ConsumeNothing
  <2>2. Alive(s, <<":">>)
    BY <1>2, <2>1, ColonIs, Zenon
  <2>3. ":" # "cr" /\ ~IsToken(":")
    BY ColonIs, Zenon
  <2>4. \A byte : byte # "cr" /\ Alive(s, <<byte>>) => IsToken(byte)
    BY NameStarts
  <2> QED
    BY <2>2, <2>3, <2>4, Zenon
<1>6. Right(1)
  <2>1. 1 \in 1 .. Len(text) /\ 1 - 1 = 0 /\ Len(text) >= 1 /\ 1 \in 1 .. n
    BY <1>1, <1>5 DEF n
  <2>2. Alive(Consume(s, SubSeq(text, 1, 1 - 1)), <<text[1]>>)
    BY <1>2, <2>1, AliveAt
  <2>3. SubSeq(text, 1, 0) = <<>>
    BY <2>1, FirstBytes
  <2>4. Consume(s, <<>>) = s
    BY ConsumeNothing
  <2>5. Alive(s, <<text[1]>>) /\ text[1] # "cr"
    BY <1>4, <2>1, <2>2, <2>3, <2>4
  <2>6. IsToken(text[1]) /\ s.bytes + 1 <= MaxHeader
    BY <2>5, NameStarts
  <2> QED
    BY <1>3, <2>6
<1> HIDE DEF Right
<1>8. Wrong = {}
  <2> SUFFICES ASSUME Wrong # {} PROVE FALSE
    OBVIOUS
  <2>1. PICK m \in Wrong : \A k \in Wrong : m <= k
    <3>1. Wrong \subseteq Nat
      BY <1>1
    <3> HIDE DEF Wrong
    <3> QED
      BY <3>1, LeastNatural
  <2> DEFINE p == SubSeq(text, 1, m - 1)
             t == Consume(s, p)
             byte == text[m]
  <2>2. m \in 1 .. Len(text) /\ m # 1 /\ m - 1 \in Nat /\ m - 1 >= 1 /\ (m - 1) + 1 = m /\ ~Right(m)
    BY <1>1, <1>6, <2>1 DEF n
  <2>3. \A k \in 1 .. m - 1 : Right(k)
    BY <1>1, <2>1, <2>2 DEF n
  <2>4. p \in Texts /\ Len(p) = m - 1 /\ \A j \in 1 .. m - 1 : p[j] = text[j]
    BY <2>2, OneMore
  <2>5. t \in Scanners /\ Alive(t, <<byte>>)
    BY <1>2, <2>2, AliveAt
  <2>6. ~IsColon(byte)
    BY <1>4, <2>2 DEF n
  <2> HIDE DEF p, byte, Wrong
  <2>7. NameRead(s, t, p, m - 1)
    <3>1. p # <<>>
      BY <2>2, <2>4, FirstBytes
    <3>2. m - 1 \in 1 .. m - 1
      BY <2>2
    <3>3. \A i \in 1 .. Len(p) : IsToken(p[i])
      BY <2>3, <2>4 DEF Right
    <3>4. Len(p) <= MaxName /\ s.bytes + Len(p) <= MaxHeader
      BY <2>3, <2>4, <3>2 DEF Right
    <3>5. NameRead(s, Consume(s, p), p, Len(p))
      BY <2>4, <3>1, <3>3, <3>4, NameIsRead
    <3> QED
      BY <2>4, <3>5
  <2>8. t.phase = "FieldName" /\ t.name = m - 1 /\ t.bytes = s.bytes + (m - 1)
    BY <2>7 DEF NameRead, SameHead
  <2> HIDE DEF t
  <2>9. IsToken(byte) /\ t.name < MaxName /\ t.bytes + 1 <= MaxHeader
    BY <2>5, <2>6, <2>8, NameGoesOn
  <2>10. m <= MaxName /\ s.bytes + m <= MaxHeader
    BY <1>3, <2>2, <2>8, <2>9
  <2> QED
    BY <2>2, <2>9, <2>10 DEF Right, byte
<1>9. \A i \in 1 .. n : Right(i)
  BY <1>8
<1>10. n <= MaxName /\ s.bytes + n <= MaxHeader
  <2>1. n \in 1 .. n
    BY <1>1, <1>5
  <2> QED
    BY <1>9, <2>1 DEF Right
<1>11. \A i \in 1 .. n : IsToken(text[i])
  BY <1>9 DEF Right
<1>12. text # <<>>
  BY <1>1, <1>5
<1> QED
  BY <1>10, <1>11, <1>12 DEF n

(* A name that the request may have: otherwise its colon is refused. *)
LEMMA KindIsFit ==
  ASSUME NEW s \in Scanners, NEW text \in Texts, s.phase = "FieldName", s.name = Len(text),
         s.candidates = {k \in FieldKinds : Prefix(Lowered(text), Len(text), kFieldNames[k])},
         Alive(s, Colon)
  PROVE  KindFits(s, KindOf(text)) /\ s.bytes < MaxHeader
<1> DEFINE c == Counted(s)
           kind == KindOf(text)
           byte == ":"
<1>1. s.phase \notin {"Opaque", "Failed"} /\ Alive(s, <<byte>>) /\ IsColon(byte)
  <2>1. Alive(s, <<":">>) /\ IsColon(":")
    BY ColonIs, Zenon
  <2>2. s.phase \notin {"Opaque", "Failed"}
    OBVIOUS
  <2> QED
    BY <2>1, <2>2, Zenon
<1> HIDE DEF byte
<1>2. /\ s.bytes < MaxHeader
      /\ ScanByte(c, byte).phase # "Failed" /\ c \in Scanners /\ SameFields(s, c)
  BY <1>1, AliveByte
<1>3. /\ c.phase = "FieldName" /\ c.name = Len(text) /\ c.stream = s.stream /\ c.saw = s.saw
      /\ c.candidates = s.candidates
  BY <1>2 DEF SameFields
<1> HIDE DEF c
<1>4. ClassifyField(c) = kind
  BY <1>3, NameClassified
<1>5. \A reason : Reject(c, reason).phase = "Failed"
  BY <1>2 DEF Reject, Scanners, ScannerType
<1>6. ScanByte(c, byte) = BeginValue(c)
  BY <1>1, <1>3 DEF ScanByte, IsColon
<1> HIDE DEF kind, byte
<1>7. kind \notin {"contentLength", "transferEncoding"}
  BY <1>2, <1>4, <1>5, <1>6 DEF BeginValue
<1>8. kind = "upgrade" => c.stream
  BY <1>2, <1>4, <1>5, <1>6, <1>7 DEF BeginValue
<1>9. c.stream /\ kind \in Watched => kind \notin c.saw
  BY <1>2, <1>4, <1>5, <1>6, <1>7, <1>8 DEF BeginValue, Watched
<1> QED
  BY <1>2, <1>3, <1>7, <1>8, <1>9 DEF KindFits, kind

(* A byte of a value. *)
ByteFits(kind, byte, i) ==
  /\ byte \notin Controls /\ i <= MaxValue
  /\ kind = "origin" => i <= MaxOrigin /\ ~IsSeparator(byte)

(* A byte of a value is refused or counted.                                *)
LEMMA ValueGoesOn ==
  ASSUME NEW s \in Scanners, s.phase = "Value", NEW byte, byte # "cr", Alive(s, <<byte>>)
  PROVE  ByteFits(s.kind, byte, s.value + 1) /\ s.bytes + 1 <= MaxHeader
<1> DEFINE c == Counted(s)
           i == c.value + 1
<1>1. s.phase \notin {"Opaque", "Failed"}
  OBVIOUS
<1>2. /\ s.bytes < MaxHeader /\ s.bytes \in Nat
      /\ ScanByte(c, byte).phase # "Failed" /\ c \in Scanners /\ SameFields(s, c)
  BY <1>1, AliveByte
<1>3. c.phase = "Value" /\ c.value = s.value /\ c.kind = s.kind
  BY <1>2 DEF SameFields
<1> HIDE DEF c
<1>4. \A reason : Reject(c, reason).phase = "Failed"
  BY <1>2 DEF Reject, Scanners, ScannerType
<1>5. ScanByte(c, byte) = IF byte = "lf" THEN Reject(c, "BareLf") ELSE AddValueByte(c, byte)
  BY <1>3 DEF ScanByte
<1>6. ScanByte(c, byte) = AddValueByte(c, byte)
  BY <1>2, <1>4, <1>5
<1>7. byte \notin Controls
  BY <1>2, <1>4, <1>6 DEF AddValueByte
<1>8. ~(i > MaxValue)
  BY <1>2, <1>4, <1>6, <1>7 DEF AddValueByte
<1>9. c.kind = "origin" => ~(i > MaxOrigin) /\ ~IsSeparator(byte)
  <2> SUFFICES ASSUME c.kind = "origin", i > MaxOrigin \/ IsSeparator(byte) PROVE FALSE
    OBVIOUS
  <2> DEFINE bad == i > MaxOrigin \/ IsSeparator(byte)
             u == [c EXCEPT !.value = i,
                            !.matches = @ /\ Prefixed(byte, i, ExpectedOrigin),
                            !.isNull = @ /\ Prefixed(byte, i, kNull)]
  <2>1. AddValueByte(c, byte) = IF bad THEN Reject(c, "MalformedOrigin") ELSE u
    BY <1>7, <1>8, Zenon DEF AddValueByte, IsSeparator
  <2>2. bad
    OBVIOUS
  <2> HIDE DEF bad, u
  <2>3. AddValueByte(c, byte) = Reject(c, "MalformedOrigin")
    BY <2>1, <2>2
  <2> QED
    BY <1>2, <1>4, <1>6, <2>3
<1>10. i \in Nat /\ MaxValue \in Nat /\ MaxOrigin \in Nat
  BY <1>2, ScannerAssumption DEF Scanners, ScannerType
<1>11. i = s.value + 1
  BY <1>3
<1> HIDE DEF i
<1>12. i <= MaxValue /\ (c.kind = "origin" => i <= MaxOrigin /\ ~IsSeparator(byte))
  BY <1>8, <1>9, <1>10
<1> QED
  BY <1>2, <1>3, <1>7, <1>11, <1>12, ScannerAssumption DEF ByteFits

(* A value that ends at its first carriage return is well formed. *)
LEMMA ValueFormed ==
  ASSUME NEW s \in Scanners, ValueStart(s), NEW text \in Texts, NoCr(text), Alive(s, text)
  PROVE  /\ Len(text) <= MaxValue /\ OriginText(s.kind, text)
         /\ \A i \in 1 .. Len(text) : text[i] \notin Controls
         /\ s.bytes + Len(text) <= MaxHeader
<1> DEFINE n == Len(text)
           Right(i) == ByteFits(s.kind, text[i], i) /\ s.bytes + i <= MaxHeader
           Wrong == {i \in 1 .. n : ~Right(i)}
<1>1. n \in Nat /\ (n = 0 <=> text = <<>>) /\ DOMAIN text = 1 .. n
  BY FirstBytes
<1>2. s.phase = "Value" /\ s.value = 0
  BY DEF ValueStart
<1>3. s.bytes \in Nat /\ MaxHeader \in Nat /\ MaxValue \in Nat /\ MaxOrigin \in Nat /\ s.bytes <= MaxHeader
  BY <1>2, ScannerAssumption DEF Scanners, ScannerType
<1>4. \A i \in 1 .. n : text[i] # "cr"
  BY <1>1 DEF NoCr, Lacks
<1> HIDE DEF n, Right
<1>8. Wrong = {}
  <2> SUFFICES ASSUME Wrong # {} PROVE FALSE
    OBVIOUS
  <2>1. PICK m \in Wrong : \A k \in Wrong : m <= k
    <3>1. Wrong \subseteq Nat
      BY <1>1
    <3> HIDE DEF Wrong
    <3> QED
      BY <3>1, LeastNatural
  <2> DEFINE p == SubSeq(text, 1, m - 1)
             t == Consume(s, p)
             byte == text[m]
  <2>2. m \in 1 .. Len(text) /\ m - 1 \in Nat /\ (m - 1) + 1 = m /\ ~Right(m)
    BY <1>1, <2>1 DEF n
  <2>3. \A k \in 1 .. m - 1 : Right(k)
    BY <1>1, <2>1, <2>2 DEF n
  <2>4. p \in Texts /\ Len(p) = m - 1 /\ \A j \in 1 .. m - 1 : p[j] = text[j]
    BY <2>2, OneMore
  <2>5. t \in Scanners /\ Alive(t, <<byte>>)
    BY <2>2, AliveAt
  <2>6. byte # "cr"
    BY <1>4, <2>2 DEF n
  <2> HIDE DEF p, byte, Wrong
  <2>7. ValueRead(s, t, p, m - 1)
    <3>1. m - 1 = 0 \/ m - 1 \in 1 .. m - 1
      BY <2>2
    <3>2. \A i \in 1 .. Len(p) : p[i] \notin Controls
      BY <2>3, <2>4 DEF Right, ByteFits
    <3>3. s.bytes + Len(p) <= MaxHeader /\ Len(p) <= MaxValue
      BY <1>3, <2>3, <2>4, <3>1 DEF Right, ByteFits
    <3>4. OriginText(s.kind, p)
      <4> SUFFICES ASSUME s.kind = "origin"
                   PROVE  Len(p) <= MaxOrigin /\ \A i \in 1 .. Len(p) : ~IsSeparator(p[i])
        BY DEF OriginText
      <4>1. \A i \in 1 .. m - 1 : i <= MaxOrigin /\ ~IsSeparator(text[i])
        BY <2>3 DEF Right, ByteFits
      <4> QED
        BY <1>3, <2>4, <3>1, <4>1
    <3>5. ValueRead(s, Consume(s, p), p, Len(p))
      BY <2>4, <3>2, <3>3, <3>4, ValueIsRead
    <3> QED
      BY <2>4, <3>5
  <2>8. t.phase = "Value" /\ t.value = m - 1 /\ t.kind = s.kind /\ t.bytes = s.bytes + (m - 1)
    BY <2>7 DEF ValueRead, SameHead
  <2> HIDE DEF t
  <2>9. ByteFits(t.kind, byte, t.value + 1) /\ t.bytes + 1 <= MaxHeader
    BY <2>5, <2>6, <2>8, ValueGoesOn
  <2>10. ByteFits(s.kind, byte, m) /\ s.bytes + m <= MaxHeader
    BY <1>3, <2>2, <2>8, <2>9
  <2> QED
    BY <2>2, <2>10 DEF Right, byte
<1>9. \A i \in 1 .. n : Right(i)
  BY <1>8
<1>10. n = 0 \/ n \in 1 .. n
  BY <1>1
<1>11. \A i \in 1 .. n : text[i] \notin Controls
  BY <1>9 DEF Right, ByteFits
<1>12. n <= MaxValue /\ s.bytes + n <= MaxHeader
  BY <1>3, <1>9, <1>10 DEF Right, ByteFits
<1>13. OriginText(s.kind, text)
  <2> SUFFICES ASSUME s.kind = "origin"
               PROVE  n <= MaxOrigin /\ \A i \in 1 .. n : ~IsSeparator(text[i])
    BY DEF OriginText, n
  <2>1. \A i \in 1 .. n : i <= MaxOrigin /\ ~IsSeparator(text[i])
    BY <1>9 DEF Right, ByteFits
  <2> QED
    BY <1>3, <1>10, <2>1
<1> QED
  BY <1>11, <1>12, <1>13 DEF n

(* A value that is not refused at its end is what it must be. *)
LEMMA ValueIsFit ==
  ASSUME NEW c \in Scanners, NEW text \in Texts, c.value = Len(text),
         Matched(c, text, Len(text)), FinishValue(c).phase # "Failed"
  PROVE  ValueFits(c.kind, text) /\ FinishValue(c) = Goto(c, "FieldLf")
<1>0. \A reason : Reject(c, reason).phase = "Failed"
  BY DEF Reject, Scanners, ScannerType
<1>1. /\ ExpectedOrigin \in Seq(Bytes) /\ kUpgradeValue \in Seq(Bytes)
      /\ kConnectionValue \in Seq(Bytes)
  <2>1. \A a, b \in Bytes : <<a, b>> \in Seq(Bytes)
    OBVIOUS
  <2>2. {"h", "a", "w", "s", "u", "g"} \subseteq Bytes
    BY DEF Bytes, Letters
  <2> QED
    BY <2>1, <2>2 DEF ExpectedOrigin, kUpgradeValue, kConnectionValue
<1>2. c.kind = "origin" => text = ExpectedOrigin
  <2> SUFFICES ASSUME c.kind = "origin" PROVE text = ExpectedOrigin
    OBVIOUS
  <2>1. c.matches /\ c.value = Len(ExpectedOrigin)
    BY <1>0 DEF FinishValue
  <2>2. Prefix(text, Len(text), ExpectedOrigin)
    BY <2>1 DEF Matched
  <2> QED
    BY <1>1, <2>1, <2>2, PrefixWhole DEF Texts
<1> DEFINE low == Lowered(text)
<1>3. low \in Seq(Bytes) /\ Len(low) = Len(text)
  BY LoweredType
<1>4. c.kind = "upgrade" => low = kUpgradeValue
  <2> SUFFICES ASSUME c.kind = "upgrade" PROVE low = kUpgradeValue
    OBVIOUS
  <2>1. c.matches /\ c.value = Len(kUpgradeValue)
    BY <1>0 DEF FinishValue
  <2>2. Prefix(low, Len(low), kUpgradeValue)
    BY <1>3, <2>1 DEF Matched
  <2> HIDE DEF low
  <2> QED
    BY <1>1, <1>3, <2>1, <2>2, PrefixWhole
<1>5. c.kind = "connection" => low = kConnectionValue
  <2> SUFFICES ASSUME c.kind = "connection" PROVE low = kConnectionValue
    OBVIOUS
  <2>1. c.matches /\ c.value = Len(kConnectionValue)
    BY <1>0 DEF FinishValue
  <2>2. Prefix(low, Len(low), kConnectionValue)
    BY <1>3, <2>1 DEF Matched
  <2> HIDE DEF low
  <2> QED
    BY <1>1, <1>3, <2>1, <2>2, PrefixWhole
<1>6. ValueFits(c.kind, text)
  BY <1>2, <1>4, <1>5 DEF ValueFits
<1>7. c \in ScannerType
  BY DEF Scanners
<1> QED
  BY <1>6, <1>7, ValuePasses

(* The two bytes of an end of line.                                        *)
LEMMA EolSplits ==
  ASSUME NEW s \in Scanners, Alive(s, <<"cr", "lf">>)
  PROVE  LET t == Consume(s, <<"cr">>) IN
         /\ Alive(s, <<"cr">>) /\ t \in Scanners /\ Alive(t, <<"lf">>)
         /\ Consume(s, <<"cr", "lf">>) = Consume(t, <<"lf">>)
<1> DEFINE a == <<"cr">>
           b == <<"lf">>
<1>1. a \in Texts /\ b \in Texts /\ a \o b = <<"cr", "lf">>
  <2>1. "cr" \in Bytes /\ "lf" \in Bytes
    BY DEF Bytes, Controls
  <2> QED
    BY <2>1, Pair DEF Texts
<1> HIDE DEF a, b
<1>2. Alive(s, a \o b)
  BY <1>1
<1>3. /\ Alive(s, a) /\ Consume(s, a) \in Scanners /\ Alive(Consume(s, a), b)
      /\ Consume(s, a \o b) = Consume(Consume(s, a), b)
  BY <1>1, <1>2, AliveSplit
<1> QED
  BY <1>1, <1>3, Zenon DEF a, b

(* A value and the end of its line.                                        *)
LEMMA ValueEndsFit ==
  ASSUME NEW s \in Scanners, s.phase = "Value", NEW text \in Texts, s.value = Len(text),
         Matched(s, text, Len(text)), Alive(s, <<"cr", "lf">>)
  PROVE  ValueFits(s.kind, text) /\ s.bytes + 2 <= MaxHeader
<1> DEFINE c == Counted(s)
           t == Consume(s, <<"cr">>)
<1>1. Alive(s, <<"cr">>) /\ t \in Scanners /\ Alive(t, <<"lf">>)
  BY EolSplits
<1>2. s.phase \notin {"Opaque", "Failed"}
  OBVIOUS
<1>3. /\ s.bytes < MaxHeader /\ s.bytes \in Nat /\ t = ScanByte(c, "cr") /\ c.bytes = s.bytes + 1
      /\ ScanByte(c, "cr").phase # "Failed" /\ c \in Scanners /\ SameFields(s, c)
  BY <1>1, <1>2, AliveByte
<1>4. /\ c.phase = "Value" /\ c.value = Len(text) /\ c.kind = s.kind
      /\ c.matches = s.matches /\ c.isNull = s.isNull
  BY <1>3 DEF SameFields
<1>5. Matched(c, text, Len(text))
  BY <1>4 DEF Matched
<1> HIDE DEF c, t
<1>6. ScanByte(c, "cr") = FinishValue(c)
  BY <1>4 DEF ScanByte
<1>7. ValueFits(c.kind, text) /\ t = Goto(c, "FieldLf")
  BY <1>3, <1>4, <1>5, <1>6, ValueIsFit
<1>8. t.phase = "FieldLf" /\ t.bytes = c.bytes
  BY <1>3, <1>7 DEF Goto, Scanners, ScannerType
<1>9. t.bytes < MaxHeader
  <2>1. t.phase \notin {"Opaque", "Failed"}
    BY <1>8
  <2> QED
    BY <1>1, <2>1, AliveByte
<1>10. s.bytes + 2 <= MaxHeader
  BY <1>3, <1>8, <1>9, ScannerAssumption
<1> QED
  BY <1>4, <1>7, <1>10

(* A field that has no byte in it that ends it.                            *)
FieldFramed(f) == NoColon(f.name) /\ NoCr(f.name) /\ NoCr(f.value)

(* A framed field that is not refused is as a field must be.               *)
LEMMA FieldSound ==
  ASSUME NEW s \in Scanners, s.phase = "HeaderLineStart",
         NEW r \in RequestType, r.sep = Separator, r.eol = <<"cr", "lf">>,
         NEW f \in FieldType, FieldFramed(f), Alive(s, FieldText(r, f))
  PROVE  /\ FieldFormed(f)
         /\ KindFits(s, KindOf(f.name)) /\ ValueFits(Kept(s, KindOf(f.name)), f.value)
         /\ s.bytes + Len(FieldText(r, f)) <= MaxHeader
<1> DEFINE name == f.name
           value == f.value
           kind == KindOf(name)
           co == Colon
           sp == <<" ">>
           a2 == name \o r.sep
           a3 == a2 \o value
           a4 == a3 \o r.eol
           m == Len(name)
           n == Len(value)
<1>1. /\ name \in Texts /\ value \in Texts /\ r.sep \in Texts /\ r.eol \in Texts
      /\ co \in Texts /\ sp \in Texts /\ co \o sp = r.sep
  <2>1. ":" \in Bytes /\ " " \in Bytes
    BY DEF Bytes
  <2>2. <<":">> \in Seq(Bytes) /\ <<" ">> \in Seq(Bytes) /\ <<":">> \o <<" ">> = <<":", " ">>
    BY <2>1, Pair
  <2> QED
    BY <2>2 DEF FieldType, RequestType, Texts, Colon, Separator
<1>2. /\ m \in Nat /\ n \in Nat /\ Len(r.sep) = 2 /\ Len(r.eol) = 2
      /\ s.bytes \in Nat /\ MaxHeader \in Nat
  <2>1. s.bytes \in Nat /\ MaxHeader \in Nat
    BY ScannerAssumption DEF Scanners, ScannerType
  <2>2. Len(r.sep) = 2
    <3>1. \A a, b : Len(<<a, b>>) = 2
      OBVIOUS
    <3> QED
      BY <3>1, Zenon DEF Separator
  <2>3. Len(r.eol) = 2
    OBVIOUS
  <2> HIDE DEF name, value
  <2>4. m \in Nat /\ n \in Nat
    BY <1>1, LenProperties DEF Texts
  <2> QED
    BY <2>1, <2>2, <2>3, <2>4
<1>3. \A x, y \in Texts : x \o y \in Texts /\ Len(x \o y) = Len(x) + Len(y)
  BY ConcatProperties DEF Texts
<1>4. FieldText(r, f) = a4
  BY DEF FieldText
<1>5. a2 \in Texts /\ Len(a2) = m + 2
  <2> HIDE DEF name
  <2>1. Len(a2) = m + Len(r.sep) /\ a2 \in Texts
    BY <1>1, <1>3
  <2> HIDE DEF a2, m
  <2> QED
    BY <1>2, <2>1
<1>6. a3 \in Texts /\ Len(a3) = m + 2 + n
  <2> HIDE DEF a2, value
  <2> QED
    BY <1>1, <1>2, <1>3, <1>5 DEF n
<1>7. a4 \in Texts /\ Len(a4) = m + 2 + n + 2
  <2> HIDE DEF a3, n, m
  <2> QED
    BY <1>1, <1>2, <1>3, <1>6, ZenonT(30)
<1>8. NoColon(name) /\ NoCr(name) /\ NoCr(value)
  BY DEF FieldFramed
<1> HIDE DEF kind
<1>9. ASSUME NEW x \in Texts, NEW y \in Texts, NEW q \in Scanners
      PROVE  Consume(q, x \o y) = Consume(Consume(q, x), y)
  BY ConsumeConcat DEF Texts
<1> DEFINE s1 == Consume(s, name)
           s2 == Consume(s1, co)
           s3 == Consume(s2, sp)
           s4 == Consume(s3, value)
<1>10. Alive(s, a3) /\ Alive(Consume(s, a3), r.eol)
  <2>1. a3 \o r.eol = a4
    OBVIOUS
  <2> HIDE DEF a3, a4
  <2>2. Alive(s, a3 \o r.eol)
    BY <1>4, <2>1
  <2>3. r.eol \in Texts
    BY <1>1
  <2> QED
    BY <1>6, <2>2, <2>3, AliveSplit
<1>11. Alive(s, a2) /\ Alive(Consume(s, a2), value) /\ Consume(s, a3) = Consume(Consume(s, a2), value)
  <2> HIDE DEF a2, value
  <2> QED
    BY <1>1, <1>5, <1>10, AliveSplit DEF a3
<1>12. Alive(s1, r.sep) /\ s1 \in Scanners /\ Consume(s, a2) = Consume(s1, r.sep)
  <2> HIDE DEF name
  <2> QED
    BY <1>1, <1>11, AliveSplit DEF a2, s1
<1>13. /\ Alive(s1, co) /\ s2 \in Scanners /\ Alive(s2, sp) /\ Consume(s1, r.sep) = s3
  <2> HIDE DEF s1, co, sp
  <2>1. Alive(s1, co \o sp)
    BY <1>1, <1>12
  <2>2. Alive(s1, co) /\ Consume(s1, co) \in Scanners /\ Alive(Consume(s1, co), sp)
        /\ Consume(s1, co \o sp) = Consume(Consume(s1, co), sp)
    BY <1>1, <1>12, <2>1, AliveSplit
  <2> QED
    BY <1>1, <2>2 DEF s2, s3
<1>14. Alive(s, name \o co)
  <2> HIDE DEF name, co
  <2> QED
    BY <1>1, <1>9, <1>13 DEF s1, Alive
<1>15. /\ Alive(s3, value) /\ Alive(s4, r.eol)
  <2> HIDE DEF a2, a3, value
  <2> QED
    BY <1>10, <1>11, <1>12, <1>13 DEF s4
<1>16. /\ name # <<>> /\ m <= MaxName /\ \A i \in 1 .. m : IsToken(name[i])
       /\ s.bytes + m <= MaxHeader
  <2> HIDE DEF name
  <2> QED
    BY <1>1, <1>8, <1>14, NameFormed DEF co
<1>17. NameRead(s, s1, name, m)
  <2> HIDE DEF name, value
  <2> QED
    BY <1>1, <1>16, NameIsRead
<1>18. /\ s1.phase = "FieldName" /\ s1.name = m /\ s1.bytes = s.bytes + m
       /\ s1.stream = s.stream /\ s1.saw = s.saw
       /\ s1.candidates = {k \in FieldKinds : Prefix(Lowered(name), m, kFieldNames[k])}
  BY <1>17 DEF NameRead, SameHead
<1> HIDE DEF s1
<1>19. KindFits(s1, kind) /\ s1.bytes < MaxHeader
  <2> HIDE DEF name
  <2> QED
    BY <1>1, <1>12, <1>13, <1>18, KindIsFit DEF kind, co
<1>20. KindFits(s, kind)
  BY <1>18, <1>19 DEF KindFits
<1>21. /\ ValueBegun(s1, s2, kind) /\ s2.phase = "ValueSpace" /\ s2.bytes = s.bytes + m + 1
  <2>3. ValueBegun(s1, s2, kind) /\ s2.phase = "ValueSpace" /\ s2.bytes = s1.bytes + 1
    BY <1>1, <1>12, <1>18, <1>19, NameEnds DEF kind, Colon
  <2> HIDE DEF s2
  <2> QED
    BY <1>18, <2>3
<1> HIDE DEF s2
<1>22. /\ s2.stream = s.stream
       /\ s2.kind = Kept(s, kind) /\ s2.value = 0 /\ s2.matches = TRUE /\ s2.isNull = TRUE
  BY <1>18, <1>21 DEF ValueBegun, Kept
<1>23. s2.bytes < MaxHeader
  <2>1. s2.phase \notin {"Opaque", "Failed"}
    BY <1>21
  <2> QED
    BY <1>13, <2>1, AliveByte
<1>24. /\ SameHead(s2, s3, 1) /\ ValueStart(s3) /\ s3.kind = Kept(s, kind)
  <2>2. /\ SameHead(s2, s3, 1) /\ s3.phase = "Value" /\ s3.kind = s2.kind /\ s3.value = s2.value
        /\ s3.matches = s2.matches /\ s3.isNull = s2.isNull
    BY <1>13, <1>21, <1>23, SpaceRead
  <2> QED
    BY <1>22, <2>2 DEF ValueStart
<1> HIDE DEF s3
<1>25. s3 \in Scanners /\ s3.bytes = s.bytes + m + 2
  <2>1. s3 \in Scanners /\ s3.bytes = s2.bytes + 1
    BY <1>24 DEF SameHead
  <2> HIDE DEF m
  <2> QED
    BY <1>2, <1>21, <2>1
<1>26. /\ n <= MaxValue /\ OriginText(s3.kind, value)
       /\ \A i \in 1 .. n : value[i] \notin Controls
       /\ s3.bytes + n <= MaxHeader
  <2> HIDE DEF value
  <2> QED
    BY <1>1, <1>8, <1>15, <1>24, <1>25, ValueFormed
<1>27. ValueRead(s3, s4, value, n)
  <2> HIDE DEF name, value
  <2> QED
    BY <1>1, <1>24, <1>25, <1>26, ValueIsRead
<1> HIDE DEF s4
<1>28. /\ s4 \in Scanners /\ s4.phase = "Value" /\ s4.value = n
       /\ s4.kind = s3.kind /\ Matched(s4, value, n) /\ s4.bytes = s3.bytes + n
  BY <1>27 DEF ValueRead, SameHead
<1>29. ValueFits(s4.kind, value) /\ s4.bytes + 2 <= MaxHeader
  <2>1. Alive(s4, <<"cr", "lf">>)
    BY <1>15
  <2> HIDE DEF value
  <2> QED
    BY <1>1, <1>28, <2>1, ValueEndsFit
<1>30. FieldFormed(f)
  BY <1>16, <1>26 DEF FieldFormed
<1>31. ValueFits(Kept(s, kind), value)
  BY <1>24, <1>28, <1>29
<1>32. s.bytes + Len(a4) <= MaxHeader
  <2> HIDE DEF m, n, a4
  <2> QED
    BY <1>2, <1>7, <1>25, <1>28, <1>29
<1> QED
  BY <1>4, <1>20, <1>30, <1>31, <1>32 DEF kind

(* A field that nothing before it is in the way of.                        *)
FieldPasses(stream, r, i) ==
  /\ FieldFormed(r.fields[i])
  /\ FieldKind(r, i) \notin {"contentLength", "transferEncoding"}
  /\ FieldKind(r, i) = "upgrade" => stream
  /\ stream /\ FieldKind(r, i) \in Watched =>
       /\ \A j \in 1 .. i - 1 : FieldKind(r, j) # FieldKind(r, i)
       /\ ValueFits(FieldKind(r, i), r.fields[i].value)

(* What was not refused was not refused before any of its lines.           *)
LEMMA TableAlive ==
  ASSUME NEW s \in Scanners,
         NEW n \in Nat, NEW f \in [0 .. n -> Texts], NEW texts \in Seq(Texts), Len(texts) = n,
         \A i \in 1 .. n : f[i] = f[i - 1] \o texts[i],
         Alive(s, f[n])
  PROVE  \A i \in 0 .. n : Alive(s, f[i])
<1> DEFINE T == {k \in Nat : k <= n => Alive(s, f[n - k])}
<1>1. 0 \in T
  <2>1. n - 0 = n
    OBVIOUS
  <2> QED
    BY <2>1
<1>2. ASSUME NEW k \in Nat, k \in T PROVE k + 1 \in T
  <2> DEFINE i == n - k
  <2> SUFFICES ASSUME k + 1 <= n PROVE Alive(s, f[n - (k + 1)])
    OBVIOUS
  <2>1. i \in 1 .. n /\ i - 1 \in 0 .. n /\ n - (k + 1) = i - 1 /\ i \in 0 .. n
    OBVIOUS
  <2>2. Alive(s, f[i])
    BY <1>2
  <2> HIDE DEF i
  <2>3. texts[i] \in Texts /\ f[i - 1] \in Texts /\ f[i] = f[i - 1] \o texts[i]
    BY <2>1, ElementOfSeq
  <2>4. Alive(s, f[i - 1])
    BY <2>2, <2>3, AliveSplit
  <2> QED
    BY <2>1, <2>4
<1> HIDE DEF T
<1>3. Nat \subseteq T
  BY <1>1, <1>2, InductionOnSet
<1> SUFFICES ASSUME NEW i \in 0 .. n PROVE Alive(s, f[i])
  OBVIOUS
<1>4. n - i \in Nat /\ n - i <= n /\ n - (n - i) = i
  OBVIOUS
<1> QED
  BY <1>3, <1>4 DEF T

(* One more field that is not refused. *)
LEMMA FieldMore ==
  ASSUME NEW t \in Scanners, t.phase = "HeaderLineStart",
         NEW r \in RequestType, r.sep = Separator, r.eol = <<"cr", "lf">>,
         NEW j \in Nat, j + 1 <= Len(r.fields), FieldFramed(r.fields[j + 1]),
         t.saw = Seen(t.stream, r, j), Alive(t, Lines(r)[j + 1])
  PROVE  /\ FieldPasses(t.stream, r, j + 1)
         /\ LineAfter(t, Consume(t, Lines(r)[j + 1]), Len(Lines(r)[j + 1]), Seen(t.stream, r, j + 1))
<1> DEFINE field == r.fields[j + 1]
           kind == FieldKind(r, j + 1)
           text == FieldText(r, field)
<1>1. j + 1 \in 1 .. Len(r.fields) /\ (j + 1) - 1 = j
  BY LinesType
<1>2. field \in FieldType /\ Lines(r)[j + 1] = text
  BY <1>1, LinesType
<1>3. FieldFramed(field) /\ Alive(t, text)
  BY <1>2
<1>4. kind = KindOf(field.name)
  BY DEF FieldKind
<1> HIDE DEF field, kind, text
<1>5. /\ FieldFormed(field) /\ KindFits(t, kind) /\ ValueFits(Kept(t, kind), field.value)
      /\ t.bytes + Len(text) <= MaxHeader
  <2>1. Alive(t, FieldText(r, field))
    BY <1>3 DEF text
  <2>2. /\ FieldFormed(field) /\ KindFits(t, KindOf(field.name))
        /\ ValueFits(Kept(t, KindOf(field.name)), field.value)
        /\ t.bytes + Len(FieldText(r, field)) <= MaxHeader
    BY <1>2, <1>3, <2>1, FieldSound
  <2> QED
    BY <1>4, <2>2 DEF text
<1>6. LineAfter(t, Consume(t, text), Len(text), SawWith(t, kind))
  <2>1. /\ KindFits(t, KindOf(field.name)) /\ ValueFits(Kept(t, KindOf(field.name)), field.value)
        /\ t.bytes + Len(FieldText(r, field)) <= MaxHeader
    BY <1>4, <1>5 DEF text
  <2>2. LineAfter(t, Consume(t, FieldText(r, field)), Len(FieldText(r, field)), SawWith(t, KindOf(field.name)))
    BY <1>2, <1>5, <2>1, FieldRead
  <2> QED
    BY <1>4, <2>2 DEF text
<1>7. SawWith(t, kind) = Seen(t.stream, r, j + 1)
  <2> DEFINE stream == t.stream
             seen == Seen(stream, r, j)
             more == Seen(stream, r, j + 1)
  <2>1. stream \in BOOLEAN
    BY DEF Scanners, ScannerType
  <2>2. t.saw = seen
    OBVIOUS
  <2> HIDE DEF stream
  <2>3. more = IF stream /\ kind \in Watched THEN seen \cup {kind} ELSE seen
    BY <2>1, SeenMore DEF kind
  <2> HIDE DEF seen, more
  <2>4. SawWith(t, kind) = more
    BY <2>2, <2>3, Zenon DEF SawWith, stream
  <2> QED
    BY <2>4 DEF more, stream
<1>8. FieldPasses(t.stream, r, j + 1)
  <2>1. kind \notin {"contentLength", "transferEncoding"} /\ (kind = "upgrade" => t.stream)
    BY <1>5 DEF KindFits
  <2>2. ASSUME t.stream, kind \in Watched PROVE \A i \in 1 .. j : FieldKind(r, i) # kind
    <3>1. kind \notin Seen(t.stream, r, j)
      BY <1>5, <2>2 DEF KindFits
    <3> QED
      BY <2>2, <3>1 DEF Seen
  <2>3. ASSUME t.stream, kind \in Watched PROVE ValueFits(kind, field.value)
    BY <1>5, <2>3 DEF Kept
  <2>4. \A i : i \in 1 .. (j + 1) - 1 => i \in 1 .. j
    BY <1>1
  <2> QED
    BY <1>5, <2>1, <2>2, <2>3, <2>4 DEF FieldPasses, kind, field
<1> QED
  BY <1>2, <1>6, <1>7, <1>8

(* The fields of a head that is not refused are fit.                       *)
LEMMA FieldsSound ==
  ASSUME NEW s \in Scanners, s.phase = "HeaderLineStart", s.saw = {},
         NEW r \in RequestType, r.sep = Separator, r.eol = <<"cr", "lf">>,
         \A i \in 1 .. Len(r.fields) : FieldFramed(r.fields[i]),
         Alive(s, Joined(Lines(r)))
  PROVE  /\ FieldsFit(s.stream, r)
         /\ LineAfter(s, Consume(s, Joined(Lines(r))), Len(Joined(Lines(r))),
                      Seen(s.stream, r, Len(r.fields)))
<1> DEFINE n == Len(r.fields)
           L == Lines(r)
           stream == s.stream
<1>1. /\ L \in Seq(Texts) /\ Len(L) = n /\ n \in Nat
      /\ \A i \in 1 .. n : r.fields[i] \in FieldType /\ L[i] = FieldText(r, r.fields[i])
  BY LinesType
<1>2. PICK f \in [0 .. n -> Texts] :
        /\ f[0] = <<>>
        /\ \A i \in 1 .. n : f[i] = f[i - 1] \o L[i]
        /\ Joined(L) = f[n]
  <2> HIDE DEF L
  <2> QED
    BY <1>1, JoinedTable, ZenonT(30)
<1>3. \A i \in 0 .. n : Alive(s, f[i])
  <2>1. Alive(s, f[n])
    BY <1>2
  <2> HIDE DEF n, L
  <2> QED
    BY <1>1, <1>2, <2>1, TableAlive
<1>4. s.bytes \in Nat /\ stream \in BOOLEAN
  BY DEF Scanners, ScannerType
<1>5. \A i \in 1 .. n : FieldFramed(r.fields[i])
  OBVIOUS
<1> DEFINE T == {j \in Nat : j <= n =>
                   /\ LineAfter(s, Consume(s, f[j]), Len(f[j]), Seen(stream, r, j))
                   /\ \A i \in 1 .. j : FieldPasses(stream, r, i)}
<1> HIDE DEF L
<1>6. 0 \in T
  <2>1. f[0] = <<>> /\ Len(<<>>) = 0 /\ Consume(s, <<>>) = s
    BY <1>2, ConsumeNothing, EmptySeq
  <2>2. Seen(stream, r, 0) = {}
    BY <1>4, SeenMore
  <2>3. LineAfter(s, s, 0, {})
    BY <1>4 DEF LineAfter
  <2>4. \A i : i \notin 1 .. 0
    OBVIOUS
  <2> HIDE DEF n, stream
  <2> QED
    BY <2>1, <2>2, <2>3, <2>4
<1>7. ASSUME NEW j \in Nat, j \in T PROVE j + 1 \in T
  <2> DEFINE t == Consume(s, f[j])
             x == L[j + 1]
             u == Consume(t, x)
  <2> SUFFICES ASSUME j + 1 <= n
               PROVE  /\ LineAfter(s, Consume(s, f[j + 1]), Len(f[j + 1]), Seen(stream, r, j + 1))
                      /\ \A i \in 1 .. j + 1 : FieldPasses(stream, r, i)
    OBVIOUS
  <2>1. j + 1 \in 1 .. n /\ j \in 0 .. n /\ j + 1 \in 0 .. n /\ (j + 1) - 1 = j /\ j <= n
    BY <1>1
  <2>2. /\ LineAfter(s, t, Len(f[j]), Seen(stream, r, j))
        /\ \A i \in 1 .. j : FieldPasses(stream, r, i)
    BY <1>7, <2>1
  <2>3. f[j + 1] = f[j] \o x /\ f[j] \in Texts /\ x \in Texts
    <3>1. f[j + 1] = f[(j + 1) - 1] \o L[j + 1]
      BY <1>2, <2>1
    <3>2. L[j + 1] \in Texts /\ f[j] \in Texts
      BY <1>1, <2>1, ElementOfSeq
    <3> QED
      BY <2>1, <3>1, <3>2
  <2> HIDE DEF x
  <2>4. Consume(s, f[j + 1]) = u /\ t \in Scanners /\ Alive(t, x)
    <3>1. Alive(s, f[j + 1])
      BY <1>3, <2>1
    <3>2. Alive(s, f[j] \o x)
      BY <2>3, <3>1
    <3> QED
      BY <2>3, <3>2, AliveSplit
  <2>5. Len(f[j + 1]) = Len(f[j]) + Len(x) /\ Len(x) \in Nat /\ Len(f[j]) \in Nat
    BY <2>3, ConcatProperties, LenProperties DEF Texts
  <2>6. /\ t.phase = "HeaderLineStart" /\ t.bytes = s.bytes + Len(f[j])
        /\ t.stream = stream /\ t.saw = Seen(stream, r, j)
    BY <2>2 DEF LineAfter
  <2> HIDE DEF t, n, stream
  <2>7. /\ FieldPasses(t.stream, r, j + 1)
        /\ LineAfter(t, u, Len(x), Seen(t.stream, r, j + 1))
    <3>1. FieldFramed(r.fields[j + 1]) /\ j + 1 <= Len(r.fields)
      BY <1>5, <2>1 DEF n
    <3>2. t.saw = Seen(t.stream, r, j)
      BY <2>6
    <3>3. Alive(t, Lines(r)[j + 1])
      BY <2>4 DEF x, L
    <3>4. /\ FieldPasses(t.stream, r, j + 1)
          /\ LineAfter(t, Consume(t, Lines(r)[j + 1]), Len(Lines(r)[j + 1]), Seen(t.stream, r, j + 1))
      BY <2>4, <2>6, <3>1, <3>2, <3>3, FieldMore
    <3> QED
      BY <3>4 DEF x, L, u
  <2>8. LineAfter(s, u, Len(f[j + 1]), Seen(stream, r, j + 1))
    <3>1. /\ u \in Scanners /\ u.phase = "HeaderLineStart" /\ u.bytes = t.bytes + Len(x)
          /\ u.stream = t.stream /\ u.saw = Seen(stream, r, j + 1)
      BY <2>6, <2>7 DEF LineAfter
    <3> HIDE DEF u
    <3>2. u.bytes = s.bytes + Len(f[j + 1])
      BY <1>4, <2>5, <2>6, <3>1
    <3> QED
      BY <2>6, <3>1, <3>2 DEF LineAfter, stream
  <2>9. \A i : i \in 1 .. j + 1 => i \in 1 .. j \/ i = j + 1
    OBVIOUS
  <2>10. \A i \in 1 .. j + 1 : FieldPasses(stream, r, i)
    BY <2>2, <2>6, <2>7, <2>9
  <2> QED
    BY <2>4, <2>8, <2>10
<1> HIDE DEF T
<1>8. Nat \subseteq T
  BY <1>6, <1>7, InductionOnSet
<1>9. /\ LineAfter(s, Consume(s, f[n]), Len(f[n]), Seen(stream, r, n))
      /\ \A i \in 1 .. n : FieldPasses(stream, r, i)
  <2>1. n \in T /\ n <= n
    BY <1>1, <1>8
  <2> QED
    BY <2>1 DEF T
<1>10. FieldsFit(stream, r)
  <2> HIDE DEF stream
  <2> SUFFICES ASSUME NEW i \in 1 .. n PROVE FieldFits(stream, r, i)
    BY DEF FieldsFit
  <2>1. FieldPasses(stream, r, i)
    BY <1>9
  <2>2. ASSUME stream, FieldKind(r, i) \in Watched, NEW j \in 1 .. n, FieldKind(r, j) = FieldKind(r, i)
        PROVE  j = i
    <3>1. FieldPasses(stream, r, j)
      BY <1>9
    <3>2. ~(j \in 1 .. i - 1)
      BY <2>1, <2>2 DEF FieldPasses
    <3>3. ~(i \in 1 .. j - 1)
      BY <2>2, <3>1 DEF FieldPasses
    <3> QED
      BY <1>1, <3>2, <3>3
  <2> QED
    BY <2>1, <2>2 DEF FieldPasses, FieldFits
<1> QED
  BY <1>2, <1>9, <1>10 DEF L

(* The end of the first line is within the limit. *)
LEMMA EolWithin ==
  ASSUME NEW s \in Scanners, s.phase = "RequestLineCr", Alive(s, <<"cr", "lf">>)
  PROVE  s.bytes + 2 <= MaxHeader
<1> DEFINE t == Consume(s, <<"cr">>)
<1>1. Alive(s, <<"cr">>) /\ t \in Scanners /\ Alive(t, <<"lf">>)
  BY EolSplits
<1>2. s.phase \notin {"Opaque", "Failed"}
  OBVIOUS
<1>3. s.bytes \in Nat /\ s.bytes < MaxHeader
  BY <1>1, <1>2, AliveByte
<1>4. t = [s EXCEPT !.bytes = @ + 1, !.phase = "RequestLineLf"]
  <2>1. Counted(s).phase = s.phase
    BY DEF Counted, Scanners, ScannerType
  <2>2. ScanByte(Counted(s), "cr") = Goto(Counted(s), "RequestLineLf")
    BY <2>1 DEF ScanByte, Expect
  <2>3. "RequestLineLf" \in Phases
    BY DEF Phases
  <2> QED
    BY <1>2, <1>3, <2>2, <2>3, ByteMoves
<1> HIDE DEF t
<1>5. t.phase = "RequestLineLf" /\ t.bytes = s.bytes + 1
  BY <1>4 DEF Scanners, ScannerType
<1>6. t.bytes < MaxHeader
  <2>1. t.phase \notin {"Opaque", "Failed"}
    BY <1>5
  <2> QED
    BY <1>1, <2>1, AliveByte
<1> QED
  BY <1>3, <1>5, <1>6, ScannerAssumption

(* A byte that comes after the method, and after the version.              *)
LEMMA LineExpects ==
  /\ Expects("MethodSpace", " ") /\ Expects("RequestLineCr", "cr")
  /\ Literal("Method", <<"g", "t">>, "MethodSpace", "Method")
  /\ Literal("Version", <<"h", "1">>, "RequestLineCr", "Version")
  /\ " " \in Bytes /\ " " # "g" /\ " " # "t" /\ "cr" \in Bytes /\ "cr" # "h" /\ "cr" # "1"
<1>0. ASSUME NEW c \in Scanners, NEW reason PROVE Reject(c, reason).phase = "Failed"
  BY DEF Reject, Scanners, ScannerType
<1>1. Expects("RequestLineCr", "cr")
  <2> SUFFICES ASSUME NEW c \in Scanners, NEW other, c.phase = "RequestLineCr", other # "cr"
               PROVE  ScanByte(c, other).phase = "Failed"
    BY DEF Expects
  <2>1. ScanByte(c, other) = Reject(c, "RequestLine")
    BY DEF ScanByte, Expect
  <2> QED
    BY <1>0, <2>1
<1>2. Expects("MethodSpace", " ")
  <2> SUFFICES ASSUME NEW c \in Scanners, NEW other, c.phase = "MethodSpace", other # " "
               PROVE  ScanByte(c, other).phase = "Failed"
    BY Zenon DEF Expects
  <2>1. ScanByte(c, other) = Expect(c, other, " ", "TargetStart", "RequestLine")
    BY DEF ScanByte
  <2>2. ScanByte(c, other) = Reject(c, "RequestLine")
    BY <2>1, Zenon DEF Expect
  <2> QED
    BY <1>0, <2>2
<1>3. Literal("Method", <<"g", "t">>, "MethodSpace", "Method")
  BY DEF Literal, ScanByte, kMethod
<1>4. Literal("Version", <<"h", "1">>, "RequestLineCr", "Version")
  BY DEF Literal, ScanByte, kVersion
<1>5. " " \in Bytes /\ "cr" \in Bytes
  BY DEF Bytes, Controls
<1>6. "cr" # "h" /\ "cr" # "1"
  OBVIOUS
<1>7. " " # "g" /\ " " # "t"
  BY Zenon
<1> QED
  BY <1>1, <1>2, <1>3, <1>4, <1>5, <1>6, <1>7, Zenon

LineFramed(r) ==
  r.eol = <<"cr", "lf">> /\ NoBlank(r.method) /\ NoBlank(r.target) /\ NoCr(r.version)

(* The method and the space after it. *)
LEMMA MethodSound ==
  ASSUME NEW text \in Texts, NoBlank(text), Alive(Fresh, text \o Blank)
  PROVE  LET t == Consume(Consume(Fresh, text), Blank) IN
         /\ text = <<"g", "t">> /\ t \in Scanners /\ t.phase = "TargetStart" /\ t.bytes = 3
<1> DEFINE s == Consume(Fresh, text)
           t == Consume(s, Blank)
<1>1. Fresh \in Scanners /\ Fresh.bytes = 0 /\ Fresh.literal = 0 /\ Fresh.phase = "Method"
  BY FreshScans DEF Fresh
<1>2. text = <<"g", "t">> /\ Fresh.bytes + 3 <= MaxHeader
  <2> DEFINE x == " "
  <2>1. /\ x \in Bytes /\ x # "g" /\ x # "t" /\ Expects("MethodSpace", x)
        /\ Literal(Fresh.phase, <<"g", "t">>, "MethodSpace", "Method")
    BY <1>1, LineExpects, Zenon
  <2>2. Lacks(text, x) /\ Alive(Fresh, text \o <<x>>)
    BY Zenon DEF NoBlank, Blank
  <2>3. "MethodSpace" \in Phases /\ "MethodSpace" \notin {"Opaque", "Failed"} /\ Fresh.phase \in {"Method", "Version"}
    BY <1>1 DEF Phases
  <2> HIDE DEF x
  <2> QED
    BY <1>1, <2>1, <2>2, <2>3, LiteralIs
<1>3. s \in Scanners /\ s.bytes = 2 /\ s.phase = "MethodSpace"
  <2>1. Literal(Fresh.phase, <<"g", "t">>, "MethodSpace", "Method")
    BY <1>1, LineExpects, Zenon
  <2>2. Fresh.bytes + 2 <= MaxHeader /\ "MethodSpace" \in Phases /\ Fresh.phase \in {"Method", "Version"}
    BY <1>1, <1>2, ScannerAssumption DEF Phases
  <2>3. SameHead(Fresh, Consume(Fresh, <<"g", "t">>), 2) /\ Consume(Fresh, <<"g", "t">>).phase = "MethodSpace"
    BY <1>1, <2>1, <2>2, LiteralRead
  <2> QED
    BY <1>1, <1>2, <2>3 DEF SameHead
<1> HIDE DEF s
<1>4. SameHead(s, t, 1) /\ t = [s EXCEPT !.bytes = @ + 1, !.phase = "TargetStart"]
  <2>1. Counted(s).phase = s.phase
    BY <1>3 DEF Counted, Scanners, ScannerType
  <2>2. ScanByte(Counted(s), " ") = Goto(Counted(s), "TargetStart")
    BY <1>3, <2>1 DEF ScanByte, Expect
  <2>3. s.bytes < MaxHeader /\ "TargetStart" \in Phases /\ s.phase \notin {"Opaque", "Failed"}
    BY <1>1, <1>2, <1>3, ScannerAssumption DEF Phases
  <2> QED
    BY <1>3, <2>2, <2>3, ByteMoves, ZenonT(30) DEF Blank
<1>5. t.phase = "TargetStart"
  BY <1>3, <1>4 DEF Scanners, ScannerType
<1> HIDE DEF t
<1>6. t \in Scanners /\ t.bytes = 3
  BY <1>3, <1>4 DEF SameHead
<1> QED
  BY <1>2, <1>5, <1>6 DEF s, t

(* The version and the end of the line. *)
LEMMA VersionSound ==
  ASSUME NEW s \in Scanners, s.phase = "Version", s.literal = 0,
         NEW text \in Texts, NoCr(text),
         Alive(s, text), Alive(Consume(s, text), <<"cr", "lf">>)
  PROVE  text = <<"h", "1">> /\ s.bytes + 4 <= MaxHeader
<1> DEFINE t == Consume(s, text)
           cr == <<"cr">>
<1>1. "cr" \in Bytes /\ "cr" # "h" /\ "cr" # "1" /\ Expects("RequestLineCr", "cr")
      /\ Literal(s.phase, <<"h", "1">>, "RequestLineCr", "Version") /\ cr \in Texts
  <2>1. "cr" \in Bytes /\ cr \in Texts
    <3>1. "cr" \in Bytes
      BY DEF Bytes, Controls
    <3> QED
      BY <3>1, Pair DEF Texts
  <2> QED
    BY <2>1, LineExpects, Zenon
<1>2. t \in Scanners
  <2>1. Len(text) \in Nat
    BY FirstBytes
  <2> QED
    BY <2>1, ConsumeType
<1>3. Alive(s, text \o <<"cr">>)
  <2>1. Alive(t, cr)
    <3> HIDE DEF t
    <3> QED
      BY <1>2, EolSplits DEF t
  <2> HIDE DEF cr
  <2>2. Consume(s, text \o cr) = Consume(t, cr)
    BY <1>1, ConsumeConcat DEF Texts
  <2>3. Alive(s, text \o cr)
    BY <2>1, <2>2 DEF Alive
  <2> QED
    BY <2>3 DEF cr
<1>4. text = <<"h", "1">> /\ s.bytes + 3 <= MaxHeader
  <2>1. "RequestLineCr" \in Phases /\ "RequestLineCr" \notin {"Opaque", "Failed"} /\ s.phase \in {"Method", "Version"}
    BY DEF Phases
  <2>2. Lacks(text, "cr")
    BY DEF NoCr
  <2> HIDE DEF cr, t
  <2> QED
    BY <1>1, <1>3, <2>1, <2>2, LiteralIs
<1>5. s.bytes \in Nat /\ MaxHeader \in Nat
  BY ScannerAssumption DEF Scanners, ScannerType
<1>6. SameHead(s, t, 2) /\ t.phase = "RequestLineCr"
  <2>1. s.bytes + 2 <= MaxHeader /\ "RequestLineCr" \in Phases /\ s.phase \in {"Method", "Version"}
    BY <1>4, <1>5 DEF Phases
  <2>2. SameHead(s, Consume(s, <<"h", "1">>), 2) /\ Consume(s, <<"h", "1">>).phase = "RequestLineCr"
    BY <1>1, <2>1, LiteralRead
  <2> QED
    BY <1>4, <2>2
<1>7. t.bytes = s.bytes + 2 /\ Alive(t, <<"cr", "lf">>)
  BY <1>6 DEF SameHead
<1> HIDE DEF t
<1>8. t.bytes + 2 <= MaxHeader
  BY <1>2, <1>6, <1>7, EolWithin
<1> QED
  BY <1>4, <1>5, <1>7, <1>8

(* A framed first line that is not refused is as it must be.               *)
LEMMA LineSound ==
  ASSUME NEW r \in RequestType, LineFramed(r), Alive(Fresh, LineText(r))
  PROVE  LineFormed(r) /\ Len(LineText(r)) <= MaxHeader
<1> DEFINE sp == Blank
           me == r.method
           tg == r.target
           ve == r.version
           eol == r.eol
           a2 == me \o sp
           a3 == a2 \o tg
           a4 == a3 \o sp
           a5 == a4 \o ve
           a6 == a5 \o eol
           n == Len(tg)
<1>1. /\ me \in Texts /\ tg \in Texts /\ ve \in Texts /\ eol \in Texts
      /\ eol = <<"cr", "lf">> /\ NoBlank(me) /\ NoBlank(tg) /\ NoCr(ve)
  BY DEF RequestType, LineFramed
<1>2. sp \in Texts /\ Len(sp) = 1
  <2>1. " " \in Bytes
    BY DEF Bytes
  <2>2. \A b : Len(<<b>>) = 1
    OBVIOUS
  <2> QED
    BY <2>1, <2>2, Pair, Zenon DEF Texts, Blank
<1>3. LineText(r) = a6
  BY Zenon DEF LineText, Blank
<1>4. \A x, y \in Texts : x \o y \in Texts /\ Len(x \o y) = Len(x) + Len(y) /\ Len(x) \in Nat
  BY ConcatProperties, LenProperties DEF Texts
<1>5. /\ a2 \in Texts /\ a3 \in Texts /\ a4 \in Texts /\ a5 \in Texts /\ a6 \in Texts
  <2> HIDE DEF sp, me, tg, ve, eol
  <2> QED
    BY <1>1, <1>2, <1>4
<1>a. a2 = me \o sp /\ a3 = a2 \o tg /\ a4 = a3 \o sp /\ a5 = a4 \o ve /\ a6 = a5 \o eol
  OBVIOUS
<1>b. Alive(Fresh, a6) /\ Fresh \in Scanners
  BY <1>3, FreshScans
<1>c. n = Len(tg) /\ n \in Nat
  BY <1>1, FirstBytes
<1> HIDE DEF sp, a2, a3, a4, a5, a6, n
<1>6. ASSUME NEW s \in Scanners, NEW x \in Texts, NEW y \in Texts, Alive(s, x \o y)
      PROVE  /\ Alive(s, x) /\ Consume(s, x) \in Scanners /\ Alive(Consume(s, x), y)
             /\ Consume(s, x \o y) = Consume(Consume(s, x), y)
  BY <1>6, AliveSplit
<1> DEFINE s2 == Consume(Fresh, a2)
           s3 == Consume(s2, tg)
           s4 == Consume(s3, sp)
<1>7. Alive(Fresh, a5) /\ Alive(Consume(Fresh, a5), <<"cr", "lf">>)
  BY <1>1, <1>5, <1>6, <1>a, <1>b
<1>8. Alive(Fresh, a4) /\ Alive(Consume(Fresh, a4), ve) /\ Consume(Fresh, a4) \in Scanners
      /\ Consume(Fresh, a5) = Consume(Consume(Fresh, a4), ve)
  BY <1>1, <1>5, <1>6, <1>7, <1>a, <1>b
<1>9. Alive(Fresh, a3) /\ Alive(Consume(Fresh, a3), sp)
      /\ Consume(Fresh, a4) = Consume(Consume(Fresh, a3), sp)
  BY <1>2, <1>5, <1>6, <1>8, <1>a, <1>b
<1>10. Alive(Fresh, a2) /\ s2 \in Scanners /\ Alive(s2, tg) /\ Consume(Fresh, a3) = s3
  BY <1>1, <1>5, <1>6, <1>9, <1>a, <1>b
<1>11. me = <<"g", "t">> /\ s2.phase = "TargetStart" /\ s2.bytes = 3
  <2>1. Alive(Fresh, me \o Blank)
    BY <1>10, <1>a DEF sp
  <2>2. /\ me = <<"g", "t">> /\ Consume(Consume(Fresh, me), Blank).phase = "TargetStart"
        /\ Consume(Consume(Fresh, me), Blank).bytes = 3
    BY <1>1, <2>1, MethodSound
  <2>3. s2 = Consume(Consume(Fresh, me), sp)
    BY <1>1, <1>2, <1>6, <1>10, <1>a, <1>b
  <2> QED
    BY <2>2, <2>3 DEF sp
<1> HIDE DEF s2
<1>12. Alive(s2, tg \o Blank)
  <2>1. Alive(s3, sp)
    BY <1>9, <1>10
  <2>2. Consume(s2, tg \o sp) = Consume(s3, sp)
    BY <1>1, <1>2, <1>10, ConsumeConcat DEF Texts
  <2> QED
    BY <2>1, <2>2, Zenon DEF Alive, sp
<1>13. /\ tg # <<>> /\ tg[1] = "/" /\ n <= MaxTarget /\ \A i \in 1 .. n : IsTarget(tg[i])
       /\ s2.bytes + n <= MaxHeader
  BY <1>1, <1>10, <1>11, <1>12, <1>c, TargetIs
<1>14. TargetRead(s2, s3, tg, n)
  BY <1>1, <1>10, <1>11, <1>13, <1>c, TargetIsRead
<1> HIDE DEF s3
<1>15. /\ s3 \in Scanners /\ s3.bytes = 3 + n /\ s3.phase = "Target" /\ s3.target = n
       /\ s3.onTarget <=> Prefix(tg, n, kStreamTarget)
  BY <1>11, <1>14 DEF TargetRead, SameHead
<1>16. s3.bytes < MaxHeader
  <2> DEFINE x == " "
  <2>1. Alive(s3, <<x>>)
    <3>1. Alive(s3, sp)
      BY <1>9, <1>10
    <3> QED
      BY <3>1, Zenon DEF sp, Blank
  <2>2. s3.phase \notin {"Opaque", "Failed"}
    BY <1>15
  <2> HIDE DEF x
  <2> QED
    BY <1>15, <2>1, <2>2, AliveByte
<1>17. s4 \in Scanners /\ s4.bytes = 4 + n /\ s4.phase = "Version" /\ s4.literal = 0
  <2>1. /\ s4 \in Scanners /\ s4.bytes = s3.bytes + 1 /\ s4.phase = "Version" /\ s4.literal = 0
    BY <1>1, <1>15, <1>16, <1>c, TargetEnds DEF sp, Blank
  <2> HIDE DEF s4
  <2> QED
    BY <1>c, <1>15, <2>1
<1>18. Consume(Fresh, a4) = s4
  BY <1>9, <1>10
<1> HIDE DEF s4
<1>19. ve = <<"h", "1">> /\ s4.bytes + 4 <= MaxHeader
  <2>1. Alive(s4, ve) /\ Alive(Consume(s4, ve), <<"cr", "lf">>)
    BY <1>7, <1>8, <1>18
  <2> QED
    BY <1>1, <1>17, <2>1, VersionSound
<1>20. LineFormed(r)
  <2>1. DOMAIN tg = 1 .. n
    BY <1>1, <1>c, FirstBytes
  <2> QED
    BY <1>1, <1>11, <1>13, <1>19, <1>c, <2>1 DEF LineFormed, kMethod, kVersion
<1>21. Len(a6) = n + 8
  <2>1. Len(me) = 2 /\ Len(ve) = 2 /\ Len(eol) = 2
    BY <1>1, <1>11, <1>19
  <2> HIDE DEF me, tg, ve, eol
  <2>2. /\ Len(a2) = Len(me) + Len(sp) /\ Len(a3) = Len(a2) + Len(tg)
        /\ Len(a4) = Len(a3) + Len(sp) /\ Len(a5) = Len(a4) + Len(ve)
        /\ Len(a6) = Len(a5) + Len(eol)
    BY <1>1, <1>2, <1>4, <1>5, <1>a, ZenonT(30)
  <2> QED
    BY <1>2, <1>c, <2>1, <2>2
<1> QED
  BY <1>3, <1>17, <1>19, <1>20, <1>21, <1>c

(* The end of a head that is not refused. *)
LEMMA EndSound ==
  ASSUME NEW s \in Scanners, s.phase = "HeaderLineStart", Alive(s, <<"cr", "lf">>)
  PROVE  s.bytes + 2 <= MaxHeader /\ (s.stream => s.saw = Watched)
<1> DEFINE t == Consume(s, <<"cr">>)
           d == Counted(t)
<1>1. Alive(s, <<"cr">>) /\ t \in Scanners /\ Alive(t, <<"lf">>)
  BY EolSplits
<1>2. s.phase \notin {"Opaque", "Failed"}
  OBVIOUS
<1>3. s.bytes \in Nat /\ s.bytes < MaxHeader
  BY <1>1, <1>2, AliveByte
<1>4. SameHead(s, t, 1) /\ t = [s EXCEPT !.bytes = @ + 1, !.phase = "HeadersEndLf"]
  <2>1. Counted(s).phase = s.phase
    BY DEF Counted, Scanners, ScannerType
  <2>2. ScanByte(Counted(s), "cr") = Goto(Counted(s), "HeadersEndLf")
    BY <2>1 DEF ScanByte
  <2>3. "HeadersEndLf" \in Phases
    BY DEF Phases
  <2> QED
    BY <1>2, <1>3, <2>2, <2>3, ByteMoves
<1> HIDE DEF t
<1>5. t.phase = "HeadersEndLf" /\ t.bytes = s.bytes + 1 /\ t.stream = s.stream /\ t.saw = s.saw
  BY <1>4 DEF Scanners, ScannerType
<1>6. /\ t.bytes < MaxHeader /\ ScanByte(d, "lf").phase # "Failed" /\ d \in Scanners
      /\ SameFields(t, d)
  <2>1. t.phase \notin {"Opaque", "Failed"}
    BY <1>5
  <2> QED
    BY <1>1, <2>1, AliveByte
<1>7. d.phase = "HeadersEndLf" /\ d.stream = s.stream /\ d.saw = s.saw
  BY <1>5, <1>6 DEF SameFields
<1> HIDE DEF d
<1>8. FinishHeaders(d).phase # "Failed"
  BY <1>6, <1>7 DEF ScanByte
<1>9. Reject(d, "Missing").phase = "Failed"
  BY <1>6 DEF Reject, Scanners, ScannerType
<1>10. s.stream => s.saw = Watched
  BY <1>7, <1>8, <1>9 DEF FinishHeaders, Watched
<1> QED
  BY <1>3, <1>5, <1>6, <1>10, ScannerAssumption

(* The value a kind of field has, when only one field is of that kind.     *)
LEMMA OneOf ==
  ASSUME NEW r \in RequestType, NEW k \in FieldKinds, NEW i \in 1 .. Len(r.fields),
         FieldKind(r, i) = k, \A j \in 1 .. Len(r.fields) : FieldKind(r, j) = k => j = i
  PROVE  Cardinality(Named(r, k)) = 1 /\ OnlyValue(r, k) = r.fields[i].value
<1> DEFINE N == Named(r, k)
<1>1. \A j : j \in N <=> j \in 1 .. Len(r.fields) /\ FieldKind(r, j) = k
  BY NamedIs
<1>2. OnlyValue(r, k) = CHOOSE v \in {r.fields[j].value : j \in N} : TRUE
  BY DEF OnlyValue
<1> HIDE DEF N
<1>3. N = {i}
  BY <1>1
<1>4. {r.fields[j].value : j \in N} = {r.fields[i].value}
  BY <1>3
<1>5. OnlyValue(r, k) = r.fields[i].value
  BY <1>2, <1>4
<1>6. Cardinality(N) = 1
  BY <1>3, FS_Singleton
<1> QED
  BY <1>5, <1>6 DEF N

(* Field by field, what is admissible. *)
LEMMA FitIsAdmissible ==
  ASSUME NEW r \in RequestType, IsWellFormed(r), FieldsFit(IsStream(r), r),
         IsStream(r) => Seen(TRUE, r, Len(r.fields)) = Watched
  PROVE  Admissible(r)
<1> DEFINE n == Len(r.fields)
<1>1. \A i \in 1 .. n : FieldFits(IsStream(r), r, i)
  BY DEF FieldsFit
<1>2. {"origin", "upgrade", "connection", "contentLength", "transferEncoding"} \subseteq FieldKinds
      /\ Watched = {"origin", "upgrade", "connection"}
  BY DEF FieldKinds, kFieldNames, Watched
<1>3. Named(r, "contentLength") = {} /\ Named(r, "transferEncoding") = {}
  <2>1. \A i \in 1 .. n : FieldKind(r, i) \notin {"contentLength", "transferEncoding"}
    BY <1>1 DEF FieldFits
  <2> QED
    BY <1>2, <2>1, NamedIs
<1>4. ~IsStream(r) => Named(r, "upgrade") = {}
  <2>1. ~IsStream(r) => \A i \in 1 .. n : FieldKind(r, i) # "upgrade"
    BY <1>1 DEF FieldFits
  <2> QED
    BY <1>2, <2>1, NamedIs
<1>5. ASSUME IsStream(r), NEW k \in Watched
      PROVE  Cardinality(Named(r, k)) = 1 /\ ValueFits(k, OnlyValue(r, k))
  <2>1. k \in Seen(TRUE, r, n)
    BY <1>5
  <2>2. PICK i \in 1 .. n : FieldKind(r, i) = k
    BY <2>1 DEF Seen
  <2>3. /\ \A j \in 1 .. n : FieldKind(r, j) = k => j = i
        /\ ValueFits(k, r.fields[i].value)
    BY <1>1, <1>5, <2>2 DEF FieldFits
  <2>4. k \in FieldKinds
    BY <1>2
  <2>5. Cardinality(Named(r, k)) = 1 /\ OnlyValue(r, k) = r.fields[i].value
    BY <2>2, <2>3, <2>4, OneOf
  <2> QED
    BY <2>3, <2>5
<1>6. IsStream(r) => IsHandshake(r)
  <2> SUFFICES ASSUME IsStream(r) PROVE IsHandshake(r)
    OBVIOUS
  <2>1. "origin" \in Watched /\ "upgrade" \in Watched /\ "connection" \in Watched
    BY <1>2
  <2>2. /\ ValueFits("origin", OnlyValue(r, "origin")) /\ ValueFits("upgrade", OnlyValue(r, "upgrade"))
        /\ ValueFits("connection", OnlyValue(r, "connection"))
    BY <1>5, <2>1
  <2>3. \A kind \in {"origin", "upgrade", "connection"} : Cardinality(Named(r, kind)) = 1
    BY <1>2, <1>5
  <2> QED
    BY <2>2, <2>3 DEF IsHandshake, ValueFits
<1> QED
  BY <1>3, <1>4, <1>6 DEF Admissible

-----------------------------------------------------------------------------
(* The parts put together: the two theorems about a request and a socket.  *)

(* What IsFramed says, part by part. *)
LEMMA FramedParts ==
  ASSUME NEW r \in RequestType, IsFramed(r)
  PROVE  /\ r.eol = <<"cr", "lf">> /\ r.end = <<"cr", "lf">> /\ r.sep = Separator /\ LineFramed(r)
         /\ \A i \in 1 .. Len(r.fields) : FieldFramed(r.fields[i])
<1>1. DOMAIN r.fields = 1 .. Len(r.fields)
  BY LenProperties DEF RequestType
<1>2. \A i \in DOMAIN r.fields : FieldFramed(r.fields[i])
  BY Zenon DEF IsFramed, FieldFramed, NoColon, NoCr
<1>3. r.eol = <<"cr", "lf">> /\ r.end = <<"cr", "lf">> /\ r.sep = Separator /\ LineFramed(r)
  BY Zenon DEF IsFramed, LineFramed, Separator, NoBlank, NoCr
<1> QED
  BY <1>1, <1>2, <1>3

(* The line, the fields and the length of a request make it well formed.   *)
LEMMA PartsAreFormed ==
  ASSUME NEW r \in RequestType, LineFormed(r), r.end = <<"cr", "lf">>, r.sep = Separator,
         \A i \in 1 .. Len(r.fields) : FieldFormed(r.fields[i]),
         Len(RequestText(r)) <= MaxHeader
  PROVE  IsWellFormed(r)
<1>1. DOMAIN r.fields = 1 .. Len(r.fields) /\ \A i \in 1 .. Len(r.fields) : r.fields[i] \in FieldType
  BY LinesType, LenProperties DEF RequestType
<1>2. ASSUME NEW i \in 1 .. Len(r.fields)
      PROVE  /\ r.fields[i].name # <<>> /\ Len(r.fields[i].name) <= MaxName
             /\ Len(r.fields[i].value) <= MaxValue
             /\ \A j \in DOMAIN r.fields[i].name : IsToken(r.fields[i].name[j])
             /\ \A j \in DOMAIN r.fields[i].value : r.fields[i].value[j] \notin Controls
  <2> DEFINE f == r.fields[i]
  <2>1. f \in FieldType /\ FieldFormed(f)
    BY <1>1
  <2> HIDE DEF f
  <2>2. f.name \in Texts /\ f.value \in Texts
    BY <2>1 DEF FieldType
  <2>3. DOMAIN f.name = 1 .. Len(f.name) /\ DOMAIN f.value = 1 .. Len(f.value)
    BY <2>2, FirstBytes
  <2>4. /\ f.name # <<>> /\ Len(f.name) <= MaxName /\ Len(f.value) <= MaxValue
        /\ \A j \in DOMAIN f.name : IsToken(f.name[j])
        /\ \A j \in DOMAIN f.value : f.value[j] \notin Controls
    BY <2>1, <2>3 DEF FieldFormed
  <2> QED
    BY <2>4 DEF f
<1> QED
  BY <1>1, <1>2, Zenon DEF LineFormed, IsWellFormed, Separator

(* A framed request that is not refused is admissible. *)
LEMMA HeadSound ==
  ASSUME NEW r \in RequestType, IsFramed(r), Alive(Fresh, RequestText(r))
  PROVE  Admissible(r)
<1> DEFINE line == LineText(r)
           fields == Joined(Lines(r))
           b2 == line \o fields
           s1 == Consume(Fresh, line)
           s2 == Consume(s1, fields)
<1>1. /\ r.eol = <<"cr", "lf">> /\ r.end = <<"cr", "lf">> /\ r.sep = Separator /\ LineFramed(r)
      /\ \A i \in 1 .. Len(r.fields) : FieldFramed(r.fields[i])
  BY FramedParts
<1>2. line \in Texts /\ fields \in Texts /\ r.end \in Texts
  <2>1. fields \in Texts
    BY LinesType, JoinedType
  <2>2. /\ r.method \in Texts /\ r.target \in Texts /\ r.version \in Texts
        /\ r.eol \in Texts /\ r.end \in Texts
    BY DEF RequestType
  <2>3. <<" ">> \in Texts
    BY DEF Texts, Bytes
  <2>4. \A x, y \in Texts : x \o y \in Texts
    BY ConcatProperties DEF Texts
  <2>5. line \in Texts
    BY <2>2, <2>3, <2>4 DEF LineText
  <2> QED
    BY <2>1, <2>2, <2>5
<1>3. RequestText(r) = b2 \o r.end
  BY DEF RequestText, LineText, Lines
<1> HIDE DEF line, fields
<1>4. \A x, y \in Texts : x \o y \in Texts /\ Len(x \o y) = Len(x) + Len(y) /\ Len(x) \in Nat
  BY ConcatProperties, LenProperties DEF Texts
<1>5. b2 \in Texts /\ Len(b2) = Len(line) + Len(fields) /\ Len(line) \in Nat /\ Len(fields) \in Nat
  BY <1>2, <1>4
<1>6. b2 = line \o fields /\ Fresh \in Scanners
  BY FreshScans
<1> HIDE DEF b2
<1>7. Alive(Fresh, b2) /\ Alive(Consume(Fresh, b2), r.end)
  <2>1. Alive(Fresh, b2 \o r.end)
    BY <1>3
  <2> QED
    BY <1>2, <1>5, <1>6, <2>1, AliveSplit
<1>8. Alive(Fresh, line) /\ s1 \in Scanners /\ Alive(s1, fields) /\ Consume(Fresh, b2) = s2
  <2>1. Alive(Fresh, line \o fields)
    BY <1>6, <1>7
  <2> QED
    BY <1>2, <1>6, <2>1, AliveSplit
<1>9. LineFormed(r) /\ Len(line) <= MaxHeader
  BY <1>1, <1>8, LineSound DEF line
<1>10. /\ s1.phase = "HeaderLineStart" /\ s1.saw = {}
       /\ s1.bytes = Len(line) /\ (s1.stream <=> IsStream(r)) /\ s1.stream \in BOOLEAN
  <2>1. /\ s1.phase = "HeaderLineStart" /\ s1.saw = {}
        /\ s1.bytes = Len(line) /\ (s1.stream <=> IsStream(r))
    BY <1>9, LineRead DEF line
  <2> HIDE DEF s1
  <2> QED
    BY <1>8, <2>1 DEF Scanners, ScannerType
<1> HIDE DEF s1
<1>11. s1.stream = IsStream(r)
  <2>1. IsStream(r) \in BOOLEAN
    BY DEF IsStream
  <2> QED
    BY <1>10, <2>1
<1>12. /\ FieldsFit(s1.stream, r)
       /\ LineAfter(s1, s2, Len(fields), Seen(s1.stream, r, Len(r.fields)))
  BY <1>1, <1>8, <1>10, FieldsSound DEF fields
<1> HIDE DEF s2
<1>13. /\ s2 \in Scanners /\ s2.phase = "HeaderLineStart" /\ s2.stream = s1.stream
       /\ s2.saw = Seen(s1.stream, r, Len(r.fields)) /\ s2.bytes = Len(line) + Len(fields)
  BY <1>10, <1>12 DEF LineAfter
<1>14. s2.bytes + 2 <= MaxHeader /\ (s2.stream => s2.saw = Watched)
  <2>1. Alive(s2, <<"cr", "lf">>)
    BY <1>1, <1>7, <1>8
  <2> QED
    BY <1>13, <2>1, EndSound
<1>15. Len(RequestText(r)) <= MaxHeader
  <2>1. Len(b2 \o r.end) = Len(b2) + Len(r.end)
    BY <1>2, <1>4, <1>5
  <2>2. Len(r.end) = 2
    BY <1>1
  <2> QED
    BY <1>3, <1>5, <1>13, <1>14, <2>1, <2>2
<1>16. \A i \in 1 .. Len(r.fields) : FieldFormed(r.fields[i])
  BY <1>12 DEF FieldsFit, FieldFits
<1>17. IsWellFormed(r)
  BY <1>1, <1>9, <1>15, <1>16, PartsAreFormed
<1>18. FieldsFit(IsStream(r), r)
  BY <1>11, <1>12
<1>19. IsStream(r) => Seen(TRUE, r, Len(r.fields)) = Watched
  <2> SUFFICES ASSUME IsStream(r) PROVE Seen(TRUE, r, Len(r.fields)) = Watched
    OBVIOUS
  <2>1. s1.stream = TRUE
    BY <1>10
  <2>2. s2.saw = Seen(TRUE, r, Len(r.fields))
    BY <1>13, <2>1
  <2> QED
    BY <1>13, <1>14, <2>1, <2>2
<1> QED
  BY <1>17, <1>18, <1>19, FitIsAdmissible

(* For every framed request of any length: the scanner refuses the head if *)
(* and only if the reference does, which looks at the request as a whole.  *)
THEOREM HeadIsJudged == \A r \in RequestType : IsFramed(r) => Judged(r)
<1> SUFFICES ASSUME NEW r \in RequestType, IsFramed(r) PROVE Judged(r)
  OBVIOUS
<1>1. Admissible(r) => Consume(Fresh, RequestText(r)).phase # "Failed"
  <2> SUFFICES ASSUME Admissible(r) PROVE Consume(Fresh, RequestText(r)).phase # "Failed"
    OBVIOUS
  <2>1. HeadPasses(r)
    BY HeadRead
  <2> QED
    BY <2>1, FreshScans DEF HeadPasses
<1>2. Consume(Fresh, RequestText(r)).phase # "Failed" => Admissible(r)
  BY HeadSound DEF Alive
<1> QED
  BY <1>1, <1>2 DEF Judged

(* ScannerAgrees: for all requests, however many are sent before and however *)
(* their bytes are cut and joined, RecvOverride makes a WebSocket of the socket *)
(* exactly at the end of an admissible stream request that follows admissible *)
(* ordinary ones, and refuses it during the first inadmissible one.  The   *)
(* hypothesis is about requests with the end of a line, of a name or of a head *)
(* inside a part: such a text may be two requests, or another one, and is not *)
(* the one it is called, unless it is refused.                             *)
THEOREM ScannerIsRight == UnframedRefused => (Spec => []ScannerAgrees)
<1> SUFFICES ASSUME UnframedRefused PROVE Spec => []ScannerAgrees
  OBVIOUS
<1>1. RefusedAlone
  <2> SUFFICES ASSUME NEW r \in Requests \cup Openers, ~Admissible(r)
               PROVE  Consume(Fresh, RequestText(r)).phase = "Failed"
    BY DEF RefusedAlone
  <2>1. r \in RequestType
    BY ClientAssumption
  <2>2. IsFramed(r) => Judged(r)
    BY <2>1, HeadIsJudged
  <2> QED
    BY <2>2 DEF Judged, UnframedRefused
<1>2. HeadInv => ScannerAgrees
  BY <1>1, AllAgree
<1> QED
  BY <1>2, HeadInit, HeadStep, PTL DEF Spec
=============================================================================
