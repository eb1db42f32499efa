---------------------------- MODULE D2BControl ------------------------------
(***************************************************************************)
(* A client's control message: d2b_message_buffer.cpp puts its frames      *)
(* together, d2b_control.cpp parses it into one document of fixed size and *)
(* decides what it asks for.  The parser is its call stack: one step per   *)
(* token, with the counters of the document.  Which token comes next is    *)
(* decided when the parser looks at it; what is fixed before is how many   *)
(* bytes are left.                                                         *)
(***************************************************************************)
EXTENDS Naturals, Sequences

CONSTANTS
  MaxMessage,      \* kMaximumControlMessageSize
  MaxDepth,        \* kMaximumDepth
  MaxNodes,        \* kMaximumNodes
  MaxMembers,      \* kMaximumMembers
  MaxItems,        \* kMaximumArrayItems
  MaxPerObject,    \* kMaximumMembersPerObject
  MaxString,       \* kMaximumDecodedStringBytes and ..CodePoints, as one limit
  PoolSize,        \* kStringPoolSize
  Strings,         \* string tokens: [text, bytes decoded, raw bytes with quotes]
  Documents        \* what a document may say, see ValidateDocument

ASSUME LimitAssumption ==
  /\ MaxMessage \in Nat /\ MaxDepth \in Nat /\ MaxNodes \in Nat \ {0}
  /\ MaxMembers \in Nat /\ MaxItems \in Nat /\ MaxPerObject \in Nat
  /\ MaxString \in Nat /\ PoolSize \in Nat

(* 2048 bytes of message, 2176 of pool. *)
ASSUME PoolAssumption == MaxMessage < PoolSize

(* An escape is never shorter than what it stands for. *)
ASSUME StringAssumption ==
  \A s \in Strings : s.bytes \in Nat /\ s.raw \in Nat /\ s.bytes + 2 <= s.raw

VARIABLES
  buffer,   \* MessageBuffer: [size, assembling]
  need,     \* what the parser looks for next; "idle" outside a message
  left,     \* bytes of the message not read yet
  stack,    \* the open containers, outermost first
  nodes,    \* nodeCount
  members,  \* memberCount
  items,    \* itemCount
  pool,     \* stringBytes
  refused,  \* history: the limit that refused the last message
  judged,   \* history: the last document that was understood or not
  verdict   \* the ErrorCode of the last message

counts  == <<nodes, members, items, pool>>
answer  == <<refused, judged, verdict>>
controlVars == <<buffer, need, left, stack, counts, answer>>

Needs == {"idle", "value", "first", "key", "item", "after", "end", "judge"}
Limits == {"none", "grammar", "depth", "nodes", "members", "items", "string", "pool"}
Verdicts == {"None", "InvalidMessage", "FrameTooLarge", "UnsupportedProfile",
             "UnsupportedParameters", "AbsentRead"}
MessageTypes == {"hello", "start_stream", "stop_stream", "ping"}
NoKey == "-"
Keys == {s.text : s \in Strings} \cup {NoKey}
Containers == [kind : {"object", "array"}, count : Nat, keys : SUBSET Keys, key : Keys]
NoDocument == [type |-> "none"]

(* A message is of one of the four types, or of none of them. *)
ASSUME DocumentAssumption ==
  \A d \in Documents : d.type \in MessageTypes \cup {"other"}

ControlTypeOK ==
  /\ buffer \in [size : 0 .. MaxMessage, assembling : BOOLEAN]
  /\ need \in Needs
  /\ left \in 0 .. MaxMessage
  /\ stack \in Seq(Containers)
  /\ nodes \in Nat /\ members \in Nat /\ items \in Nat /\ pool \in Nat
  /\ refused \in Limits
  /\ judged.type \in MessageTypes \cup {"none", "other"}
  /\ verdict \in Verdicts

ControlInit ==
  /\ buffer = [size |-> 0, assembling |-> FALSE]
  /\ need = "idle" /\ left = 0 /\ stack = <<>>
  /\ nodes = 0 /\ members = 0 /\ items = 0 /\ pool = 0
  /\ refused = "none" /\ judged = NoDocument /\ verdict = "None"
-----------------------------------------------------------------------------
(* Frames                                                                  *)

Empty == [size |-> 0, assembling |-> FALSE]

(* The document is cleared before a message is parsed; between messages    *)
(* nothing reads it.                                                       *)
Cleared ==
  /\ stack' = <<>>
  /\ nodes' = 0 /\ members' = 0 /\ items' = 0 /\ pool' = 0

Refuse(limit, code) ==
  /\ need' = "idle" /\ left' = 0 /\ Cleared
  /\ refused' = limit /\ verdict' = code /\ judged' = NoDocument

(* A text frame starts a message, continuations follow it. *)
InOrder(type) == IF buffer.assembling THEN type = "continuation" ELSE type = "text"

(* Transport::receive with MessageBuffer::accept; a binary frame, or any   *)
(* other, is refused without an answer.                                    *)
Frame(type, final, size) ==
  LET total == buffer.size + size IN
  /\ need = "idle"
  /\ IF ~InOrder(type) THEN
       buffer' = Empty /\ Refuse("grammar", IF type = "other" THEN "None" ELSE "InvalidMessage")
     ELSE IF total > MaxMessage THEN
       buffer' = Empty /\ Refuse("grammar", "FrameTooLarge")
     ELSE IF final THEN
       /\ buffer' = Empty
       /\ need' = "value" /\ left' = total /\ Cleared
       /\ refused' = "none" /\ verdict' = "None" /\ judged' = NoDocument
     ELSE
       /\ buffer' = [size |-> total, assembling |-> TRUE]
       /\ UNCHANGED <<need, left, stack, counts, answer>>
-----------------------------------------------------------------------------
(* Tokens                                                                  *)

Top == stack[Len(stack)]
Below == SubSeq(stack, 1, Len(stack) - 1)
IsIn(kind) == stack # <<>> /\ Top.kind = kind

Invalid(limit) == Refuse(limit, "InvalidMessage") /\ UNCHANGED buffer

(* A value is complete: the container that holds it stores it only now.    *)
Store(open) ==
  IF open = <<>>
  THEN stack' = open /\ need' = "end" /\ UNCHANGED <<members, items>>
  ELSE LET n == Len(open) IN
       /\ need' = "after"
       /\ stack' = [open EXCEPT ![n] =
            [kind |-> @.kind, count |-> @.count + 1, keys |-> @.keys \cup {@.key}, key |-> NoKey]]
       /\ IF open[n].kind = "object"
          THEN members' = members + 1 /\ UNCHANGED items
          ELSE items' = items + 1 /\ UNCHANGED members

(* skipWhitespace *)
Space ==
  /\ need \notin {"idle", "judge"} /\ left > 0
  /\ left' = left - 1
  /\ UNCHANGED <<buffer, need, stack, counts, answer>>

(* The next byte, or the end of the message, is not what the grammar asks. *)
Malformed ==
  /\ need \notin {"idle", "judge"}
  /\ ~(need = "end" /\ left = 0)
  /\ Invalid("grammar")

(* parseValue with the beginning of parseObject and parseArray *)
Open(kind) ==
  /\ need = "value" /\ left > 0
  /\ IF Len(stack) > MaxDepth THEN Invalid("depth")
     ELSE IF nodes >= MaxNodes THEN Invalid("nodes")
     ELSE /\ nodes' = nodes + 1
          /\ left' = left - 1
          /\ stack' = Append(stack, [kind |-> kind, count |-> 0, keys |-> {}, key |-> NoKey])
          /\ need' = "first"
          /\ UNCHANGED <<buffer, members, items, pool, answer>>

(* parseLiteral, parseNumber *)
Scalar ==
  /\ need = "value" /\ left > 0
  /\ IF Len(stack) > MaxDepth THEN Invalid("depth")
     ELSE IF nodes >= MaxNodes THEN Invalid("nodes")
     ELSE /\ nodes' = nodes + 1
          /\ left' = left - 1
          /\ Store(stack)
          /\ UNCHANGED <<buffer, pool, answer>>

(* What a string takes of the pool: its bytes and a terminator. *)
Taken(s) == s.bytes + 1

\* Plausible slip: room is asked for the longest string there may be.
LongestLimit(s) ==
  IF s.bytes > MaxString THEN "string"
  ELSE IF pool + MaxString + 1 > PoolSize THEN "pool" ELSE "none"

(* parseString: which limit refuses it. *)
StringLimit(s) ==
  IF s.bytes > MaxString THEN "string"
  ELSE IF pool + Taken(s) > PoolSize THEN "pool" ELSE "none"

(* parseStringNode *)
Text(s) ==
  /\ need = "value" /\ s.raw <= left
  /\ IF Len(stack) > MaxDepth THEN Invalid("depth")
     ELSE IF nodes >= MaxNodes THEN Invalid("nodes")
     ELSE IF StringLimit(s) # "none" THEN Invalid(StringLimit(s))
     ELSE /\ nodes' = nodes + 1
          /\ pool' = pool + Taken(s)
          /\ left' = left - s.raw
          /\ Store(stack)
          /\ UNCHANGED <<buffer, answer>>

(* More was stored than there is room for.  What the lists hold then is    *)
(* not said: a key may be found in them or not, a document may be any.     *)
Overrun == members > MaxMembers \/ items > MaxItems

(* parseObject: a key with its colon.  The member is stored after its      *)
(* value.                                                                  *)
Key(s) ==
  /\ IsIn("object") /\ need \in {"first", "key"}
  /\ s.raw + 1 <= left
  /\ IF Top.count >= MaxPerObject \/ members >= MaxMembers THEN Invalid("members")
     ELSE IF StringLimit(s) # "none" THEN Invalid(StringLimit(s))
     ELSE IF s.text \in Top.keys /\ ~Overrun THEN Invalid("grammar")
     ELSE /\ stack' = [stack EXCEPT ![Len(stack)] = [@ EXCEPT !.key = s.text]]
          /\ pool' = pool + Taken(s)
          /\ left' = left - (s.raw + 1)
          /\ need' = "value"
          /\ UNCHANGED <<buffer, nodes, members, items, answer>>

(* parseArray: the head of its loop. *)
Item ==
  /\ IsIn("array") /\ need \in {"first", "item"}
  /\ IF items >= MaxItems THEN Invalid("items")
     ELSE need' = "value" /\ UNCHANGED <<buffer, left, stack, counts, answer>>

Comma ==
  /\ need = "after" /\ left > 0
  /\ left' = left - 1
  /\ need' = IF Top.kind = "object" THEN "key" ELSE "item"
  /\ UNCHANGED <<buffer, stack, counts, answer>>

Close ==
  /\ stack # <<>> /\ need \in {"first", "after"} /\ left > 0
  /\ left' = left - 1
  /\ Store(Below)
  /\ UNCHANGED <<buffer, nodes, pool, answer>>

(* The message was one value and nothing else. *)
Parsed ==
  /\ need = "end" /\ left = 0
  /\ need' = "judge" /\ Cleared
  /\ UNCHANGED <<buffer, left, answer>>
-----------------------------------------------------------------------------
(* ValidateDocument.  A document is its type, the state of each field of   *)
(* that type ("absent", "bad" or well formed), and whether it has others.  *)
(* A parameter is the set of profiles it suits.                            *)

Profiles == {"vi", "pcm"}
Absent == {"absent"}
Bad    == {"bad"}

Required == [hello |-> {"protocol", "versions"},
             start_stream |-> {"stream", "profile", "parameters"},
             stop_stream |-> {}, ping |-> {"correlation"}]
Optional == [hello |-> {"client_name", "authentication"}, start_stream |-> {"options"},
             stop_stream |-> {"stream_id", "reason"}, ping |-> {}]

AllParameters == {"sample_format", "channel_count", "channel_mask", "sample_rate",
                  "samples_per_frame"}
Needed == [vi |-> AllParameters \ {"samples_per_frame"}, pcm |-> AllParameters]

HasExactFields(d) == ~d.extra /\ \A f \in Required[d.type] : d.fields[f] # "absent"
HasBadField(d)    == \E f \in DOMAIN d.fields : d.fields[f] = "bad"

\* Plausible slip: the shape of the parameters is enough.
AnyParameters(d) == TRUE

(* HasExactFields of the parameters *)
ExactParameters(d) ==
  /\ ~d.moreParameters
  /\ {n \in AllParameters : d.parameters[n] # Absent} = Needed[d.fields["profile"]]

(* ValidateParameterShape *)
GoodShape(d) == \A n \in AllParameters : d.parameters[n] # Bad

(* ValidateParameters, which reads every parameter of the profile. *)
ValidateParameters(d) ==
  LET profile == d.fields["profile"] IN
  IF ~ExactParameters(d) THEN "UnsupportedParameters"
  ELSE IF \E n \in Needed[profile] : d.parameters[n] = Absent THEN "AbsentRead"
  ELSE IF \E n \in Needed[profile] : profile \notin d.parameters[n]
  THEN "UnsupportedParameters"
  ELSE "None"

ValidateDocument(d) ==
  IF \/ d.type \notin MessageTypes
     \/ ~HasExactFields(d) \/ HasBadField(d) THEN "InvalidMessage"
  ELSE IF d.type # "start_stream" THEN "None"
  ELSE IF ~GoodShape(d) THEN "InvalidMessage"
  ELSE IF d.fields["profile"] \notin Profiles THEN "UnsupportedProfile"
  ELSE ValidateParameters(d)

(* Which document it was is decided only here. *)
Judge(d) ==
  /\ need = "judge"
  /\ need' = "idle"
  /\ judged' = d /\ verdict' = ValidateDocument(d)
  /\ UNCHANGED <<buffer, left, stack, counts, refused>>
-----------------------------------------------------------------------------
ControlNext ==
  \/ \E type \in {"text", "continuation", "other"}, final \in BOOLEAN,
        size \in 0 .. MaxMessage + 1 : Frame(type, final, size)
  \/ Space \/ Malformed
  \/ Open("object") \/ Open("array") \/ Scalar
  \/ \E s \in Strings : Text(s) \/ Key(s)
  \/ Item \/ Comma \/ Close \/ Parsed
  \/ need = "judge" /\ \E d \in Documents : Judge(d)

ControlSpec == ControlInit /\ [][ControlNext]_controlVars
-----------------------------------------------------------------------------
(* A document is a tree with nothing lost: each node but the root is held  *)
(* by one member or one item, or its container is still open (parseObject, *)
(* parseArray).                                                            *)
DocumentIsATree ==
  need \notin {"idle", "judge"} =>
    nodes = members + items + Len(stack) + (IF need = "end" THEN 1 ELSE 0)

(* The pool was sized so that a message that fits the buffer never runs    *)
(* out of it (kStringPoolSize against kMaximumControlMessageSize).         *)
PoolSuffices == refused # "pool"

(* What is stored past the arrays is bounded by the nesting: at most one   *)
(* value of each open container is still to be stored when the array is    *)
(* found full.                                                             *)
OverrunIsBounded ==
  /\ members # 0 => members < MaxMembers + MaxDepth
  /\ items # 0 => items < MaxItems + MaxDepth

DocumentIsSound == DocumentIsATree /\ PoolSuffices /\ OverrunIsBounded

(* "The parser document is fixed-capacity": no member and no item is       *)
(* stored past the end of its array.                                       *)
StoresAreInside == members <= MaxMembers /\ items <= MaxItems

(* A stream is started only for a message that is wholly well formed and   *)
(* whose parameters are exactly the ones of its profile; a profile or its  *)
(* parameters are called unsupported only when nothing is malformed; and   *)
(* no parameter is read that was not found.                                *)
VerdictMatchesMessage ==
  LET wellFormed == HasExactFields(judged) /\ ~HasBadField(judged) /\ GoodShape(judged)
      profile    == judged.fields["profile"]
      exact      == /\ ~judged.moreParameters
                    /\ \A n \in AllParameters :
                         IF n \in Needed[profile] THEN profile \in judged.parameters[n]
                         ELSE judged.parameters[n] = Absent
  IN /\ verdict # "AbsentRead"
     /\ judged.type = "start_stream" =>
          /\ verdict = "None" <=> wellFormed /\ profile \in Profiles /\ exact
          /\ verdict = "UnsupportedProfile" => wellFormed /\ profile \notin Profiles
          /\ verdict = "UnsupportedParameters" => wellFormed /\ profile \in Profiles
=============================================================================
