--------------------------- MODULE OriginScanner ----------------------------
(***************************************************************************)
(* origin_admission.cpp: the scanner that reads every byte a socket        *)
(* receives until it has seen the whole head of a WebSocket request, and   *)
(* refuses the socket at the first byte that is out of order.  It keeps    *)
(* its place between two calls, so a head may be cut anywhere.             *)
(*                                                                         *)
(* A byte is one of the symbols below.  Each literal of the source stands  *)
(* as one of two or three symbols: what matters is that it can be cut, run *)
(* over its end, or share its beginning with another one (as connection    *)
(* and content-length do).                                                 *)
(***************************************************************************)
EXTENDS Naturals, Sequences

CONSTANTS
  MaxHeader,  \* kMaximumHeaderBytes
  MaxTarget,  \* kMaximumTargetBytes
  MaxName,    \* kMaximumFieldNameBytes
  MaxValue,   \* kMaximumFieldValueBytes
  MaxOrigin   \* kMaximumOriginBytes

kMethod          == <<"g", "t">>
kVersion         == <<"h", "1">>
kStreamTarget    == <<"/", "s">>
kUpgradeValue    == <<"w", "s">>
kConnectionValue == <<"u", "g">>
kNull            == <<"n", "l">>
ExpectedOrigin   == <<"h", "a">>    \* the policy's, of the access point's address

(* 4096 bytes of head, 1024 of target, 64 of a name, 1024 of a value, 191  *)
(* of an origin; a policy whose origin is longer is not taken.             *)
ASSUME ScannerAssumption ==
  /\ MaxHeader \in Nat \ {0} /\ MaxTarget \in Nat \ {0} /\ MaxName \in Nat \ {0}
  /\ MaxValue \in Nat \ {0} /\ MaxOrigin \in Nat /\ Len(ExpectedOrigin) <= MaxOrigin

kFieldNames == [origin       |-> <<"o", "g">>,
                upgrade      |-> <<"u", "g">>,
                connection   |-> <<"c", "n">>,
                contentLength |-> <<"c", "n", "l">>,
                transferEncoding |-> <<"t", "e">>]
FieldKinds == DOMAIN kFieldNames

Controls == {"cr", "lf", "tab", "ctl"}
Letters  == {"g", "t", "h", "1", "s", "w", "u", "n", "l", "a", "o", "c", "e", "O"}
Bytes    == Controls \cup Letters \cup {" ", "/", ":", ",", "#"}

(* One letter stands for the capitals. *)
Lower(byte) == IF byte = "O" THEN "o" ELSE byte

IsToken(byte) == byte \in Letters \cup {"#"}
IsTarget(byte) == byte \notin Controls \cup {" ", "#"}

(* State() of one request. *)
Fresh == [phase |-> "Method", reason |-> "None", literal |-> 0, bytes |-> 0,
          target |-> 0, onTarget |-> FALSE, stream |-> FALSE, saw |-> {},
          candidates |-> {}, name |-> 0, kind |-> "generic",
          value |-> 0, matches |-> FALSE, isNull |-> FALSE]

Goto(s, phase) == [s EXCEPT !.phase = phase]
Reject(s, reason) == [s EXCEPT !.phase = "Failed", !.reason = reason]
Expect(s, byte, want, phase, reason) ==
  IF byte = want THEN Goto(s, phase) ELSE Reject(s, reason)

(* Method and Version: one more byte of a literal. *)
Match(s, byte, literal, phase, reason) ==
  LET next == [s EXCEPT !.literal = @ + 1] IN
  IF byte # literal[next.literal] THEN Reject(s, reason)
  ELSE IF next.literal = Len(literal) THEN Goto(next, phase) ELSE next

\* Plausible slip: the length is not looked at.
UncountedTarget(s, byte) ==
  IF byte = " "
  THEN [s EXCEPT !.stream = s.onTarget /\ s.target = Len(kStreamTarget),
                 !.phase = "Version", !.literal = 0]
  ELSE IF ~IsTarget(byte) THEN Reject(s, "RequestTarget")
  ELSE [s EXCEPT !.target = @ + 1, !.onTarget = FALSE]

(* Target *)
TargetByte(s, byte) ==
  LET length == s.target + 1
      fits   == length <= Len(kStreamTarget) /\ byte = kStreamTarget[length]
  IN IF byte = " "
     THEN [s EXCEPT !.stream = s.onTarget /\ s.target = Len(kStreamTarget),
                    !.phase = "Version", !.literal = 0]
     ELSE IF ~IsTarget(byte) \/ length > MaxTarget
     THEN Reject(s, "RequestTarget")
     ELSE [s EXCEPT !.target = length, !.onTarget = @ /\ fits]

AddFieldNameByte(s, byte) ==
  [s EXCEPT !.name = @ + 1,
            !.candidates = {k \in @ : /\ s.name < Len(kFieldNames[k])
                                      /\ Lower(byte) = kFieldNames[k][s.name + 1]}]

ClassifyField(s) ==
  LET found == {k \in s.candidates : Len(kFieldNames[k]) = s.name}
  IN IF found = {} THEN "generic" ELSE CHOOSE k \in found : TRUE

(* A field of the stream's handshake is watched; the others only counted. *)
BeginValue(s) ==
  LET kind    == ClassifyField(s)
      watched == s.stream /\ kind \in {"origin", "upgrade", "connection"}
  IN IF kind \in {"contentLength", "transferEncoding"} THEN Reject(s, "Body")
     ELSE IF kind = "upgrade" /\ ~s.stream THEN Reject(s, "WrongWebSocketTarget")
     ELSE IF watched /\ kind \in s.saw THEN Reject(s, "Duplicate")
     ELSE [s EXCEPT !.phase = "ValueSpace",
                    !.kind = IF watched THEN kind ELSE "generic",
                    !.saw = IF watched THEN @ \cup {kind} ELSE @,
                    !.value = 0, !.matches = TRUE, !.isNull = TRUE]

Prefixed(byte, index, literal) == index <= Len(literal) /\ byte = literal[index]

AddValueByte(s, byte) ==
  LET n == s.value + 1 IN
  IF byte \in Controls THEN Reject(s, "MalformedHeader")
  ELSE IF n > MaxValue THEN Reject(s, "FieldValueTooLong")
  ELSE CASE s.kind = "origin" ->
              IF n > MaxOrigin \/ byte \in {",", " "} THEN Reject(s, "MalformedOrigin")
              ELSE [s EXCEPT !.value = n,
                             !.matches = @ /\ Prefixed(byte, n, ExpectedOrigin),
                             !.isNull = @ /\ Prefixed(byte, n, kNull)]
         [] s.kind = "upgrade" ->
              [s EXCEPT !.value = n, !.matches = @ /\ Prefixed(Lower(byte), n, kUpgradeValue)]
         [] s.kind = "connection" ->
              [s EXCEPT !.value = n, !.matches = @ /\ Prefixed(Lower(byte), n, kConnectionValue)]
         [] OTHER -> [s EXCEPT !.value = n]

FinishValue(s) ==
  CASE s.kind = "origin" /\ s.value = 0 -> Reject(s, "EmptyOrigin")
    [] s.kind = "origin" /\ s.isNull /\ s.value = Len(kNull) -> Reject(s, "NullOrigin")
    [] s.kind = "origin" /\ ~(s.matches /\ s.value = Len(ExpectedOrigin)) ->
         Reject(s, "OriginMismatch")
    [] s.kind = "upgrade" /\ ~(s.matches /\ s.value = Len(kUpgradeValue)) ->
         Reject(s, "InvalidUpgrade")
    [] s.kind = "connection" /\ ~(s.matches /\ s.value = Len(kConnectionValue)) ->
         Reject(s, "InvalidConnection")
    [] OTHER -> Goto(s, "FieldLf")

\* Plausible slip: the bytes of the last request count against the next one.
FinishKeepsCount(s) ==
  IF ~s.stream THEN [Fresh EXCEPT !.bytes = s.bytes]
  ELSE IF s.saw = {"origin", "upgrade", "connection"} THEN Goto(s, "Opaque")
  ELSE Reject(s, "Missing")

(* FinishHeaders: the stream's head ends the scan, any other one starts a  *)
(* new request.                                                            *)
FinishHeaders(s) ==
  IF ~s.stream THEN Fresh
  ELSE IF s.saw = {"origin", "upgrade", "connection"} THEN Goto(s, "Opaque")
  ELSE Reject(s, "Missing")

ScanByte(s, byte) ==
  CASE s.phase = "Method"      -> Match(s, byte, kMethod, "MethodSpace", "Method")
    [] s.phase = "MethodSpace" -> Expect(s, byte, " ", "TargetStart", "RequestLine")
    [] s.phase = "TargetStart" ->
         Expect([s EXCEPT !.target = 1, !.onTarget = TRUE], byte, "/", "Target", "RequestTarget")
    [] s.phase = "Target"        -> TargetByte(s, byte)
    [] s.phase = "Version"       -> Match(s, byte, kVersion, "RequestLineCr", "Version")
    [] s.phase = "RequestLineCr" -> Expect(s, byte, "cr", "RequestLineLf", "RequestLine")
    [] s.phase = "RequestLineLf" -> Expect(s, byte, "lf", "HeaderLineStart", "RequestLine")
    [] s.phase = "HeaderLineStart" ->
         IF byte = "cr" THEN Goto(s, "HeadersEndLf")
         ELSE IF byte \in {" ", "tab"} THEN Reject(s, "ObsFold")
         ELSE IF ~IsToken(byte) THEN Reject(s, "MalformedHeader")
         ELSE Goto(AddFieldNameByte([s EXCEPT !.candidates = FieldKinds, !.name = 0], byte),
                   "FieldName")
    [] s.phase = "FieldName" ->
         IF byte = ":" THEN BeginValue(s)
         ELSE IF ~IsToken(byte) THEN Reject(s, "MalformedHeader")
         ELSE IF s.name >= MaxName THEN Reject(s, "FieldNameTooLong")
         ELSE AddFieldNameByte(s, byte)
    [] s.phase = "ValueSpace" -> Expect(s, byte, " ", "Value", "MalformedHeader")
    [] s.phase = "Value" ->
         IF byte = "cr" THEN FinishValue(s)
         ELSE IF byte = "lf" THEN Reject(s, "BareLf")
         ELSE AddValueByte(s, byte)
    [] s.phase = "FieldLf"      -> Expect(s, byte, "lf", "HeaderLineStart", "MalformedHeader")
    [] s.phase = "HeadersEndLf" ->
         IF byte = "lf" THEN FinishHeaders(s) ELSE Reject(s, "MalformedHeader")

(* One byte against the limit of the whole head, then against its place.   *)
ScanCounted(s, byte) ==
  LET counted == [s EXCEPT !.bytes = @ + 1]
  IN IF s.phase \in {"Opaque", "Failed"} THEN s
     ELSE IF counted.bytes > MaxHeader THEN Reject(counted, "HeaderTooLong")
     ELSE ScanByte(counted, byte)

(* Consume: one block as recv returned it. *)
Consume(s, block) ==
  LET after[n \in 0 .. Len(block)] ==
        IF n = 0 THEN s ELSE ScanCounted(after[n - 1], block[n])
  IN after[Len(block)]
=============================================================================
