---------------------------- MODULE ClientInput -----------------------------
(***************************************************************************)
(* One socket of the web server from its first byte: the request heads     *)
(* that the receive override shows to the scanner (origin_admission_esp),  *)
(* and, once a WebSocket request was accepted, the frames and messages of  *)
(* the transport.  A client sends whole requests, the network cuts them    *)
(* anywhere and joins the end of one with the beginning of the next.       *)
(***************************************************************************)
EXTENDS D2BControl, OriginScanner, FiniteSets

CONSTANTS
  Requests,    \* requests a client may send last
  Openers,     \* requests it may send before another one
  MaxRequests, \* bound: requests of one socket
  MaxBlock,    \* bound: bytes of one receive
  MaxWaiting   \* bound: bytes not received yet when the next request is sent

(* A request: [method, target, version, fields, eol, sep, end], where a    *)
(* field is [name, value], all of them sequences of bytes.                 *)
Texts == Seq(Bytes)
FieldType == [name : Texts, value : Texts]
RequestType ==
  [method : Texts, target : Texts, version : Texts, fields : Seq(FieldType),
   eol : Texts, sep : Texts, end : Texts]

ASSUME ClientAssumption ==
  /\ \A r \in Requests \cup Openers : r \in RequestType
  /\ MaxRequests \in Nat /\ MaxBlock \in Nat /\ MaxWaiting \in Nat

VARIABLES
  socket,   \* "closed", "http", "refused" by the override, or "websocket"
  sent,     \* the requests of this socket
  at,       \* bytes of them that recv has returned
  scanner,  \* SessionContext::scanner
  accepted  \* SessionContext::acceptedWebSocket

headVars == <<socket, sent, at, scanner, accepted>>
vars == <<headVars, controlVars>>

TypeOK ==
  /\ ControlTypeOK
  /\ socket \in {"closed", "http", "refused", "websocket"}
  /\ Len(sent) <= MaxRequests
  /\ at \in Nat
  /\ DOMAIN scanner = DOMAIN Fresh /\ scanner.bytes <= MaxHeader + 1
  /\ scanner.name <= MaxName /\ scanner.value <= MaxValue /\ scanner.target <= MaxTarget
  /\ accepted \in BOOLEAN

Init ==
  /\ ControlInit
  /\ socket = "closed" /\ sent = <<>> /\ at = 0 /\ scanner = Fresh /\ accepted = FALSE
-----------------------------------------------------------------------------
Joined(texts) ==
  LET upTo[n \in 0 .. Len(texts)] == IF n = 0 THEN <<>> ELSE upTo[n - 1] \o texts[n]
  IN upTo[Len(texts)]

FieldText(r, field) == field.name \o r.sep \o field.value \o r.eol

RequestText(r) ==
  r.method \o <<" ">> \o r.target \o <<" ">> \o r.version \o r.eol
    \o Joined([i \in DOMAIN r.fields |-> FieldText(r, r.fields[i])]) \o r.end

Wire == Joined([i \in DOMAIN sent |-> RequestText(sent[i])])

(* OpenCallback while the server admits: a context with a fresh scanner.   *)
Connect ==
  /\ socket = "closed"
  /\ socket' = "http" /\ scanner' = Fresh /\ accepted' = FALSE
  /\ UNCHANGED <<sent, at, controlVars>>

(* The client *)
Send(r) ==
  /\ socket = "http" /\ Len(sent) < MaxRequests
  /\ Len(Wire) - at <= MaxWaiting
  /\ sent' = Append(sent, r)
  /\ UNCHANGED <<socket, at, scanner, accepted, controlVars>>

(* RecvOverride: the block is given to the server whole, or not at all.    *)
Receive(length) ==
  /\ socket = "http" /\ at + length <= Len(Wire)
  /\ at' = at + length
  /\ scanner' = Consume(scanner, SubSeq(Wire, at + 1, at + length))
  /\ accepted' = (accepted \/ scanner'.phase = "Opaque")
  /\ socket' = IF scanner'.phase = "Failed" THEN "refused" ELSE socket
  /\ UNCHANGED <<sent, controlVars>>

(* Transport::open for a socket whose head was accepted.  Only the phase   *)
(* of the scanner is looked at from now on, and every byte passes.         *)
Upgrade ==
  /\ socket = "http" /\ accepted
  /\ socket' = "websocket"
  /\ sent' = <<>> /\ at' = 0 /\ scanner' = Goto(Fresh, "Opaque")
  /\ UNCHANGED <<accepted, controlVars>>

(* The socket closes, whoever wanted it: FreeSessionContext, and           *)
(* Transport::close for a client.  Between two messages only, as both run  *)
(* on the HTTPD task.                                                      *)
Disconnect ==
  /\ socket # "closed" /\ need = "idle"
  /\ socket' = "closed" /\ accepted' = FALSE
  /\ sent' = <<>> /\ at' = 0 /\ scanner' = Fresh
  /\ buffer' = Empty /\ need' = "idle" /\ left' = 0 /\ Cleared
  /\ refused' = "none" /\ judged' = NoDocument /\ verdict' = "None"

Control == socket = "websocket" /\ ControlNext /\ UNCHANGED headVars

Next ==
  \/ Connect
  \/ /\ socket = "http"
     /\ \E r \in (IF Len(sent) + 1 < MaxRequests THEN Openers ELSE Requests) : Send(r)
  \/ \E length \in 1 .. MaxBlock : Receive(length)
  \/ Upgrade \/ Disconnect \/ Control

Spec == Init /\ [][Next]_vars
-----------------------------------------------------------------------------
(* The reference: what a request must be, looked at as a whole.            *)

Lowered(text) == [i \in DOMAIN text |-> Lower(text[i])]
IsStream(r) == r.target = kStreamTarget

Named(r, kind) ==
  {i \in DOMAIN r.fields : Lowered(r.fields[i].name) = kFieldNames[kind]}

OnlyValue(r, kind) ==
  CHOOSE v \in {r.fields[i].value : i \in Named(r, kind)} : TRUE

IsHandshake(r) ==
  /\ \A kind \in {"origin", "upgrade", "connection"} : Cardinality(Named(r, kind)) = 1
  /\ OnlyValue(r, "origin") = ExpectedOrigin
  /\ Lowered(OnlyValue(r, "upgrade")) = kUpgradeValue
  /\ Lowered(OnlyValue(r, "connection")) = kConnectionValue

IsWellFormed(r) ==
  /\ r.method = kMethod /\ r.version = kVersion
  /\ r.eol = <<"cr", "lf">> /\ r.end = <<"cr", "lf">> /\ r.sep = <<":", " ">>
  /\ r.target # <<>> /\ r.target[1] = "/" /\ Len(r.target) <= MaxTarget
  /\ \A i \in DOMAIN r.target : IsTarget(r.target[i])
  /\ \A i \in DOMAIN r.fields :
       LET f == r.fields[i] IN
       /\ f.name # <<>> /\ Len(f.name) <= MaxName /\ Len(f.value) <= MaxValue
       /\ \A j \in DOMAIN f.name : IsToken(f.name[j])
       /\ \A j \in DOMAIN f.value : f.value[j] \notin Controls
  /\ Len(RequestText(r)) <= MaxHeader

Admissible(r) ==
  /\ IsWellFormed(r)
  /\ Named(r, "contentLength") = {} /\ Named(r, "transferEncoding") = {}
  /\ IF IsStream(r) THEN IsHandshake(r) ELSE Named(r, "upgrade") = {}

(* The first request that ends the reading of heads, 0 if there is none.   *)
Deciding ==
  LET ends == {i \in DOMAIN sent : IsStream(sent[i]) \/ ~Admissible(sent[i])}
  IN IF ends = {} THEN 0 ELSE CHOOSE i \in ends : \A j \in ends : i <= j

Before(i) == Len(Joined([j \in 1 .. i |-> RequestText(sent[j])]))

(* However the bytes were cut and joined (Consume): a socket is a          *)
(* WebSocket exactly when the whole head of an admissible stream request   *)
(* has come after admissible ordinary ones; it is refused by the end of    *)
(* the first request that is not admissible, and never before that one     *)
(* began.                                                                  *)
ScannerAgrees ==
  socket \in {"http", "refused"} =>
    LET i == Deciding IN
    /\ accepted <=> i # 0 /\ Admissible(sent[i]) /\ at >= Before(i)
    /\ socket = "refused" => i # 0 /\ ~Admissible(sent[i]) /\ at > Before(i - 1)
    /\ i # 0 /\ ~Admissible(sent[i]) /\ at >= Before(i) => socket = "refused"

(* Each part of the text ends where the next one begins: lines, fields and *)
(* the head end as they should, and no part holds the byte that ends it.   *)
Lacks(text, byte) == \A i \in DOMAIN text : text[i] # byte

IsFramed(r) ==
  /\ r.eol = <<"cr", "lf">> /\ r.end = <<"cr", "lf">> /\ r.sep = <<":", " ">>
  /\ Lacks(r.method, " ") /\ Lacks(r.target, " ") /\ Lacks(r.version, "cr")
  /\ \A i \in DOMAIN r.fields :
       LET f == r.fields[i] IN
       Lacks(f.name, ":") /\ Lacks(f.name, "cr") /\ Lacks(f.value, "cr")

(* The scanner agrees with the reference about one request.                *)
Judged(r) == Consume(Fresh, RequestText(r)).phase = "Failed" <=> ~Admissible(r)

(* A request whose text can be read in more than one way, as one that holds *)
(* the end of a head inside a value, which is two requests, is refused.     *)
UnframedRefused ==
  \A r \in Requests \cup Openers :
    ~IsFramed(r) => Consume(Fresh, RequestText(r)).phase = "Failed"
=============================================================================
