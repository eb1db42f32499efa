--------------------------- MODULE MCClientInput ----------------------------
(* Heads that are right, and heads with one thing wrong, missing, twice or *)
(* too long.                                                               *)
EXTENDS ClientInput, MCD2BControl, SequencesExt

Field(name, value) == [name |-> name, value |-> value]
Crlf == <<"cr", "lf">>

Good == <<Field(<<"O", "g">>, <<"h", "a">>),
          Field(<<"u", "g">>, <<"w", "s">>),
          Field(<<"c", "n">>, <<"u", "g">>)>>

Odd == {Field(<<"o", "g">>, v) : v \in {<<"h", "a">>, <<>>, <<"n", "l">>, <<"h", "a", "h">>, <<"h", ",">>}}
       \cup {Field(<<"u", "g">>, v) : v \in {<<"w", "s">>, <<"w">>}}
       \cup {Field(<<"c", "n">>, v) : v \in {<<"u", "g">>, <<"u", "g", "g">>}}
       \cup {Field(<<"c", "n", "l">>, <<"1">>), Field(<<"t", "e">>, <<>>)}
       \cup {Field(n, <<>>) : n \in {<<"#">>, <<"l">>, <<"l", "l", "l", "l", "l">>, <<"tab">>, <<"l", ",">>, <<>>}}
       \cup {Field(<<"l">>, v) : v \in {<<" ", "l">>, <<"ctl">>, <<"l", "l", "l", "l", "l">>}}

Request(target, fields) ==
  [method |-> <<"g", "t">>, target |-> target, version |-> <<"h", "1">>,
   fields |-> fields, eol |-> Crlf, sep |-> <<":", " ">>, end |-> Crlf]

FieldLists ==
  {<<>>, Good, <<Good[3], Good[1], Good[2]>>}
    \cup {InsertAt(Good, i, f) : i \in {1, 3, 4}, f \in Odd}
    \cup {ReplaceAt(Good, i, f) : i \in 1 .. 3, f \in Odd}
    \cup {<<f>> : f \in Odd}
    \cup {Good \o <<f, f>> : f \in Odd} \cup {Good \o <<f, f, f>> : f \in Odd}

StreamRequest == Request(<<"/", "s">>, Good)
PlainRequest  == Request(<<"/">>, <<Field(<<"l">>, <<"l">>)>>)

MCRequests ==
  {Request(t, f) : t \in {<<"/", "s">>, <<"/", "l">>}, f \in FieldLists}
  \cup {Request(t, <<>>) : t \in {<<>>, <<"/">>, <<"s">>, <<"/", "#">>, <<"/", "tab">>,
                                  <<"/", "l", "l", "l">>, <<"/", "l", "l", "l", "l">>}}
  \cup {Request(<<"/", "s", "s">>, Good)}
  \cup {[StreamRequest EXCEPT !.method = m] : m \in {<<"g">>, <<"g", "t", "t">>, <<"h", "t">>}}
  \cup {[StreamRequest EXCEPT !.version = v] : v \in {<<"h">>, <<"h", "1", "1">>}}
  \cup {[StreamRequest EXCEPT !.eol = e] : e \in {<<"lf">>, <<"cr">>, <<>>}}
  \cup {[StreamRequest EXCEPT !.sep = e] : e \in {<<":">>, <<" ", ":">>, <<":", " ", " ">>}}
  \cup {[r EXCEPT !.end = e] : e \in {<<"lf">>, <<" ", "lf">>}, r \in {StreamRequest, PlainRequest}}

MCOpeners ==
  {PlainRequest, Request(<<"/", "l">>, <<>>), StreamRequest,
   Request(<<"/", "s">>, <<Good[1], Good[2]>>), Request(<<"/">>, <<Good[2]>>)}

(* What the proofs suppose of the requests that break their lines.         *)
ASSUME EachIsRefused == UnframedRefused
=============================================================================
