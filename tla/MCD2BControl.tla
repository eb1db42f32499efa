---------------------------- MODULE MCD2BControl ----------------------------
(* A few strings, and the documents that differ in what the validation     *)
(* looks at.                                                               *)
EXTENDS D2BControl

MCStrings == {[text |-> "", bytes |-> 0, raw |-> 2], [text |-> "a", bytes |-> 1, raw |-> 3],
              [text |-> "b", bytes |-> 1, raw |-> 7], [text |-> "c", bytes |-> 6, raw |-> 8],
              [text |-> "d", bytes |-> 9, raw |-> 11]}

Fields(type) == Required[type] \cup Optional[type]

Values(name) ==
  CASE name = "sample_rate"       -> {Absent, Bad, {}, {"vi"}, {"vi", "pcm"}}
    [] name = "samples_per_frame" -> {Absent, Bad, {}, {"pcm"}}
    [] OTHER                      -> {Absent, Bad, {}, {"vi"}, {"pcm"}}

StartOf(profile, parameters, more) ==
  [type |-> "start_stream", extra |-> FALSE, parameters |-> parameters, moreParameters |-> more,
   fields |-> [f \in Fields("start_stream") |-> IF f = "profile" THEN profile ELSE "good"]]

ViParameters == [n \in AllParameters |-> IF n = "samples_per_frame" THEN Absent
                                         ELSE IF n = "sample_rate" THEN {"vi", "pcm"} ELSE {"vi"}]

ParameterSets ==
  {p \in [AllParameters -> UNION {Values(n) : n \in AllParameters}] :
     \A n \in AllParameters : p[n] \in Values(n)}

MCDocuments ==
  {[type |-> "other"]}
  \cup UNION {{[type |-> t, fields |-> f, extra |-> e] :
                 f \in [Fields(t) -> {"absent", "bad", "good"}], e \in BOOLEAN} :
              t \in {"hello", "stop_stream", "ping"}}
  \cup {[StartOf("vi", ViParameters, FALSE) EXCEPT
            !.fields = [f EXCEPT !["profile"] = IF @ = "good" THEN "vi" ELSE @], !.extra = e] :
          f \in [Fields("start_stream") -> {"absent", "bad", "good"}], e \in BOOLEAN}
  \cup {StartOf(profile, p, more) : profile \in Profiles \cup {"good"}, p \in ParameterSets, more \in BOOLEAN}
=============================================================================
