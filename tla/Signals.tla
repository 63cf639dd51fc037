------------------------------ MODULE Signals ------------------------------
(***************************************************************************)
(* What a signal is (signal.rs), what a route matches and groups by        *)
(* (routing.rs, group.rs) and the digest of a group (group.rs).            *)
(*                                                                         *)
(* A text is a sequence of characters, of which " " is blank; an option is *)
(* a sequence, empty for none.  A key is what it was made of: the caller's *)
(* text, the fields that are hashed, or a digest's group.  Hashing is      *)
(* taken to be injective.                                                  *)
(***************************************************************************)
EXTENDS Naturals, Sequences, SequencesExt, TLC

Severities == <<"info", "success", "warning", "error", "critical">>
Rank(severity) == CHOOSE i \in DOMAIN Severities : Severities[i] = severity

IsLifecycle(action) == action # "trigger"

IsBlank(text) == \A i \in DOMAIN text : text[i] = " "
Truncate(text, most) == SubSeq(text, 1, IF Len(text) < most THEN Len(text) ELSE most)

(* The fields that a signal may leave out.                                 *)
Optional == {"message", "environment", "service", "component", "team", "run_id",
             "correlation_id", "trace_id", "log_url"}

Key(text, hash, group) == [text |-> text, hash |-> hash, group |-> group]
GivenKey(text) == Key(text, <<>>, <<>>)

Or(option, default) == IF option = <<>> THEN default ELSE option[1]

(* Mutant of ComputeDedupKey: nothing between the fields.                  *)
ComputeDedupKeyRunOn(in) ==
  Key(<<>>, in.source \o in.event_type \o in.title \o Or(in.environment, <<>>), <<>>)

(* compute_dedup_key.                                                      *)
ComputeDedupKey(in) ==
  Key(<<>>, in.source \o <<"|">> \o in.event_type \o <<"|">> \o in.title \o <<"|">>
            \o Or(in.environment, <<>>), <<>>)

(* effective_dedup_key: a text that the caller gave, blank or not.         *)
EffectiveDedupKey(in) ==
  IF in.dedup_key # <<>> THEN in.dedup_key[1] ELSE ComputeDedupKey(in)

HasFields(in) == ~IsBlank(in.source) /\ ~IsBlank(in.event_type) /\ ~IsBlank(in.title)

(* validate: an acknowledge or a resolve may give just its key.            *)
Validate(in) ==
  IF IsLifecycle(in.action) /\ in.dedup_key # <<>>
  THEN ~IsBlank(in.dedup_key[1].text) ELSE HasFields(in)

(* fill_lifecycle_defaults: `known` is the title the alert was raised with.*)
FillLifecycleDefaults(in, known) ==
  [in EXCEPT !.source = IF IsBlank(@) THEN <<"opssignal">> ELSE @,
             !.event_type = IF IsBlank(@) THEN <<in.action>> ELSE @,
             !.title = IF IsBlank(@) THEN Or(known, EffectiveDedupKey(in).text) ELSE @]

(* Signal::from_input; the id and the time are left out.                   *)
FromInput(in) == [in EXCEPT !.dedup_key = <<EffectiveDedupKey(in)>>]
KeyOf(signal) == signal.dedup_key[1]

-----------------------------------------------------------------------------

(* RouteMatch: an empty list of severities, and a field left out, match    *)
(* every signal.                                                           *)
MatchesAnySeverity(rule, signal) ==
  /\ rule.environment # <<>> => signal.environment = rule.environment
  /\ rule.source # <<>> => signal.source = rule.source[1]
Matches(rule, signal) ==
  /\ rule.severity # {} => signal.severity \in rule.severity
  /\ MatchesAnySeverity(rule, signal)

(* field_value: as an option.  A field of the metadata is <<"metadata", k>>*)
(* and found by its name.                                                  *)
FieldValue(signal, field) ==
  CASE field[1] = "metadata" ->
         IF field[2] \in DOMAIN signal.metadata THEN <<signal.metadata[field[2]]>> ELSE <<>>
    [] field[1] \in {"source", "event_type", "title"} -> <<signal[field[1]]>>
    [] field[1] = "severity" -> <<<<signal.severity>>>>
    [] field[1] \in Optional \union {"dedup_key"} -> signal[field[1]]

GroupValues(by, signal) == [i \in DOMAIN by |-> FieldValue(signal, by[i])]

(* common: what every member sets to the same value.                       *)
Common(members, field) ==
  IF \A i \in DOMAIN members : members[i][field] = members[1][field]
  THEN members[1][field] ELSE <<>>

CommonText(members, field, default) ==
  IF \A i \in DOMAIN members : members[i][field] = members[1][field]
  THEN members[1][field] ELSE default

Worst(members) ==
  LET ranks == {Rank(members[i].severity) : i \in DOMAIN members}
  IN Severities[CHOOSE r \in ranks : \A q \in ranks : q <= r]

(* Mutant of Digest: it speaks with its first member's voice.              *)
DigestOfFirst(members, values) ==
  [members[1] EXCEPT !.dedup_key = <<Key(<<>>, <<>>, <<values>>)>>]

(* digest, for two or more.  Its message has a line for each member, of    *)
(* which the severity that begins it is kept; its key names the route and  *)
(* the values, so that one digest follows another.                         *)
Digest(members, values) ==
  LET own == [message |-> <<[i \in DOMAIN members |-> members[i].severity]>>,
              source |-> CommonText(members, "source", <<"opssignal">>),
              event_type |-> CommonText(members, "event_type", <<"digest">>),
              severity |-> Worst(members),
              title |-> members[1].title \o <<"+">>,
              metadata |-> [digest |-> <<"members">>],
              dedup_key |-> <<Key(<<>>, <<>>, <<values>>)>>,
              action |-> "trigger"]
  IN [f \in Optional \union DOMAIN own |->
        IF f \in DOMAIN own THEN own[f] ELSE Common(members, f)]
=============================================================================
