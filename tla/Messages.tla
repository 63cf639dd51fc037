------------------------------ MODULE Messages ------------------------------
(***************************************************************************)
(* What each provider is sent for a signal (providers/) and how a template *)
(* replaces part of it (template.rs).                                      *)
(*                                                                         *)
(* `t` is what the templates make of this signal: for a part that has one, *)
(* a text, or that it fails.  A part is named once in all of the config    *)
(* (`line` is the console's, `json` the webhook's body), so that one set   *)
(* of templates serves every provider.  A text is the pieces that are      *)
(* shown; markup, details and links are left out.                          *)
(***************************************************************************)
EXTENDS Signals

CONSTANTS
  MaxDedupKey,   \* PagerDuty's limit on a key, in characters
  MaxAlias,      \* Opsgenie's
  MaxSummary,    \* PagerDuty's limit on a summary
  MaxMessage     \* Opsgenie's limit on a message

(* Mutant of Rendered: what a template yields is taken, even if blank.     *)
RenderedBlank(t, part) ==
  IF part \in DOMAIN t /\ t[part].ok THEN <<t[part].text>> ELSE <<>>

(* render: a template that fails, or leaves nothing to read, is ignored.   *)
Rendered(t, part) ==
  IF part \in DOMAIN t /\ t[part].ok /\ ~IsBlank(t[part].text)
  THEN <<t[part].text>> ELSE <<>>

(* How a message announces an acknowledge or a resolve.                    *)
Label(action) ==
  CASE action = "trigger" -> <<>>
    [] action = "acknowledge" -> <<<<"Acknowledged">>>>
    [] action = "resolve" -> <<<<"Resolved">>>>

CutKey(key, most) == [key EXCEPT !.text = Truncate(@, most)]

(* Mutant of PagerDuty: the key of an acknowledge or a resolve is not cut. *)
PagerDutyUncut(s, t) ==
  IF IsLifecycle(s.action) THEN [verb |-> s.action, key |-> KeyOf(s)]
  ELSE [verb |-> "trigger", key |-> CutKey(KeyOf(s), MaxDedupKey),
        text |-> Truncate(Or(Rendered(t, "summary"), s.title), MaxSummary),
        urgency |-> s.severity]

(* event_for; there is no success at PagerDuty.                            *)
PagerDuty(s, t) ==
  IF IsLifecycle(s.action)
  THEN [verb |-> s.action, key |-> CutKey(KeyOf(s), MaxDedupKey)]
  ELSE [verb |-> "trigger", key |-> CutKey(KeyOf(s), MaxDedupKey),
        text |-> Truncate(Or(Rendered(t, "summary"), s.title), MaxSummary),
        urgency |-> IF s.severity = "success" THEN "info" ELSE s.severity]

(* priority_for: P1 to P5.                                                 *)
PriorityFor(severity) ==
  CASE severity = "critical" -> 1 [] severity = "error" -> 2
    [] severity = "warning" -> 3 [] severity \in {"info", "success"} -> 5

(* alert_for and request_for.  The note may be empty.                      *)
Opsgenie(s, t) ==
  IF IsLifecycle(s.action)
  THEN [verb |-> IF s.action = "resolve" THEN "close" ELSE s.action,
        key |-> CutKey(KeyOf(s), MaxAlias), note |-> Or(s.message, s.title)]
  ELSE [verb |-> "create", key |-> CutKey(KeyOf(s), MaxAlias),
        text |-> Truncate(Or(Rendered(t, "message"), s.title), MaxMessage),
        priority |-> PriorityFor(s.severity)]

(* body_for: behind the emoji of the action, or else of the severity.      *)
SlackText(s, t) ==
  Or(Rendered(t, "text"), Or(Label(s.action), <<>>) \o s.title \o Or(s.message, <<>>))

(* card_for.                                                               *)
TeamsTitle(s, t) == Or(Rendered(t, "title"), Or(Label(s.action), <<>>) \o s.title)

(* subject_for: one line, behind the prefix that mail filters look for.    *)
EmailSubject(s, t, prefix) ==
  prefix \o Or(Rendered(t, "subject"), Or(Label(s.action), <<s.severity>>) \o s.title)
EmailBody(s, t) == Or(Rendered(t, "body"), s.title \o Or(s.message, <<>>))

(* line_for.                                                               *)
ConsoleLine(s, t) ==
  Or(Rendered(t, "line"), s.source \o Or(Label(s.action), <<s.severity>>) \o s.title)

(* body_for: the template's JSON, or the signal itself.                    *)
WebhookBody(s, t) ==
  IF Rendered(t, "json") # <<>> /\ t["json"].json
  THEN [json |-> TRUE, says |-> t["json"].text]
  ELSE [json |-> TRUE, says |-> s.title]
=============================================================================
