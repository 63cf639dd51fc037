---------------------------- MODULE CommandLine ----------------------------
(***************************************************************************)
(* The `opssignal` command (cli/src/main.rs): it reads its signals, builds *)
(* a client, sends them one after the other, sends the open groups, and    *)
(* exits with a code.                                                      *)
(*                                                                         *)
(* A signal goes to routes that send at once, to one that groups, or to    *)
(* both.  What a delivery comes to is any of its outcomes (Delivery); a    *)
(* group also leaves the open map when its timer fires or it is full       *)
(* (Groups), and is then sent by a task of its own.                        *)
(***************************************************************************)
EXTENDS Process, Naturals, Sequences, FiniteSets, SequencesExt

CONSTANTS
  MaxGroupSize   \* a group this full is sent at once

VARIABLES
  cli,       \* [at, next]: how far the command is
  results,   \* what it will report on: the statuses, in order
  open,      \* the members of the open group
  tasks,     \* the groups being sent: [members, awaited, status]
  code       \* <<>>, or the exit code

cliVars == <<cli, results, open, tasks, code>>

CliInit ==
  /\ cli = [at |-> "start", next |-> 1]
  /\ results = <<>> /\ open = {} /\ tasks = {} /\ code = <<>>

Good == {"delivered", "skipped", "grouped"}
Outcomes == {"delivered", "partial", "failed", "skipped"}

(* std::process::exit: no destructor runs, and every task is cut off.      *)
Exit(with) == code' = <<with>> /\ cli' = [cli EXCEPT !.at = "exited"]

(* Mutant of ReadInputs: the lines are checked as they are sent.           *)
ReadInputsLazily ==
  /\ cli.at = "start"
  /\ cli' = [cli EXCEPT !.at = "build"] /\ code' = code
  /\ UNCHANGED <<results, open, tasks>>

(* What reading an input says of it: one that cannot be parsed is refused  *)
(* by every command, one whose fields are wrong only by the batch's own    *)
(* check.                                                                  *)
Readable(in) ==
  in.is = "valid" \/ (in.is = "invalid" /\ world.command # "batch")

(* into_input, read_batch: every line is read before anything is sent.     *)
ReadInputs ==
  /\ cli.at = "start"
  /\ IF \A i \in DOMAIN world.inputs : Readable(world.inputs[i])
     THEN cli' = [cli EXCEPT !.at = "build"] /\ code' = code
     ELSE Exit(2)
  /\ UNCHANGED <<results, open, tasks>>

(* build_client, load_config.  A preview sends nothing and is over; it     *)
(* fails for a provider that the config does not have.                     *)
BuildClient ==
  /\ cli.at = "build"
  /\ IF world.config = "bad" THEN Exit(2)
     ELSE IF world.command = "preview" THEN Exit(0) \/ Exit(2)
     ELSE cli' = [cli EXCEPT !.at = "send"] /\ code' = code
  /\ UNCHANGED <<results, open, tasks>>

Task(members, awaited) == [members |-> members, awaited |-> awaited, status |-> "sending"]

(* notify_sync.  It holds the signal for its group, and delivers it on the *)
(* other routes; an error of the store after that delivery, or a signal    *)
(* that is not valid, ends the command.                                    *)
SendNext ==
  LET in   == world.inputs[cli.next]
      held == open \union {cli.next}
      full == Cardinality(held) = MaxGroupSize
      hold == in.is = "valid" /\ in.to # "direct"
  IN /\ cli.at = "send" /\ cli.next <= Len(world.inputs)
     /\ open' = CASE ~hold -> open [] hold /\ full -> {} [] hold /\ ~full -> held
     /\ tasks' = IF hold /\ full THEN tasks \union {Task(held, FALSE)} ELSE tasks
     /\ \/ /\ in.is = "valid"
           /\ \E status \in IF in.to = "grouped" THEN {"grouped"} ELSE Outcomes :
                results' = Append(results, status)
           /\ cli' = [cli EXCEPT !.next = @ + 1] /\ code' = code
        \/ /\ in.to # "grouped" \/ in.is # "valid"
           /\ Exit(2) /\ results' = results

(* group_wait is over: the group's own task takes and sends it.            *)
TimerTakes ==
  /\ cli.at # "exited" /\ open # {}
  /\ open' = {} /\ tasks' = tasks \union {Task(open, FALSE)}
  /\ UNCHANGED <<cli, results, code>>

(* A task ends.                                                            *)
TaskEnds ==
  /\ cli.at # "exited"
  /\ \E task \in tasks, status \in Outcomes :
       /\ task.status = "sending"
       /\ tasks' = (tasks \ {task}) \union {[task EXCEPT !.status = status]}
  /\ UNCHANGED <<cli, results, open, code>>

(* Mutant of TakeGroups: the open group is left to its timer.              *)
TakeGroupsNot ==
  /\ cli.at = "send" /\ cli.next > Len(world.inputs)
  /\ cli' = [cli EXCEPT !.at = "wait"]
  /\ UNCHANGED <<results, open, tasks, code>>

(* flush_groups; `acknowledge` and `resolve` have nothing to group.        *)
TakeGroups ==
  /\ cli.at = "send" /\ cli.next > Len(world.inputs)
  /\ cli' = [cli EXCEPT !.at = "wait"]
  /\ open' = {}
  /\ tasks' = IF open = {} THEN tasks ELSE tasks \union {Task(open, TRUE)}
  /\ UNCHANGED <<results, code>>

Ended(task) == task.awaited /\ task.status # "sending"

(* Mutant of Report: only the signals' own results count.                  *)
ReportSignals(all) ==
  IF \A i \in DOMAIN all : all[i] \in Good \/ i > Len(world.inputs) THEN 0 ELSE 1

(* report.                                                                 *)
Report(all) == IF Range(all) \subseteq Good THEN 0 ELSE 1

(* The groups have been sent, or the wait for them ran out: flush_groups   *)
(* drops those still being sent, and they have no result.                  *)
Finish ==
  /\ cli.at = "wait"
  /\ results' = results \o SetToSeq({task.status : task \in {t \in tasks : Ended(t)}})
  /\ Exit(Report(results'))
  /\ UNCHANGED <<open, tasks>>

CliNext ==
  ReadInputs \/ BuildClient \/ SendNext \/ TimerTakes \/ TaskEnds \/ TakeGroups \/ Finish

-----------------------------------------------------------------------------

Exited(with) == code = <<with>>

(* What a script may conclude from the code (report, main.rs:215-245).     *)
(* Behind 0, every signal was tried and was delivered, suppressed or held, *)
(* what was held was taken by some group, and of the groups that the       *)
(* command waited for, none ended badly; behind 1, a signal or such a      *)
(* group did.  Nothing is claimed of a group that was still being sent     *)
(* when the wait ran out, nor of one sent by a task of its own: they count *)
(* for neither code (CodeCoversDigests, NothingInFlight).  And "every line *)
(* is checked before anything is sent, so a bad line exits 2 with its line *)
(* number and sends nothing" (docs/cli.md:61-62).                          *)
CodeIsTrue ==
  LET asked == DOMAIN world.inputs IN
  world.command # "preview" =>
    /\ Exited(0) =>
         /\ cli.next > Len(world.inputs)
         /\ \A i \in asked : results[i] \in Good
         /\ \A task \in tasks : task.awaited => task.status \in Good \union {"sending"}
    /\ Exited(1) =>
         \/ \E i \in asked : results[i] \notin Good
         \/ \E task \in tasks : task.awaited /\ task.status \notin Good \union {"sending"}
    /\ Exited(0) \/ Exited(1) =>
         /\ open = {}
         /\ \A i \in asked : world.inputs[i].to # "direct" =>
              \E task \in tasks : i \in task.members
    /\ (\E i \in asked : world.inputs[i].is # "valid") =>
         results = <<>> /\ open = {} /\ tasks = {} /\ ~Exited(0) /\ ~Exited(1)

(* "The exit code covers every signal and digest" (docs/cli.md:64-65), and *)
(* it is 1 if "delivery failed or timed out" (docs/cli.md:111): behind 0,  *)
(* every group that the command waited for was delivered or suppressed.    *)
(* The code does not keep this, for a group whose wait ran out.            *)
CodeCoversDigests ==
  Exited(0) => \A task \in tasks : task.awaited => task.status \in Good

(* "The CLI uses notify_sync and then flush_groups, so it has nothing in   *)
(* flight when it exits" (docs/ARCHITECTURE.md:127-128).                   *)
NothingInFlight ==
  Exited(0) => \A task \in tasks : ~task.awaited => task.status # "sending"
=============================================================================
