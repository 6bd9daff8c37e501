----------------------------- MODULE MediaVerify -----------------------------
(***************************************************************************)
(* The gate every write to a disk passes: monarch-wait-mirror-verify, its  *)
(* three callers and the oneshot unit monarch-mirror-verify.service, which *)
(* systemd starts at boot and the waiter starts again when it has failed.  *)
(* The waiter, the unit and the clock interleave freely; the unit's own    *)
(* timeouts and the waiter's counters are all that bounds a call.          *)
(***************************************************************************)
EXTENDS Naturals

CONSTANTS
    StartSec,         \* TimeoutStartSec of the unit, the "timeout" metadata
    StopSec,          \* TimeoutStopSec of the unit
    Margin,           \* what the waiter adds to the metadata (30)
    CallSec,          \* the "timeout 10s" of each systemctl call
    UnansweredLimit,  \* calls without an answer in a row (5)
    InactiveLimit,    \* answers "inactive" in all (10)
    MaxCalls          \* bound: calls of the waiter in one session

ASSUME Periods ==
    /\ StartSec \in Nat \ {0} /\ StopSec \in Nat /\ Margin \in Nat
    /\ CallSec \in Nat \ {0} /\ MaxCalls \in Nat
    /\ UnansweredLimit \in Nat \ {0} /\ InactiveLimit \in Nat \ {0}

(* 30 s, against ten polls a second apart and 15 s of TimeoutStopSec. *)
ASSUME MarginCovers == Margin >= InactiveLimit /\ Margin > StopSec + 1

VARIABLES
    medium,      \* "good", "damaged" or "flaky": what a checksum run reads
    metadata,    \* the checksum list, image path and timeout are in order
    unit,        \* ActiveState
    result,      \* Result, as of the unit's last run
    job,         \* a start job waits in systemd's queue
    ran,         \* seconds the unit has been in its timed state
    verified,    \* ghost: a checksum run of this boot ended in success
    stage,       \* "form", "partitioned" or "installed": the session
    caller,      \* whom the waiter runs for
    pc,          \* the waiter: "idle", "start", "poll", "sleep" or "passed"
    elapsed,     \* SECONDS - started
    call,        \* seconds the systemctl call has taken
    unanswered, inactive,   \* the waiter's two counters
    slow,        \* ghost: a systemctl call of this waiter was not immediate
    outcome,     \* how the last call of the waiter ended
    written,     \* the callers that wrote to the disk
    calls

unitVars == <<unit, result, job, ran, verified>>
waiterVars == <<pc, elapsed, call, unanswered, inactive, slow, outcome>>
sessionVars == <<stage, caller, written, calls>>
vars == <<medium, metadata, unitVars, waiterVars, sessionVars>>

Callers == {"tool", "execute", "install"}
Outcomes == {"none", "ok", "metadata", "cannot_start", "silent", "not_run",
             "damaged", "no_verdict", "too_slow", "timed_out"}

(* What one run of sha256sum --check may say of a medium. *)
Readings == [good |-> {"success"}, damaged |-> {"exit-code"},
             flaky |-> {"success", "exit-code"}]

Init ==
    /\ medium \in {"good", "damaged", "flaky"} /\ metadata \in BOOLEAN
    /\ unit = "inactive" /\ result = "success" /\ job = TRUE /\ ran = 0
    /\ verified = FALSE
    /\ stage = "form" /\ caller = "tool" /\ written = {} /\ calls = 0
    /\ pc = "idle" /\ elapsed = 0 /\ call = 0 /\ unanswered = 0
    /\ inactive = 0 /\ slow = FALSE /\ outcome = "none"

-----------------------------------------------------------------------------
(* The unit: Type=oneshot, RemainAfterExit=yes.                             *)

(* The queued job runs once the unit is down; what it showed before, failed *)
(* included, is what systemctl show answers until then.                     *)
StartJob ==
    /\ job /\ unit \in {"inactive", "failed"}
    /\ job' = FALSE /\ unit' = "activating" /\ result' = "success" /\ ran' = 0
    /\ UNCHANGED <<medium, metadata, verified, waiterVars, sessionVars>>

(* Variant: without RemainAfterExit the unit is inactive after a success. *)
CheckEndsForgets ==
    /\ unit = "activating"
    /\ \E reading \in Readings[medium] :
         /\ result' = reading
         /\ unit' = IF reading = "success" THEN "inactive" ELSE "failed"
         /\ verified' = (verified \/ reading = "success")
    /\ ran' = 0
    /\ UNCHANGED <<medium, metadata, job, waiterVars, sessionVars>>

CheckEnds ==
    /\ unit = "activating"
    /\ \E reading \in Readings[medium] :
         /\ result' = reading
         /\ unit' = IF reading = "success" THEN "active" ELSE "failed"
         /\ verified' = (verified \/ reading = "success")
    /\ ran' = 0
    /\ UNCHANGED <<medium, metadata, job, waiterVars, sessionVars>>

CheckTimesOut ==
    /\ unit = "activating" /\ ran = StartSec
    /\ unit' = "deactivating" /\ result' = "timeout" /\ ran' = 0
    /\ UNCHANGED <<medium, metadata, job, verified, waiterVars, sessionVars>>

Stopped ==
    /\ unit = "deactivating"
    /\ unit' = "failed" /\ ran' = 0
    /\ UNCHANGED <<medium, metadata, result, job, verified, waiterVars,
                   sessionVars>>

-----------------------------------------------------------------------------
(* The clock. The unit's two periods are deadlines: time does not pass them. *)
TimePasses ==
    /\ unit = "activating" => ran < StartSec
    /\ unit = "deactivating" => ran < StopSec
    /\ ran' = IF unit \in {"activating", "deactivating"} THEN ran + 1 ELSE ran
    /\ UNCHANGED <<medium, metadata, unit, result, job, verified>>

(* The owner fills in a form while the unit runs. *)
TickIdle ==
    /\ pc = "idle" /\ TimePasses
    /\ UNCHANGED <<waiterVars, sessionVars>>

(* A systemctl call that systemd does not answer at once. *)
TickCall ==
    /\ pc \in {"start", "poll"} /\ call < CallSec /\ TimePasses
    /\ elapsed' = elapsed + 1 /\ call' = call + 1 /\ slow' = TRUE
    /\ UNCHANGED <<pc, unanswered, inactive, outcome, sessionVars>>

-----------------------------------------------------------------------------
(* The waiter.                                                              *)

Return(verdict) ==
    /\ outcome' = verdict
    /\ pc' = IF verdict = "ok" THEN "passed" ELSE "idle"
    /\ stage' = IF verdict = "ok" THEN stage ELSE "form"

(* The partition tool is offered on the form, the free-space install writes *)
(* its partitions after it, the orchestrator verifies before its first      *)
(* phase: after the partitions, or straight away for a full-disk install.   *)
MayCall(c) ==
    \/ c \in {"tool", "execute"} /\ stage = "form"
    \/ c = "install" /\ stage \in {"form", "partitioned"}

(* The checks of the metadata, before anything is asked of systemd. *)
Call(c) ==
    /\ pc = "idle" /\ MayCall(c) /\ calls < MaxCalls
    /\ calls' = calls + 1 /\ caller' = c
    /\ elapsed' = 0 /\ call' = 0 /\ unanswered' = 0 /\ inactive' = 0
    /\ slow' = FALSE
    /\ IF metadata
       THEN pc' = "start" /\ outcome' = "none" /\ UNCHANGED stage
       ELSE Return("metadata")
    /\ UNCHANGED <<medium, metadata, unitVars, written>>

(* start --no-block: on an active unit nothing, on an activating one it     *)
(* joins the job that runs, otherwise it queues one.                        *)
Start ==
    /\ pc = "start"
    /\ job' = (job \/ unit \notin {"active", "activating"})
    /\ pc' = "poll" /\ call' = 0
    /\ UNCHANGED <<medium, metadata, unit, result, ran, verified, elapsed,
                   unanswered, inactive, slow, outcome, sessionVars>>

StartFails ==
    /\ pc = "start"
    /\ Return("cannot_start")
    /\ UNCHANGED <<medium, metadata, unitVars, elapsed, call, unanswered,
                   inactive, slow, caller, written, calls>>

(* Variant: Result alone, which is success while the first run is going on. *)
MeaningResultOnly(count) ==
    CASE result = "success" -> "ok"
      [] result = "timeout" -> "too_slow"
      [] OTHER -> "damaged"

(* What an answer means; "wait" goes on polling. *)
Meaning(count) ==
    CASE unit = "active" /\ result = "success" -> "ok"
      [] unit = "active" /\ result # "success" -> "no_verdict"
      [] unit = "failed" /\ result = "timeout" -> "too_slow"
      [] unit = "failed" /\ result # "timeout" -> "damaged"
      [] unit = "inactive" /\ count >= InactiveLimit -> "not_run"
      [] OTHER -> "wait"

Answer ==
    /\ pc = "poll"
    /\ unanswered' = 0 /\ call' = 0
    /\ inactive' = inactive + (IF unit = "inactive" THEN 1 ELSE 0)
    /\ IF Meaning(inactive') = "wait"
       THEN pc' = "sleep" /\ UNCHANGED <<stage, outcome>>
       ELSE Return(Meaning(inactive'))
    /\ UNCHANGED <<medium, metadata, unitVars, elapsed, slow, caller, written,
                   calls>>

(* Variant: continue without counting and without sleeping. *)
NoAnswerRetriesAtOnce ==
    /\ pc = "poll"
    /\ call' = (call + 1) % CallSec
    /\ slow' = TRUE
    /\ UNCHANGED <<medium, metadata, unitVars, pc, elapsed, unanswered,
                   inactive, outcome, sessionVars>>

(* Variant: the metadata's timeout without the margin. *)
LimitWithoutMargin == StartSec

Limit == StartSec + Margin

(* systemctl show failed, said nothing or ran into its timeout. *)
NoAnswer ==
    /\ pc = "poll"
    /\ unanswered' = unanswered + 1 /\ call' = 0 /\ slow' = TRUE
    /\ IF unanswered' < UnansweredLimit
       THEN pc' = "sleep" /\ UNCHANGED <<stage, outcome>>
       ELSE Return("silent")
    /\ UNCHANGED <<medium, metadata, unitVars, elapsed, inactive, caller,
                   written, calls>>

(* sleep 1, and the condition of the loop. *)
Sleep ==
    /\ pc = "sleep" /\ TimePasses
    /\ elapsed' = elapsed + 1
    /\ IF elapsed' <= Limit
       THEN pc' = "poll" /\ UNCHANGED <<stage, outcome>>
       ELSE Return("timed_out")
    /\ UNCHANGED <<call, unanswered, inactive, slow, caller, written, calls>>

(* cfdisk, run_partition_execute, or the phases after the first. *)
Write ==
    /\ pc = "passed"
    /\ written' = written \cup {caller} /\ pc' = "idle"
    /\ stage' = CASE caller = "tool" -> "form"
                  [] caller = "execute" -> "partitioned"
                  [] caller = "install" -> "installed"
    /\ UNCHANGED <<medium, metadata, unitVars, elapsed, call, unanswered,
                   inactive, slow, outcome, caller, calls>>

Unit == StartJob \/ CheckEnds \/ CheckTimesOut \/ Stopped
Waiter == Start \/ StartFails \/ Answer \/ NoAnswer \/ Sleep \/ Write
Next == Unit \/ TickIdle \/ TickCall \/ Waiter \/ \E c \in Callers : Call(c)

(* The waiter is a running process and systemd acts at its deadlines; it    *)
(* need not start the job, nor answer, nor does sha256sum have to finish.   *)
Fairness == WF_vars(Waiter) /\ WF_vars(CheckTimesOut) /\ WF_vars(Stopped)

Spec == Init /\ [][Next]_vars /\ Fairness

-----------------------------------------------------------------------------
TypeOK ==
    /\ medium \in {"good", "damaged", "flaky"} /\ metadata \in BOOLEAN
    /\ unit \in {"inactive", "activating", "active", "deactivating", "failed"}
    /\ result \in {"success", "exit-code", "timeout"}
    /\ job \in BOOLEAN /\ ran \in 0..(StartSec + StopSec)
    /\ verified \in BOOLEAN
    /\ stage \in {"form", "partitioned", "installed"}
    /\ caller \in Callers /\ written \subseteq Callers /\ calls \in 0..MaxCalls
    /\ pc \in {"idle", "start", "poll", "sleep", "passed"}
    /\ elapsed \in Nat /\ call \in 0..CallSec
    /\ unanswered \in 0..UnansweredLimit /\ inactive \in 0..InactiveLimit
    /\ slow \in BOOLEAN /\ outcome \in Outcomes

(* README.md: installation waits for the check before partitioning. A disk  *)
(* is written, by whichever caller, only when a checksum run of this boot   *)
(* ended in success, on a medium that can give one.                         *)
NoWriteWithoutVerdict ==
    written # {} => verified /\ medium # "damaged" /\ metadata

(* The margin of 30 s covers every delay of the unit the waiter allows, the *)
(* stop period of an earlier run included: unless systemctl itself was slow *)
(* or silent, the waiter gives up on its own clock only after the unit has  *)
(* run out of its own time, never while the check may still succeed.        *)
GivesUpAfterTheUnit ==
    [][outcome' = "timed_out" /\ outcome # "timed_out" /\ ~slow
       => unit \in {"deactivating", "failed"}]_vars

(* A verdict is given once. After a run ended in success no later call, of  *)
(* any caller and after any retry, blames the medium or the unit.           *)
GoodVerdictStands ==
    [][/\ verified
       /\ outcome' \in {"damaged", "no_verdict", "too_slow", "not_run"}
       => outcome' = outcome]_vars

(* Every call of the waiter returns, whether or not systemd ever starts the *)
(* unit, answers, or sees sha256sum end.                                    *)
CallReturns == pc # "idle" ~> pc = "idle"
-----------------------------------------------------------------------------
(* The strengthening the proofs use. *)

(* Success is final: nothing restarts or stops an active unit. *)
Gate ==
    /\ verified <=> unit = "active"
    /\ unit = "active" => result = "success" /\ medium # "damaged"
    /\ unit = "deactivating" => result = "timeout"
    /\ pc # "idle" => metadata
    /\ pc = "passed" => verified
    /\ NoWriteWithoutVerdict

(* How far the clock of a prompt waiter may be ahead of the unit's. *)
Pace ==
    /\ unit = "activating" => ~job /\ ran <= StartSec
    /\ unit = "deactivating" => ran <= StopSec
    /\ pc \in {"start", "poll", "sleep"} =>
         unanswered < UnansweredLimit /\ inactive < InactiveLimit
    /\ pc \in {"start", "poll", "sleep"} /\ ~slow =>
         /\ pc = "start" => elapsed = 0
         /\ unit = "inactive" =>
              inactive = elapsed + (IF pc = "sleep" THEN 1 ELSE 0)
         /\ unit = "deactivating" /\ job => elapsed <= ran
         /\ unit = "failed" /\ job =>
              elapsed <= StopSec + (IF pc = "poll" THEN 1 ELSE 0)
         /\ unit = "activating" => elapsed < ran + Margin
         /\ unit = "active" /\ pc = "sleep" => elapsed < Limit

IInv == TypeOK /\ Gate /\ Pace
=============================================================================
