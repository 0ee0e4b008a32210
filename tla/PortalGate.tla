----------------------------- MODULE PortalGate -----------------------------
(***************************************************************************)
(* The two ways the portal opens a gate: the button of an access point     *)
(* (pages/app/AccessPoint.tsx, components/access/AccessPointAction.tsx)    *)
(* and the page that asks for a gate first (pages/app/OpenGate.tsx), with  *)
(* the countdown of a refusal (components/access/RateLimitNotice.tsx).     *)
(*                                                                         *)
(* A command is under way from the press to the answer, the question for   *)
(* the phone's location included.  Timers fire at any time once armed.     *)
(***************************************************************************)
EXTENDS Naturals, FiniteSets

CONSTANTS
    Gate,
    Cmd,          \* commands under way together
    NoGate,
    MaxPress      \* bound: commands sent by one page

ASSUME PortalGateAssumption ==
    /\ Gate # {} /\ NoGate \notin Gate /\ Cmd # {} /\ MaxPress \in Nat

VARIABLES
    entry,        \* which of the two is mounted: "button" or "picker"
    chosen,       \* the gate on the screen
    stage,        \* what the button or the page shows
    denial,       \* the refusal shown: none, rate_limited or quota_exceeded
    locked,       \* the picker's retryLocked
    errors,       \* timers of 2.4 s that put the button back
    sent,         \* the commands under way
    presses,      \* bound: commands sent so far
    counting,     \* history: gates whose retry_after_s has not passed
    doubled,      \* history: two commands were under way together
    early         \* history: the button sent a command before retry_after_s

gateVars == <<entry, chosen, stage, denial, locked, errors, sent, presses, counting, doubled, early>>
gateHistory == <<counting, early>>

Free == [cmd |-> "none", gate |-> NoGate]

UnderWay == {c \in Cmd : sent[c] # Free}

GateInit ==
    /\ entry \in {"button", "picker"}
    /\ chosen \in Gate
    /\ stage = IF entry = "button" THEN "idle" ELSE "pick"
    /\ denial = "none" /\ locked = FALSE /\ errors = 0
    /\ sent = [c \in Cmd |-> Free]
    /\ presses = 0
    /\ counting = {} /\ doubled = FALSE /\ early = FALSE

Send(c, cmd) ==
    /\ sent[c] = Free /\ presses < MaxPress
    /\ presses' = presses + 1
    /\ sent' = [sent EXCEPT ![c] = [cmd |-> cmd, gate |-> chosen]]
    /\ doubled' = (doubled \/ UnderWay # {})

-----------------------------------------------------------------------------
(* The button. *)

Pending == stage \in {"opening", "closing"}

(* disabled={isPending || denial?.reason === 'rate_limited'} *)
Disabled == Pending \/ denial = "rate_limited"

(* A press opens, or closes what it opened less than 25 s ago; a failed    *)
(* attempt may be repeated at once.                                        *)
Press(c) ==
    /\ entry = "button" /\ ~Disabled
    /\ Send(c, IF stage = "open" THEN "close" ELSE "open")
    /\ stage' = IF stage = "open" THEN "closing" ELSE "opening"
    /\ denial' = "none"
    /\ early' = (early \/ chosen \in counting)
    /\ UNCHANGED <<entry, chosen, locked, errors, counting>>

(* The label goes back 25 s after an opening. *)
FlipBack ==
    /\ entry = "button" /\ stage = "open"
    /\ stage' = "idle"
    /\ UNCHANGED <<entry, chosen, denial, locked, errors, sent, presses, doubled, gateHistory>>

(* Mutant of Idled: the timer of an earlier failure takes the notice of a  *)
(* later refusal away.                                                     *)
IdledClear == stage' = "idle" /\ denial' = "none"

Idled == stage' = "idle" /\ denial' = denial

(* Nothing cancels the timer of a failed attempt: it also fires into a     *)
(* later one.                                                              *)
ErrorOver ==
    /\ entry = "button" /\ errors > 0
    /\ errors' = errors - 1
    /\ Idled
    /\ UNCHANGED <<entry, chosen, locked, sent, presses, doubled, gateHistory>>

(* The failures after which a timer puts the button back. *)
TimedErrors == {"error", "quota_exceeded"}

ButtonAnswered(ans) ==
    /\ entry = "button"
    /\ stage' = IF ans = "opened" THEN "open" ELSE IF ans = "closed" THEN "idle" ELSE "error"
    /\ denial' = IF ans \in {"rate_limited", "quota_exceeded"} THEN ans ELSE denial
    /\ errors' = errors + (IF ans \in TimedErrors THEN 1 ELSE 0)
    /\ UNCHANGED locked

-----------------------------------------------------------------------------
(* The picker. *)

Reset ==
    /\ stage' = "pick" /\ denial' = "none" /\ locked' = FALSE

(* The list of gates stays there, whatever is under way; the gate that is  *)
(* chosen already may be picked again.                                     *)
Pick(g) ==
    /\ entry = "picker"
    /\ chosen' = g
    /\ Reset
    /\ UNCHANGED <<entry, errors, sent, presses, doubled, gateHistory>>

Want ==
    /\ entry = "picker" /\ stage = "pick"
    /\ stage' = "confirm"
    /\ UNCHANGED <<entry, chosen, denial, locked, errors, sent, presses, doubled, gateHistory>>

(* Wait, Open another, Back, and Try again once the countdown is over. *)
StartOver ==
    /\ entry = "picker"
    /\ stage \in {"confirm", "sent"} \/ (stage = "denied" /\ ~locked)
    /\ Reset
    /\ UNCHANGED <<entry, chosen, errors, sent, presses, doubled, gateHistory>>

StartOpen(c) ==
    /\ entry = "picker" /\ stage = "confirm"
    /\ Send(c, "open")
    /\ stage' = "locating"
    /\ UNCHANGED <<entry, chosen, denial, locked, errors, gateHistory>>

PickerAnswered(ans) ==
    /\ entry = "picker"
    /\ stage' = IF ans = "opened" THEN "sent" ELSE "denied"
    /\ denial' = IF ans \in {"rate_limited", "quota_exceeded"} THEN ans ELSE denial
    /\ locked' = IF ans \in {"rate_limited", "quota_exceeded"} THEN ans = "rate_limited" ELSE locked
    /\ UNCHANGED errors

-----------------------------------------------------------------------------
(* rateLimitInfo: a 429 is a spent quota or a wait; other errors have no   *)
(* notice.                                                                 *)
AnswersTo(cmd) ==
    IF cmd = "close" THEN {"closed", "error"}
    ELSE {"opened", "error", "rate_limited", "quota_exceeded"}

GateAnswered(c) ==
    /\ sent[c] # Free
    /\ \E ans \in AnswersTo(sent[c].cmd) :
          /\ ButtonAnswered(ans) \/ PickerAnswered(ans)
          /\ counting' = IF ans = "rate_limited" THEN counting \cup {sent[c].gate} ELSE counting
    /\ sent' = [sent EXCEPT ![c] = Free]
    /\ UNCHANGED <<entry, chosen, presses, doubled, early>>

(* The notice is on the screen and counts down. *)
CountingDown ==
    /\ denial = "rate_limited"
    /\ entry = "picker" => stage = "denied" /\ locked

(* useRetryCountdown reaches zero and onExpire frees the button; a notice  *)
(* that was replaced or left does nothing.                                 *)
RetryPasses ==
    /\ counting # {} \/ CountingDown
    /\ counting' = {}
    /\ IF CountingDown /\ entry = "button"
       THEN stage' = "idle" /\ denial' = "none"
       ELSE UNCHANGED <<stage, denial>>
    /\ locked' = IF CountingDown THEN FALSE ELSE locked
    /\ UNCHANGED <<entry, chosen, errors, sent, presses, doubled, early>>

(* What happens without the user. *)
GateAlone == (\E c \in Cmd : GateAnswered(c)) \/ ErrorOver \/ FlipBack \/ RetryPasses

GateNext ==
    \/ \E c \in Cmd : Press(c) \/ StartOpen(c)
    \/ \E g \in Gate : Pick(g)
    \/ Want \/ StartOver
    \/ GateAlone

-----------------------------------------------------------------------------
GateTypeOK ==
    /\ entry \in {"button", "picker"} /\ chosen \in Gate
    /\ stage \in IF entry = "button" THEN {"idle", "opening", "closing", "open", "error"}
                 ELSE {"pick", "confirm", "locating", "sent", "denied"}
    /\ denial \in {"none", "rate_limited", "quota_exceeded"} /\ locked \in BOOLEAN
    /\ errors \in 0 .. MaxPress
    /\ \A c \in UnderWay : sent[c].gate \in Gate /\ sent[c].cmd \in {"open", "close"}
    /\ counting \subseteq Gate
    /\ locked => entry = "picker"

(* A button refused with rate_limited sends nothing before retry_after_s   *)
(* has passed, whichever timers of earlier failures fire meanwhile; only   *)
(* two commands under way together can make it forget                      *)
(* (pages/app/AccessPoint.tsx:103, components/access/RateLimitNotice.tsx). *)
RetryHeld == early => doubled

(* A command under way, the message of one that failed, or its countdown. *)
GateWaits ==
    \/ stage \in {"opening", "closing", "locating", "error"}
    \/ locked /\ stage = "denied"
=============================================================================
