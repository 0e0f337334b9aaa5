------------------------------- MODULE TwoFactor -------------------------------
(* The authenticator of one dashboard account: logging in may hand out a new  *)
(* secret, a first code from it makes it the account's, a Super Admin's reset *)
(* takes it away. The secret on trial is shared by every tab that sets up,    *)
(* and mongoose's save writes only the fields that differ from what was read. *)
(* Attempt counters, tokens and sessions are left out.                        *)
EXTENDS Naturals, FiniteSets

CONSTANTS
    Secrets,   \* secrets generated, each once
    NoSecret,
    Requests,  \* logins and setups under way
    MaxResets  \* bound: resets by a Super Admin

SecretsAssumption == NoSecret \notin Secrets

VARIABLES
    doc,      \* the four twoFactor... fields of the Auth document
    enforced, \* the security settings require the role to use 2FA
    job,      \* what each request holds and does next
    fresh,    \* secrets not generated yet
    proved,   \* secrets a right code was entered for
    crossed,  \* an activation under way when the last reset came
    resets

vars == <<doc, enforced, job, fresh, proved, crossed, resets>>

Values == Secrets \union {NoSecret}
Docs == [enabled : BOOLEAN, secret : Values, temp : Values, reset : BOOLEAN]
Idle == [step |-> "idle", enabled |-> FALSE, reset |-> FALSE, temp |-> NoSecret]
Jobs == [step : {"idle", "setup", "code", "save"}, enabled : BOOLEAN, reset : BOOLEAN, temp : Values]

TypeOK ==
    /\ doc \in Docs
    /\ enforced \in BOOLEAN
    /\ job \in [Requests -> Jobs]
    /\ fresh \subseteq Secrets /\ proved \subseteq Secrets
    /\ crossed \in BOOLEAN
    /\ resets \in 0 .. MaxResets

Init ==
    /\ doc = [enabled |-> FALSE, secret |-> NoSecret, temp |-> NoSecret, reset |-> FALSE]
    /\ enforced \in BOOLEAN
    /\ job = [r \in Requests |-> Idle]
    /\ fresh = Secrets
    /\ proved = {}
    /\ crossed = FALSE
    /\ resets = 0

Goes(r, j) == job' = [job EXCEPT ![r] = j]

-----------------------------------------------------------------------------
(* Logging in                                                                 *)

\* A code is asked for, or a setup is due, or neither: then the session is given.
Login(r) ==
    /\ job[r].step = "idle"
    /\ \/ /\ doc.enabled /\ doc.secret # NoSecret
          /\ Goes(r, [Idle EXCEPT !.step = "code"])
       \/ /\ ~(doc.enabled /\ doc.secret # NoSecret)
          /\ doc.reset \/ enforced
          /\ Goes(r, [Idle EXCEPT !.step = "setup"])
    /\ UNCHANGED <<doc, enforced, fresh, proved, crossed, resets>>

\* A new secret goes on trial, whatever has become of the document since.
OnTrial(s) ==
    /\ s \in fresh
    /\ fresh' = fresh \ {s}
    /\ doc' = [doc EXCEPT !.temp = s]

LoginSetup(r) ==
    /\ job[r].step = "setup"
    /\ \E s \in Secrets : OnTrial(s)
    /\ Goes(r, Idle)
    /\ UNCHANGED <<enforced, proved, crossed, resets>>

\* The document is read again: a reset in between ends the login.
VerifyLogin(r) ==
    /\ job[r].step = "code"
    /\ proved' = IF doc.enabled /\ doc.secret # NoSecret THEN proved \union {doc.secret} ELSE proved
    /\ Goes(r, Idle)
    /\ UNCHANGED <<doc, enforced, fresh, crossed, resets>>

-----------------------------------------------------------------------------
(* Setting up                                                                 *)

InitSetup ==
    /\ \E s \in Secrets : OnTrial(s)
    /\ UNCHANGED <<enforced, job, proved, crossed, resets>>

\* setup2FAEnable reads the document; the code is of the secret on trial then.
CheckCode(r) ==
    /\ job[r].step = "idle"
    /\ doc.temp # NoSecret
    /\ Goes(r, [step |-> "save", enabled |-> doc.enabled, reset |-> doc.reset, temp |-> doc.temp])
    /\ proved' = proved \union {doc.temp}
    /\ UNCHANGED <<doc, enforced, fresh, crossed, resets>>

\* Mutant: the secret on trial at the time of the save.
TempThen(j) == doc.temp

\* auth.twoFactorSecret = auth.twoFactorTempSecret, of the document as it was read.
SecretOf(j) == j.temp

\* save: a flag that had its new value when it was read is not written.
Enable(r) ==
    /\ job[r].step = "save"
    /\ doc' = [enabled |-> doc.enabled \/ ~job[r].enabled,
               secret  |-> SecretOf(job[r]),
               temp    |-> NoSecret,
               reset   |-> doc.reset /\ ~job[r].reset]
    /\ Goes(r, Idle)
    /\ UNCHANGED <<enforced, fresh, proved, crossed, resets>>

ResetDoc == [enabled |-> FALSE, secret |-> NoSecret, temp |-> NoSecret, reset |-> TRUE]

ResetUser2FA ==
    /\ resets < MaxResets
    /\ resets' = resets + 1
    /\ doc' = ResetDoc
    /\ crossed' = \E r \in Requests : job[r].step = "save"
    /\ UNCHANGED <<enforced, job, fresh, proved>>

\* A Super Admin changes the security settings.
Enforce ==
    /\ enforced' = ~enforced
    /\ UNCHANGED <<doc, job, fresh, proved, crossed, resets>>

Next ==
    \/ InitSetup \/ ResetUser2FA \/ Enforce
    \/ \E r \in Requests : Login(r) \/ LoginSetup(r) \/ VerifyLogin(r) \/ CheckCode(r) \/ Enable(r)

Spec == Init /\ [][Next]_vars

-----------------------------------------------------------------------------
(* Nobody is shut out by his own setup: while 2FA is on, its secret is one    *)
(* the person has entered a code of, however many tabs were setting up and    *)
(* whatever a reset met on its way. And a reset stands, so that the next      *)
(* login sets up again, unless an activation was between its read and its     *)
(* save when the reset came.                                                  *)
SecretIsHeld ==
    /\ doc.enabled => doc.secret \in proved
    /\ doc.enabled /\ doc.reset => crossed

-----------------------------------------------------------------------------
(* Why: what an activation will save, a code was entered for, and if a reset  *)
(* came after it read the document, the reset has found it under way.         *)
ActivationsAreProved ==
    \A r \in Requests : job[r].step = "save" =>
        /\ job[r].temp \in proved
        /\ doc.reset /\ ~job[r].reset => crossed

IInv ==
    /\ doc \in Docs
    /\ job \in [Requests -> Jobs]
    /\ crossed \in BOOLEAN
    /\ ActivationsAreProved /\ SecretIsHeld
=============================================================================
