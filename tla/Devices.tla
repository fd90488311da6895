------------------------------ MODULE Devices -------------------------------
(***************************************************************************)
(* Device handling (src/src/core/devices) of one user: after better-auth    *)
(* has created a session, handleSessionCreated() stores its fingerprint,    *)
(* lists the user's sessions, revokes the least recently seen one when      *)
(* there are too many, and mails about a new device unless a mail went out  *)
(* lately.  Each step is awaited, so the handling of several sign-ins and   *)
(* the user's own revocations interleave.                                   *)
(***************************************************************************)
EXTENDS Integers, SequencesExt

CONSTANTS
  Sessions,   \* sign-ins
  Prints,     \* fingerprints of devices
  Cap,        \* maxDevicesPerUser
  Nobody,     \* no session to revoke
  Unmarked    \* the fingerprint of a session is not stored

ASSUME DeviceAssumption ==
  /\ IsFiniteSet(Sessions)
  /\ Nobody \notin Sessions
  /\ Unmarked \notin Prints
  /\ Cap \in Nat \ {0}

VARIABLES
  signedIn,  \* the user's session rows, least recently seen first
  print,     \* the fingerprint of a session, once stored
  stage,     \* how far the handling of a sign-in is
  victim,    \* revokeSessionId of its decision
  recent,    \* NewDeviceThrottle.lastSent is within the window
  excused,   \* history: sign-ins that made no room although they were handled
  mails,     \* history: mails in the current window
  crowd      \* history: two handlings were mailing at once in it

deviceVars == <<signedIn, print, stage, victim, recent, excused, mails, crowd>>

Stage == {"none", "mark", "list", "revoke", "mail", "send", "over"}

Rows == {signedIn[i] : i \in DOMAIN signedIn}

\* Type invariant of the sessions and the handling of sign-ins.
DeviceTypeOK ==
  /\ signedIn \in Seq(Sessions)
  /\ print \in [Sessions -> Prints \cup {Unmarked}]
  /\ stage \in [Sessions -> Stage]
  /\ victim \in [Sessions -> Sessions \cup {Nobody}]
  /\ recent \in BOOLEAN
  /\ excused \subseteq Sessions
  /\ mails \in Nat
  /\ crowd \in BOOLEAN

DeviceInit ==
  /\ signedIn = <<>>
  /\ print = [s \in Sessions |-> Unmarked]
  /\ stage = [s \in Sessions |-> "none"]
  /\ victim = [s \in Sessions |-> Nobody]
  /\ recent = FALSE
  /\ excused = {}
  /\ mails = 0
  /\ crowd = FALSE

-----------------------------------------------------------------------------
To(s, next) == stage' = [stage EXCEPT ![s] = next]

Without(t) ==
  IF t \in Rows
  THEN RemoveAt(signedIn, CHOOSE i \in DOMAIN signedIn : signedIn[i] = t)
  ELSE signedIn

\* The row of t is deleted, and its fingerprint with it; the handling of t
\* remembers it until it has decided.
Delete(t) ==
  /\ signedIn' = Without(t)
  /\ print' = [s \in Sessions |->
                 IF s = t /\ stage[s] # "list" THEN Unmarked ELSE print[s]]

\* better-auth creates the session; session.create.after calls the handler.
SignIn(s) ==
  /\ stage[s] = "none"
  /\ signedIn' = Append(signedIn, s)
  /\ To(s, "mark")
  /\ UNCHANGED <<print, victim, recent, excused, mails, crowd>>

\* The session is looked up: updatedAt moves it behind the others.
Seen(s) ==
  /\ s \in Rows
  /\ signedIn # Append(Without(s), s)
  /\ signedIn' = Append(Without(s), s)
  /\ UNCHANGED <<print, stage, victim, recent, excused, mails, crowd>>

\* DELETE /me/devices/:id, sign-out, or the session expires.
SignOut(s) ==
  /\ s \in Rows
  /\ Delete(s)
  /\ UNCHANGED <<stage, victim, recent, excused, mails, crowd>>

\* setFingerprint(), which moves updatedAt too; it throws when the row is gone.
Mark(s) ==
  /\ stage[s] = "mark"
  /\ s \in Rows
  /\ \E f \in Prints : print' = [print EXCEPT ![s] = f]
  /\ signedIn' = Append(Without(s), s)
  /\ To(s, "list")
  /\ UNCHANGED <<victim, recent, excused, mails, crowd>>

\* A query before the decision throws: the handling ends with a log line.
GiveUp(s) ==
  /\ stage[s] \in {"mark", "list"}
  /\ To(s, "over")
  /\ excused' = excused \cup {s}
  /\ UNCHANGED <<signedIn, print, victim, recent, mails, crowd>>

Others(s) == Rows \ {s}

\* fingerprintHash of another session matches
Known(s) == \E t \in Others(s) : print[t] = print[s]

\* Variant of TooMany: the new session is not counted.
TooManyWithout(s) == Cardinality(Others(s)) > Cap

\* totalAfter > maxDevicesPerUser
TooMany(s) == Cardinality(Others(s)) + 1 > Cap

\* selectOldestSessionForRevoke()
Oldest(s) == Head(Without(s))

\* listForUser() and decideDeviceHandling(): a first sign-in or a known device
\* ends the handling.
Decide(s) ==
  /\ stage[s] = "list"
  /\ IF Others(s) = {} \/ Known(s)
     THEN /\ To(s, "over")
          /\ excused' = IF Others(s) = {} THEN excused ELSE excused \cup {s}
          /\ UNCHANGED victim
     ELSE /\ To(s, IF TooMany(s) THEN "revoke" ELSE "mail")
          /\ victim' = [victim EXCEPT ![s] = IF TooMany(s) THEN Oldest(s) ELSE Nobody]
          /\ UNCHANGED excused
  /\ UNCHANGED <<signedIn, print, recent, mails, crowd>>

\* revoke(): deletes the row, if it is still there.
RevokeOldest(s) ==
  /\ stage[s] = "revoke"
  /\ Delete(victim[s])
  /\ victim' = [victim EXCEPT ![s] = Nobody]
  /\ excused' = IF victim[s] \in Rows THEN excused ELSE excused \cup {s}
  /\ To(s, "mail")
  /\ UNCHANGED <<recent, mails, crowd>>

\* The delete throws and is swallowed.
RevokeFails(s) ==
  /\ stage[s] = "revoke"
  /\ victim' = [victim EXCEPT ![s] = Nobody]
  /\ excused' = excused \cup {s}
  /\ To(s, "mail")
  /\ UNCHANGED <<signedIn, print, recent, mails, crowd>>

\* sendNewDevice(): check() denies, or the mail is handed to the outbox.
Check(s) ==
  /\ stage[s] = "mail"
  /\ To(s, IF recent THEN "over" ELSE "send")
  /\ crowd' = (crowd \/ (~ recent /\ \E t \in Sessions : stage[t] = "send"))
  /\ UNCHANGED <<signedIn, print, victim, recent, excused, mails>>

\* The mail is dispatched; record().
Send(s) ==
  /\ stage[s] = "send"
  /\ mails' = mails + 1
  /\ recent' = TRUE
  /\ To(s, "over")
  /\ UNCHANGED <<signedIn, print, victim, excused, crowd>>

\* No address, or the dispatch fails: no slot is used.
SendFails(s) ==
  /\ stage[s] = "send"
  /\ To(s, "over")
  /\ UNCHANGED <<signedIn, print, victim, recent, excused, mails, crowd>>

\* An hour passes since the last mail.
WindowPasses ==
  /\ recent
  /\ recent' = FALSE
  /\ mails' = 0
  /\ crowd' = (\E s \in Sessions : stage[s] = "send")
  /\ UNCHANGED <<signedIn, print, stage, victim, excused>>

HandleSessionCreated(s) ==
  \/ Mark(s) \/ Decide(s) \/ GiveUp(s)
  \/ RevokeOldest(s) \/ RevokeFails(s)
  \/ Check(s) \/ Send(s) \/ SendFails(s)

DeviceNext ==
  \/ \E s \in Sessions : SignIn(s) \/ Seen(s) \/ SignOut(s) \/ HandleSessionCreated(s)
  \/ WindowPasses

DeviceSpec == DeviceInit /\ [][DeviceNext]_deviceVars

-----------------------------------------------------------------------------
Unsettled == {s \in Sessions : stage[s] \in {"mark", "list", "revoke"}}

(***************************************************************************)
(* The cap on a user's sessions: what exceeds it is no more than the        *)
(* sign-ins that are still being handled, those that made no room because   *)
(* their device was known, and those whose queries failed or whose victim   *)
(* another sign-in had already revoked.                                     *)
(***************************************************************************)
CapIsKept ==
  Cardinality(Rows) <= Cap + Cardinality(Unsettled) + Cardinality(excused)

(***************************************************************************)
(* A user gets one mail about new devices per window, unless two sign-ins   *)
(* pass check() before either mail is dispatched and recorded.              *)
(***************************************************************************)
MailsAreSpaced == mails > 1 => crowd

\* Overlapping and failing sign-ins keep both limits of the handling: the cap on
\* sessions and the spacing of the mails.
SignInsAreLimited == CapIsKept /\ MailsAreSpaced
=============================================================================
