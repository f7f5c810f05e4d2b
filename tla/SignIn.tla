------------------------------- MODULE SignIn -------------------------------
(***************************************************************************)
(* Signing in with Discogs and signing up with an invite.  A handshake     *)
(* stores a request token; its callback consumes it and either signs a     *)
(* known user in or leaves a pending sign-up; redeeming an invite consumes *)
(* that and creates the user, in one transaction.                          *)
(*                                                                         *)
(* DELETE ... RETURNING takes the row's lock: another transaction that     *)
(* wants it waits for the end of the first.  A conflicting INSERT into     *)
(* users waits as well, and raises once the first has committed.           *)
(***************************************************************************)
EXTENDS Naturals, FiniteSets

CONSTANTS
    Handshake,      \* OAuth request tokens
    Account,        \* Discogs accounts; handshake h is AccountOf[h]'s
    AccountOf,
    Invite,         \* invite codes
    Redeemer,       \* requests to redeem an invite in progress
    MaxFailures,    \* LOGIN_MAX_FAILURES
    MaxSignInFaults,\* bound on failing calls
    Nil

ASSUME SignInAssumption ==
    /\ AccountOf \in [Handshake -> Account]
    /\ MaxFailures \in Nat /\ MaxSignInFaults \in Nat

VARIABLES
    requestState,   \* per handshake: its oauth_request_state row
    pendingSignup,  \* per handshake: the pending_signups row it led to
    users,          \* accounts with a users row
    redeemedBy,     \* per invite: redeemed_by
    redeemer,       \* per request: its transaction
    failures,       \* redeem_limiter: what it counts of the window
    signInFaults

signInVars == <<requestState, pendingSignup, users, redeemedBy, redeemer, failures,
                signInFaults>>

IdleRedeemer == [at |-> "idle", handshake |-> Nil, invite |-> Nil]

\* A transaction's hold on a pending sign-up, and on the account it inserted.
Deleting(h) == \E r \in Redeemer : redeemer[r].at # "idle" /\ redeemer[r].handshake = h
Inserting(a) == \E r \in Redeemer :
                    redeemer[r].at = "created" /\ AccountOf[redeemer[r].handshake] = a

SignInFault == signInFaults < MaxSignInFaults /\ signInFaults' = signInFaults + 1

-----------------------------------------------------------------------------

\* discogs_start
StartHandshake(h) ==
    /\ requestState[h] = "none"
    /\ requestState' = [requestState EXCEPT ![h] = "stored"]
    /\ UNCHANGED <<pendingSignup, users, redeemedBy, redeemer, failures, signInFaults>>

\* discogs_callback, first transaction: the row is consumed, late or not, and the late
\* one is of no use.
ConsumeHandshake(h, late) ==
    /\ requestState[h] = "stored"
    /\ requestState' = [requestState EXCEPT ![h] = IF late THEN "used" ELSE "exchange"]
    /\ UNCHANGED <<pendingSignup, users, redeemedBy, redeemer, failures, signInFaults>>

\* The exchange with Discogs raises: the user starts over.
ExchangeFails(h) ==
    /\ requestState[h] = "exchange" /\ SignInFault
    /\ requestState' = [requestState EXCEPT ![h] = "used"]
    /\ UNCHANGED <<pendingSignup, users, redeemedBy, redeemer, failures>>

\* Second transaction: a known user gets the new credentials and a session.
EndCallback(h) ==
    /\ requestState[h] = "exchange"
    /\ requestState' = [requestState EXCEPT ![h] = "used"]
    /\ pendingSignup' = IF AccountOf[h] \in users THEN pendingSignup
                        ELSE [pendingSignup EXCEPT ![h] = "waiting"]
    /\ UNCHANGED <<users, redeemedBy, redeemer, failures, signInFaults>>

\* Fifteen minutes later.
SignupAges(h) ==
    /\ pendingSignup[h] = "waiting"
    /\ pendingSignup' = [pendingSignup EXCEPT ![h] = "late"]
    /\ UNCHANGED <<requestState, users, redeemedBy, redeemer, failures, signInFaults>>

-----------------------------------------------------------------------------
(* redeem_invite. *)

\* get_and_delete_pending_signup: nothing found, or it is late and its deletion commits.
RefuseSignup(h) ==
    /\ failures < MaxFailures /\ failures' = failures + 1
    /\ ~Deleting(h)
    /\ pendingSignup[h] \in {"none", "late", "gone"}
    /\ pendingSignup' = [pendingSignup EXCEPT ![h] = IF @ = "late" THEN "none" ELSE @]
    /\ UNCHANGED <<requestState, users, redeemedBy, redeemer, signInFaults>>

DeleteSignup(r, h, code) ==
    /\ redeemer[r].at = "idle" /\ failures < MaxFailures
    /\ ~Deleting(h) /\ pendingSignup[h] = "waiting"
    /\ redeemer' = [redeemer EXCEPT ![r] = [at |-> "deleted", handshake |-> h, invite |-> code]]
    /\ UNCHANGED <<requestState, pendingSignup, users, redeemedBy, failures, signInFaults>>

EndRedeem(r) == redeemer' = [redeemer EXCEPT ![r] = IdleRedeemer]

\* Mutant of AfterBadInvite: the transaction commits, as the one before it does.
BadInviteCommits(h) == "gone"

\* The rollback gives the sign-up back.
AfterBadInvite(h) == pendingSignup[h]

BadInvite(r) ==
    LET h == redeemer[r].handshake IN
    /\ redeemer[r].at = "deleted" /\ redeemedBy[redeemer[r].invite] # Nil
    /\ pendingSignup' = [pendingSignup EXCEPT ![h] = AfterBadInvite(h)]
    /\ failures' = failures + 1
    /\ EndRedeem(r)
    /\ UNCHANGED <<requestState, users, redeemedBy, signInFaults>>

\* create_user, the credentials and the invite's row.
CreateUser(r) ==
    LET a == AccountOf[redeemer[r].handshake] IN
    /\ redeemer[r].at = "deleted" /\ redeemedBy[redeemer[r].invite] = Nil
    /\ ~Inserting(a) /\ a \notin users
    /\ redeemer' = [redeemer EXCEPT ![r].at = "created"]
    /\ UNCHANGED <<requestState, pendingSignup, users, redeemedBy, failures, signInFaults>>

CommitSignup(r) ==
    LET h == redeemer[r].handshake IN
    /\ redeemer[r].at = "created"
    /\ users' = users \cup {AccountOf[h]}
    /\ redeemedBy' = [redeemedBy EXCEPT ![redeemer[r].invite] = AccountOf[h]]
    /\ pendingSignup' = [pendingSignup EXCEPT ![h] = "gone"]
    /\ failures' = 0
    /\ EndRedeem(r)
    /\ UNCHANGED <<requestState, signInFaults>>

\* The account has a user by now, or a statement raises: all of it is rolled back.
RedeemFails(r) ==
    /\ redeemer[r].at # "idle"
    /\ \/ /\ redeemer[r].at = "deleted" /\ AccountOf[redeemer[r].handshake] \in users
          /\ UNCHANGED signInFaults
       \/ SignInFault
    /\ EndRedeem(r)
    /\ UNCHANGED <<requestState, pendingSignup, users, redeemedBy, failures>>

\* The lockout's window moves on.
FailuresAge ==
    /\ failures > 0 /\ failures' = failures - 1
    /\ UNCHANGED <<requestState, pendingSignup, users, redeemedBy, redeemer, signInFaults>>

SignInInit ==
    /\ requestState = [h \in Handshake |-> "none"]
    /\ pendingSignup = [h \in Handshake |-> "none"]
    /\ users = {} /\ redeemedBy = [c \in Invite |-> Nil]
    /\ redeemer = [r \in Redeemer |-> IdleRedeemer] /\ failures = 0 /\ signInFaults = 0

SignInNext ==
    \/ \E h \in Handshake :
        \/ StartHandshake(h) \/ ExchangeFails(h) \/ EndCallback(h) \/ SignupAges(h)
        \/ RefuseSignup(h)
        \/ \E late \in BOOLEAN : ConsumeHandshake(h, late)
        \/ \E r \in Redeemer, code \in Invite : DeleteSignup(r, h, code)
    \/ \E r \in Redeemer :
        BadInvite(r) \/ CreateUser(r) \/ CommitSignup(r) \/ RedeemFails(r)
    \/ FailuresAge

SignInSpec == SignInInit /\ [][SignInNext]_signInVars

-----------------------------------------------------------------------------

\* A sign-up that is gone although it was in time made its user: no bad code, lost race
\* for the account or failing statement burns the grant (the comment in redeem_invite).
SignupMadeUser ==
    \A h \in Handshake : pendingSignup[h] = "gone" => AccountOf[h] \in users
=============================================================================
