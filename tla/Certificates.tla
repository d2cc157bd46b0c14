----------------------------- MODULE Certificates -----------------------------
(***************************************************************************)
(* The certificates Google signs its credentials with: fetched when a      *)
(* credential has to be verified, kept for as long as Google allows, and   *)
(* fetched by one request at a time while the others wait.                 *)
(***************************************************************************)
EXTENDS Naturals

CONSTANTS
  Caller,   \* the requests that carry a Google credential
  NoCaller,
  Ttl,      \* the lifetimes Google gives its certificates; 0 is no-store
  MaxTime   \* bound on the clock

ASSUME CertificateAssumption == Ttl \subseteq Nat /\ MaxTime \in Nat /\ NoCaller \notin Caller

VARIABLES
  now,      \* the process's monotonic clock
  expires,  \* when the certificates kept so far expire; 0 before the first
  fetching, \* the request that holds the certificate lock, for a fetch
  sign,     \* how far the verification of a request's credential is
  used      \* with which certificates, and when, a request was verified

certificateVars == <<now, expires, fetching, sign, used>>

NotUsed == [at |-> 0, expires |-> 0, own |-> FALSE]

CertificateInit ==
  /\ now = 0
  /\ expires = 0
  /\ fetching = NoCaller
  /\ sign = [c \in Caller |-> "waiting"]
  /\ used = [c \in Caller |-> NotUsed]

\* The credential is verified with the certificates at hand, which tells
\* whether it is genuine and whether its account is approved.
VerifiedWith(c, until, own) ==
  /\ used' = [used EXCEPT ![c] = [at |-> now, expires |-> until, own |-> own]]
  /\ \E verdict \in {"approved", "rejected"} : sign' = [sign EXCEPT ![c] = verdict]

\* A request gets the lock: it takes certificates that have not expired, and
\* fetches others otherwise.
EnterLock(c) ==
  /\ sign[c] = "waiting"
  /\ fetching = NoCaller
  /\ IF now < expires
     THEN VerifiedWith(c, expires, FALSE) /\ UNCHANGED fetching
     ELSE /\ fetching' = c
          /\ sign' = [sign EXCEPT ![c] = "fetching"]
          /\ UNCHANGED used
  /\ UNCHANGED <<now, expires>>

FetchAnswers(c) ==
  /\ sign[c] = "fetching"
  /\ \E ttl \in Ttl : expires' = now + ttl
  /\ VerifiedWith(c, expires', TRUE)
  /\ fetching' = NoCaller
  /\ UNCHANGED now

\* Mistake: a fetch that fails falls back on the certificates kept before.
FetchFailsOver(c) ==
  /\ sign[c] = "fetching"
  /\ VerifiedWith(c, expires, FALSE)
  /\ fetching' = NoCaller
  /\ UNCHANGED <<now, expires>>

\* Mistake: a fetch that fails keeps the lock.
FetchFailsLocked(c) ==
  /\ sign[c] = "fetching"
  /\ sign' = [sign EXCEPT ![c] = "unavailable"]
  /\ UNCHANGED <<now, expires, fetching, used>>

\* No answer, or none that is a set of certificates: nobody is let in with the
\* certificates of before.
FetchFails(c) ==
  /\ sign[c] = "fetching"
  /\ sign' = [sign EXCEPT ![c] = "unavailable"]
  /\ fetching' = NoCaller
  /\ UNCHANGED <<now, expires, used>>

Tick ==
  /\ now < MaxTime
  /\ now' = now + 1
  /\ UNCHANGED <<expires, fetching, sign, used>>

\* The verdict is acted on, and the certificates used for it are let go.
Conclude(c) ==
  /\ sign[c] \in {"approved", "rejected", "unavailable"}
  /\ sign' = [sign EXCEPT ![c] = "done"]
  /\ used' = [used EXCEPT ![c] = NotUsed]
  /\ UNCHANGED <<now, expires, fetching>>

Verify(c) == EnterLock(c) \/ FetchAnswers(c) \/ FetchFails(c)

-----------------------------------------------------------------------------
(* Properties                                                              *)

\* A credential is verified with certificates that are still valid at that
\* time, or with those its own request has just fetched: not with what was
\* valid before a wait for another's fetch, and certificates that may not be
\* stored serve one request only (auth.py _get_certificates).
FreshCertificates ==
  \A c \in Caller : sign[c] \in {"approved", "rejected"} =>
    used[c].own \/ used[c].at < used[c].expires

=============================================================================
