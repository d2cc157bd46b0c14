--------------------------------- MODULE Api ---------------------------------
(***************************************************************************)
(* Requests to the API from their authorisation to their answer, while a   *)
(* batch is researched.  A request carries the team's token, the token     *)
(* that may delete, or a Google credential; the last is verified first.    *)
(***************************************************************************)
EXTENDS Library, Certificates

ASSUME RemovalNeedsToken == Caller \subseteq Saver \cup Exporter

apiVars == <<libraryVars, certificateVars>>

Init == LibraryInit /\ CertificateInit

\* A request is let in by its token, or when its credential is approved; it is
\* turned away when it is not or cannot be verified.
Authorize(r) ==
  /\ phase[r] = "arrived"
  /\ IF r \in Caller
     THEN Conclude(r) /\ To(r, IF sign[r] = "approved" THEN "admitted" ELSE "refused")
     ELSE To(r, "admitted") /\ UNCHANGED certificateVars
  /\ UNCHANGED <<batch, about, seen, size, lock, files>>

\* The steps a request takes by itself.
Step(r) ==
  \/ Authorize(r)
  \/ r \in Caller /\ phase[r] = "arrived" /\ Verify(r) /\ UNCHANGED libraryVars
  \/ Serve(r) /\ UNCHANGED certificateVars

Next ==
  \/ Research /\ UNCHANGED certificateVars
  \/ Tick /\ UNCHANGED libraryVars
  \/ \E r \in Request : Step(r) \/ (Fail(r) /\ UNCHANGED certificateVars)

\* A request goes on as long as it can: the event loop runs whatever is ready,
\* the fetch and the statements have time limits.
FairSpec == Init /\ [][Next]_apiVars /\ \A r \in Request : WF_apiVars(Step(r))

-----------------------------------------------------------------------------
(* Properties                                                              *)

\* Every request is answered, whichever others wait for the same certificates
\* or the same lock and however they end.
EveryRequestEnds == <>(\A r \in Request : phase[r] \in Ended)
=============================================================================
