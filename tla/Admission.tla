----------------------------- MODULE Admission -----------------------------
(***************************************************************************)
(* Updates of one package of the catalog repository: pull requests, each   *)
(* checked by the admission workflow (tools/verify_submission.py) against  *)
(* the base branch as it was when the request was opened or pushed to, and *)
(* merged some time later, when other requests may have been merged first. *)
(*                                                                         *)
(* Only git, which merges no file that both sides have changed, stands     *)
(* between a stale verdict and the branch.  A package lives in a directory *)
(* of its own, so one package shows all there is.                          *)
(***************************************************************************)
EXTENDS SemVer

CONSTANTS
  Requests,    (* pull requests                                  *)
  Versions,    (* versions they may carry                        *)
  NoVersion,   (* the manifest of a package not yet published    *)
  MaxMerges    (* bound: length of the history                   *)

ASSUME AdmissionAssumption ==
  /\ Versions \subseteq SemVers /\ NoVersion \notin Versions /\ MaxMerges \in Nat

VARIABLES
  merged,    \* the versions of the manifest on the branch, the oldest first
  request    \* request[p]: its version and how far it is; "from" is the place in
             \* merged that its branch starts from, "base" the one it is checked against

admissionVars == <<merged, request>>

Idle == [step : {"none", "refused"}]
Pending == [step : {"open", "accepted"}, version : Versions, from : Nat, base : Nat]

Manifest(k) == IF k = 0 THEN NoVersion ELSE merged[k]

AdmissionInit == merged = << >> /\ request = [p \in Requests |-> [step |-> "none"]]

\* "opened", "synchronize", "reopened".  The branch may be behind: only what it changes
\* since its start counts when it is merged.
Push(p, v) ==
  /\ \E from \in 0..Len(merged) :
       /\ Manifest(from) # v
       /\ request' = [request EXCEPT ![p] =
            [step |-> "open", version |-> v, from |-> from, base |-> Len(merged)]]
  /\ UNCHANGED merged

\* The check may refuse for reasons of its own: the scan, the maintainers.
Refuse(p) ==
  /\ request[p].step = "open"
  /\ request' = [request EXCEPT ![p] = [step |-> "refused"]] /\ UNCHANGED merged

\* An update must increase the version; a new package has none to increase.
Accept(p) ==
  /\ request[p].step = "open" /\ UNCHANGED merged
  /\ request[p].base # 0 => SemverGreater(request[p].version, Manifest(request[p].base))
  /\ request' = [request EXCEPT ![p].step = "accepted"]

\* --auto --squash: merges once git can, which is when the file on the branch is still
\* what the request started from.  What conflicts stays until its author pushes again.
Merge(p) ==
  /\ request[p].step = "accepted" /\ Len(merged) < MaxMerges
  /\ Manifest(request[p].from) = Manifest(Len(merged))
  /\ merged' = Append(merged, request[p].version)
  /\ request' = [request EXCEPT ![p] = [step |-> "none"]]

AdmissionNext == \E p \in Requests :
  Refuse(p) \/ Accept(p) \/ Merge(p) \/ \E v \in Versions : Push(p, v)

AdmissionSpec == AdmissionInit /\ [][AdmissionNext]_admissionVars
-----------------------------------------------------------------------------
(* Properties                                                               *)

\* Every variable stays in its type; the one type invariant of this module.
AdmissionTypeOK ==
  /\ merged \in Seq(Versions)
  /\ request \in [Requests -> Idle \cup Pending]

\* The versions of a package only ever increase, over any number of merges and not just
\* from one to the next: none comes back, however stale the verdicts were and in
\* whatever order the requests are merged.  It takes an order without cycles
\* (verify_submission.py:20) and a check that still holds at the merge.
VersionsIncrease ==
  \A i, j \in DOMAIN merged : i < j => SemverGreater(merged[j], merged[i])
=============================================================================
