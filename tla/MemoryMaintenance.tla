------------------------- MODULE MemoryMaintenance -------------------------
(***************************************************************************)
(* The maintenance loop and the request handlers over the in-memory        *)
(* repository, where FinishUploadMaintenance takes effect.  One process    *)
(* runs one loop, so a claim a job works on is still its own when the job  *)
(* ends.  Statuses and guards are those of UploadMaintenance; a session    *)
(* that has a file and is committed a second time, which the memory        *)
(* repository admits, is not on the way to what is shown here.             *)
(***************************************************************************)
EXTENDS UploadMaintenance

\* The status the job computed replaces whatever status the session has by now.
FinishUploadMaintenance(w, s) ==
    LET j == job[w][s]
    IN  /\ j.pc = "finish"
        /\ SetJob(w, s, NoJob)
        /\ SetRow(s, [row[s] EXCEPT
                        !.status = j.status,
                        !.cleanup = IF j.complete THEN "complete" ELSE "pending",
                        !.error = j.error])
        /\ leased' = leased \ {s}
        /\ UNCHANGED <<elapsed, namespace, file, storage, req, loops, settled>>

MemoryNext ==
    \/ \E r \in Requests : HandlerStep(r)
    \/ \E w \in Workers, s \in Sessions :
          Claim(w, s) \/ Call(w, s) \/ FinishUploadMaintenance(w, s)
    \/ \E s \in Sessions : Lapse(s)
    \/ Surroundings

MemorySpec == MaintenanceInit /\ [][MemoryNext]_allvars
=============================================================================
