--------------------------- MODULE LocalPublication ---------------------------
(* Publication of a local run: each run writes a generation of its own below *)
(* the output root and marks it as published last; an operator may remove a  *)
(* generation; a process may be killed between two steps, the machine may    *)
(* lose power.  A file on disk is known by name: the four JSON records are   *)
(* "records", the patch goes with its receipt, "evidence" is the nested      *)
(* directory of evidence files and "review" the detached checkout.           *)
EXTENDS Sequences, FiniteSets, SequencesExt

CONSTANTS
  Ids,         \* identities of generations, one per run
  PowerFails   \* whether the machine may lose power

VARIABLES
  disk,     \* files of each generation
  run,      \* progress of the run that writes the generation
  cleanup,  \* progress of the operator's removal
  notice,   \* code in publication-failure.json
  cleaned,  \* history: generations given to the cleanup of published ones
  outage    \* history: power was lost

vars == <<disk, run, cleanup, notice, cleaned, outage>>

\* Files no directory entry of which is synced above their own directory.
Unsynced == {"evidence", "review"}

Files == Unsynced \cup {"owner", "records", "patch", "report", "manifest", "published"}

Taints == {"redaction_failed", "residual_secret"}

\* dir: the directory is there; torn: opened and not yet written in full.
NoFiles == [dir |-> FALSE, present |-> {}, torn |-> {}, secret |-> {}, synced |-> {}]

NewRun == [at |-> "idle", todo |-> <<>>, reviewed |-> FALSE, code |-> "none"]

Init ==
  /\ disk = [g \in Ids |-> NoFiles]
  /\ run = [g \in Ids |-> NewRun]
  /\ cleanup = [g \in Ids |-> "none"]
  /\ notice = "none"
  /\ cleaned = {}
  /\ outage = FALSE

-----------------------------------------------------------------------------
(* Files. *)

Whole(g) == disk[g].present \ disk[g].torn
Marked(g) == "published" \in disk[g].present

Open(g, f) ==
  disk' = [disk EXCEPT ![g].present = @ \cup {f}, ![g].torn = @ \cup {f}]

\* Mutant: the bytes are not flushed before the file counts as written.
Buffered(files) == files \cap {"published"}

\* fsync of the file and of its directory.
Synced(files) == files \ Unsynced

Fill(g, f, secret) ==
  disk' = [disk EXCEPT ![g].torn = @ \ {f}, ![g].synced = @ \cup Synced({f}),
                       ![g].secret = IF secret THEN @ \cup {f} ELSE @]

\* Entries go one at a time in any order, the directory last.
RemoveEntry(g) ==
  IF disk[g].present = {} THEN disk' = [disk EXCEPT ![g] = NoFiles]
  ELSE \E f \in disk[g].present :
         disk' = [disk EXCEPT ![g].present = @ \ {f}, ![g].torn = @ \ {f},
                              ![g].secret = @ \ {f}, ![g].synced = @ \ {f}]

-----------------------------------------------------------------------------
(* What is read back. *)

\* The artifacts a manifest lists, in the order they are written.
Artifacts(reviewed) ==
  <<"records", "evidence">> \o (IF reviewed THEN <<"patch">> ELSE <<>>) \o <<"report">>

Listed(g) == Range(Artifacts(run[g].reviewed))

\* verifyUnmarkedLocalPublication
Complete(g) ==
  /\ {"manifest"} \cup Listed(g) \subseteq Whole(g)
  /\ IF run[g].reviewed THEN "review" \in Whole(g) ELSE "review" \notin disk[g].present

\* What the listing demands of a generation with a marker, or it throws.
Certified(g) == {"owner", "manifest", "published"} \subseteq Whole(g)

\* resolveOwnedPublicationGeneration
Owned(g) == disk[g].dir /\ "owner" \in Whole(g)

-----------------------------------------------------------------------------
(* The run: publishLocalRun. *)

Active(g) == run[g].at \notin {"idle", "returned", "failed", "dead"}

GoTo(g, at) == run' = [run EXCEPT ![g].at = at]

\* reserveLocalPublicationGeneration: the directory, then its owner.
Reserve(g) ==
  /\ run[g].at = "idle"
  /\ disk' = [disk EXCEPT ![g].dir = TRUE]
  /\ GoTo(g, "reserving")
  /\ UNCHANGED <<cleanup, notice, cleaned, outage>>

OpenOwner(g) ==
  /\ run[g].at = "reserving"
  /\ Open(g, "owner")
  /\ GoTo(g, "owning")
  /\ UNCHANGED <<cleanup, notice, cleaned, outage>>

Own(g) ==
  /\ run[g].at = "owning"
  /\ Fill(g, "owner", FALSE)
  /\ GoTo(g, "preparing")
  /\ UNCHANGED <<cleanup, notice, cleaned, outage>>

\* Evidence and records are sanitized in memory; a bound candidate is checked out.
Prepare(g) ==
  /\ run[g].at = "preparing"
  /\ \E reviewed \in BOOLEAN :
       run' = [run EXCEPT ![g] = [@ EXCEPT !.at = IF reviewed THEN "reviewing" ELSE "writing",
                                           !.todo = Append(Artifacts(reviewed), "manifest"),
                                           !.reviewed = reviewed]]
  /\ UNCHANGED <<disk, cleanup, notice, cleaned, outage>>

\* materializeReviewCheckout
BeginReview(g) ==
  /\ run[g].at = "reviewing"
  /\ Open(g, "review")
  /\ GoTo(g, "checking out")
  /\ UNCHANGED <<cleanup, notice, cleaned, outage>>

EndReview(g) ==
  /\ run[g].at = "checking out"
  /\ Fill(g, "review", FALSE)
  /\ GoTo(g, "writing")
  /\ UNCHANGED <<cleanup, notice, cleaned, outage>>

\* Without its checkout the publication holds the evidence only.
ReviewFails(g) ==
  /\ run[g].at \in {"reviewing", "checking out"}
  /\ disk' = [disk EXCEPT ![g].present = @ \ {"review"}, ![g].torn = @ \ {"review"}]
  /\ run' = [run EXCEPT ![g] = [@ EXCEPT !.at = "writing", !.reviewed = FALSE,
                                         !.todo = Append(Artifacts(FALSE), "manifest")]]
  /\ UNCHANGED <<cleanup, notice, cleaned, outage>>

BeginWrite(g) ==
  /\ run[g].at = "writing"
  /\ run[g].todo # <<>>
  /\ ~Marked(g)
  /\ Open(g, Head(run[g].todo))
  /\ GoTo(g, "filling")
  /\ UNCHANGED <<cleanup, notice, cleaned, outage>>

\* The patch is the only file nothing has searched for secrets yet.
EndWrite(g) ==
  /\ run[g].at = "filling"
  /\ \E secret \in BOOLEAN :
       /\ secret => Head(run[g].todo) = "patch"
       /\ Fill(g, Head(run[g].todo), secret)
  /\ run' = [run EXCEPT ![g].at = "writing", ![g].todo = Tail(@)]
  /\ UNCHANGED <<cleanup, notice, cleaned, outage>>

Verify(g) ==
  /\ run[g].at = "writing"
  /\ run[g].todo = <<>>
  /\ Complete(g)
  /\ GoTo(g, "scanning")
  /\ UNCHANGED <<disk, cleanup, notice, cleaned, outage>>

\* Mutant: the files copied from the checkout are trusted.
TrustedPatch(g) == disk[g].secret \ {"patch"}

\* proveGeneratedPublicationSecretFree
SecretsFound(g) == disk[g].secret

Scan(g) ==
  /\ run[g].at = "scanning"
  /\ SecretsFound(g) = {}
  /\ GoTo(g, "marking")
  /\ UNCHANGED <<disk, cleanup, notice, cleaned, outage>>

\* markLocalPublicationPublished
OpenMarker(g) ==
  /\ run[g].at = "marking"
  /\ "manifest" \in Whole(g)
  /\ ~Marked(g)
  /\ Open(g, "published")
  /\ GoTo(g, "publishing")
  /\ UNCHANGED <<cleanup, notice, cleaned, outage>>

Publish(g) ==
  /\ run[g].at = "publishing"
  /\ Fill(g, "published", FALSE)
  /\ GoTo(g, "confirming")
  /\ UNCHANGED <<cleanup, notice, cleaned, outage>>

\* verifyLocalPublication once more, now with the marker.
Return(g) ==
  /\ run[g].at = "confirming"
  /\ Certified(g) /\ Complete(g)
  /\ GoTo(g, "returned")
  /\ UNCHANGED <<disk, cleanup, notice, cleaned, outage>>

-----------------------------------------------------------------------------
(* Failures of the run. *)

\* Mutant: a secret found in a file leaves the generation in quarantine.
DestroyedFor(code) == code = "redaction_failed"

MustDestroy(code) == code \in Taints

Throw(g, code) ==
  run' = [run EXCEPT ![g].code = code, ![g].at = IF MustDestroy(code) THEN "destroying" ELSE "failed"]

\* A file operation, a check or git fails.
Fail(g) ==
  /\ run[g].at \in {"preparing", "reviewing", "checking out", "writing", "filling", "marking",
                    "publishing", "confirming"}
  /\ Throw(g, "unsafe_artifact")
  /\ UNCHANGED <<disk, cleanup, notice, cleaned, outage>>

\* Something cannot be proven free of secrets, or holds one.
Taint(g) ==
  /\ \/ /\ run[g].at \in {"preparing", "writing"}
        /\ \E code \in Taints : Throw(g, code)
     \/ /\ run[g].at = "scanning"
        /\ Throw(g, IF SecretsFound(g) # {} THEN "residual_secret" ELSE "redaction_failed")
  /\ UNCHANGED <<disk, cleanup, notice, cleaned, outage>>

\* An error before the reservation is complete, or while it is destroyed,
\* leaves what there is.
Abandon(g) ==
  /\ run[g].at \in {"reserving", "owning", "destroying"}
  /\ run' = [run EXCEPT ![g].at = "failed", ![g].code = "none"]
  /\ UNCHANGED <<disk, cleanup, notice, cleaned, outage>>

\* destroyReservedLocalPublicationGeneration
Destroy(g) ==
  /\ run[g].at = "destroying"
  /\ Owned(g) /\ ~Marked(g)
  /\ RemoveEntry(g)
  /\ GoTo(g, "removing")
  /\ UNCHANGED <<cleanup, notice, cleaned, outage>>

DestroyNext(g) ==
  /\ run[g].at = "removing"
  /\ disk[g].dir
  /\ RemoveEntry(g)
  /\ UNCHANGED <<run, cleanup, notice, cleaned, outage>>

\* writeLocalPublicationSanitizationFailure: the first code is kept.
Notice(g) ==
  /\ run[g].at = "removing"
  /\ ~disk[g].dir
  /\ notice' = IF notice = "none" THEN run[g].code ELSE notice
  /\ GoTo(g, "failed")
  /\ UNCHANGED <<disk, cleanup, cleaned, outage>>

Die(g) ==
  /\ Active(g)
  /\ GoTo(g, "dead")
  /\ UNCHANGED <<disk, cleanup, notice, cleaned, outage>>

-----------------------------------------------------------------------------
(* The operator removes one generation: a published one that verifies, or a  *)
(* reservation without a marker.  It is one whose run is over.               *)

Chosen(g) ==
  /\ cleanup[g] = "none"
  /\ Owned(g)
  /\ ~Active(g)

CleanPublished(g) ==
  /\ Chosen(g)
  /\ Certified(g) /\ Complete(g)
  /\ cleanup' = [cleanup EXCEPT ![g] = "removing"]
  /\ cleaned' = cleaned \cup {g}
  /\ UNCHANGED <<disk, run, notice, outage>>

\* Mutant: a reservation is told by its owner alone.
AnyReservation(g) == disk[g].dir

Unpublished(g) == ~Marked(g)

CleanUnpublished(g) ==
  /\ Chosen(g)
  /\ Unpublished(g)
  /\ cleanup' = [cleanup EXCEPT ![g] = "removing"]
  /\ UNCHANGED <<disk, run, notice, cleaned, outage>>

CleanNext(g) ==
  /\ cleanup[g] = "removing"
  /\ disk[g].dir
  /\ RemoveEntry(g)
  /\ UNCHANGED <<run, cleanup, notice, cleaned, outage>>

\* The removal is over, or the operator's process dies in the middle.
CleanEnds(g) ==
  /\ cleanup[g] = "removing"
  /\ cleanup' = [cleanup EXCEPT ![g] = "none"]
  /\ UNCHANGED <<disk, run, notice, cleaned, outage>>

-----------------------------------------------------------------------------
\* What was not synced may be gone, or hold less than was written.
PowerLoss ==
  /\ PowerFails
  /\ LET unsynced == {e \in Ids \X Files : e[2] \in disk[e[1]].present \ disk[e[1]].synced}
     IN  \E lost \in SUBSET unsynced : \E broken \in SUBSET (unsynced \ lost) :
           disk' = [g \in Ids |->
             LET left == {f \in disk[g].present : <<g, f>> \notin lost}
             IN  [disk[g] EXCEPT !.dir = @ /\ left # {}, !.present = left,
                                 !.torn = {f \in left : f \in @ \/ <<g, f>> \in broken},
                                 !.secret = @ \cap left]]
  /\ run' = [g \in Ids |-> IF Active(g) THEN [run[g] EXCEPT !.at = "dead"] ELSE run[g]]
  /\ cleanup' = [g \in Ids |-> "none"]
  /\ outage' = TRUE
  /\ UNCHANGED <<notice, cleaned>>

Next ==
  \/ \E g \in Ids :
       \/ Reserve(g) \/ OpenOwner(g) \/ Own(g) \/ Prepare(g)
       \/ BeginReview(g) \/ EndReview(g) \/ ReviewFails(g)
       \/ BeginWrite(g) \/ EndWrite(g) \/ Verify(g) \/ Scan(g)
       \/ OpenMarker(g) \/ Publish(g) \/ Return(g)
       \/ Fail(g) \/ Taint(g) \/ Abandon(g) \/ Destroy(g) \/ DestroyNext(g) \/ Notice(g) \/ Die(g)
       \/ CleanPublished(g) \/ CleanUnpublished(g) \/ CleanNext(g) \/ CleanEnds(g)
  \/ PowerLoss

Spec == Init /\ [][Next]_vars

-----------------------------------------------------------------------------
(* Properties. *)

\* A generation the listing accepts has every artifact its manifest lists and
\* the review checkout, whenever processes were killed; a loss of power may
\* cost the nested evidence and the checkout only (publishLocalRun).
CertifiedIsWhole ==
  \A g \in Ids \ cleaned : Certified(g) =>
    IF outage THEN Listed(g) \ Unsynced \subseteq Whole(g) ELSE Complete(g)

\* What a run returned stays visible until it is given to the cleanup of
\* published generations (publishLocalRun, cleanupUnpublishedLocalPublicationReservation).
ReturnedStaysVisible ==
  \A g \in Ids \ cleaned : run[g].at = "returned" => Certified(g)

\* No generation with a marker holds a secret, and a generation found tainted
\* is gone once its failure is reported (proveGeneratedPublicationSecretFree,
\* destroyReservedLocalPublicationGeneration).
SecretsStayPrivate ==
  \A g \in Ids :
    /\ Marked(g) => disk[g].secret = {}
    /\ run[g].at = "failed" /\ run[g].code \in Taints => ~disk[g].dir /\ notice # "none"

\* A generation with a marker can be listed: its owner and its manifest are
\* there and the marker binds the manifest (listPublishedLocalGenerations).
MarkedCanBeListed ==
  \A g \in Ids \ cleaned : Marked(g) => Certified(g)
=============================================================================
