------------------------ MODULE LocalPublicationProofs ------------------------
(***************************************************************************)
(* What TLC checks of LocalPublication for two generations, proved for     *)
(* every number of them, with and without losses of power.  The invariant  *)
(* says what is on disk at each station of a run, and what a marker stands *)
(* for once the run is over.                                               *)
(***************************************************************************)
EXTENDS LocalPublication, SequenceTheorems, TLAPS

Disk ==
  [dir : BOOLEAN, present : SUBSET Files, torn : SUBSET Files,
   secret : SUBSET Files, synced : SUBSET Files]

\* What a run still has to write: the end of its list.
Rests(reviewed) ==
  {<<>>, <<"manifest">>, <<"report", "manifest">>}
    \cup (IF reviewed
          THEN {<<"patch", "report", "manifest">>, <<"evidence", "patch", "report", "manifest">>,
                <<"records", "evidence", "patch", "report", "manifest">>}
          ELSE {<<"evidence", "report", "manifest">>,
                <<"records", "evidence", "report", "manifest">>})

Stations ==
  {"idle", "reserving", "owning", "preparing", "reviewing", "checking out", "writing", "filling",
   "scanning", "marking", "publishing", "confirming", "returned", "destroying", "removing",
   "failed", "dead"}

Run ==
  [at : Stations, todo : Rests(TRUE) \cup Rests(FALSE), reviewed : BOOLEAN,
   code : {"none", "unsafe_artifact"} \cup Taints]

Types ==
  /\ disk \in [Ids -> Disk] /\ run \in [Ids -> Run]
  /\ cleanup \in [Ids -> {"none", "removing"}]
  /\ notice \in {"none", "unsafe_artifact"} \cup Taints
  /\ outage \in BOOLEAN

\* The files a run has written, and the checkout they belong to.
Laid(g) == {"owner"} \cup (({"manifest"} \cup Listed(g)) \ Range(run[g].todo))

Kept(g) ==
  /\ Laid(g) \subseteq Whole(g) /\ Laid(g) \ Unsynced \subseteq disk[g].synced
  /\ IF run[g].reviewed THEN "review" \in Whole(g) ELSE "review" \notin disk[g].present

\* What a marker stands for until its generation is given to the cleanup.
Full(g) ==
  /\ {"owner", "manifest"} \cup (Listed(g) \ Unsynced) \subseteq Whole(g) \cap disk[g].synced
  /\ ~outage => Complete(g)

\* The run that has only its owner, and the one that checks out its candidate.
Begun(g) ==
  /\ run[g].at = "idle" => ~disk[g].dir /\ disk[g].present = {} /\ disk[g].torn = {}
  /\ run[g].at = "reserving" => disk[g].present = {} /\ disk[g].torn = {}
  /\ run[g].at = "owning" => disk[g].present = {"owner"} /\ disk[g].torn = {"owner"}
  /\ run[g].at \in {"preparing", "reviewing"} =>
       disk[g].present = {"owner"} /\ disk[g].torn = {} /\ "owner" \in disk[g].synced
  /\ run[g].at = "checking out" =>
       /\ disk[g].present = {"owner", "review"} /\ disk[g].torn = {"review"}
       /\ "owner" \in disk[g].synced
  /\ run[g].at \in {"reviewing", "checking out"} =>
       run[g].reviewed /\ run[g].todo = Append(Artifacts(TRUE), "manifest")

\* The run that writes, up to its marker.
Written(g) ==
  /\ run[g].at \in {"writing", "filling", "scanning", "marking", "publishing", "confirming"} =>
       Kept(g) /\ run[g].todo \in Rests(run[g].reviewed)
  /\ run[g].at = "filling" => run[g].todo # <<>> /\ Head(run[g].todo) \in disk[g].present
  /\ run[g].at \in {"scanning", "marking", "publishing", "confirming"} => run[g].todo = <<>>
  /\ run[g].at \in {"marking", "publishing", "confirming"} => disk[g].secret = {}
  /\ run[g].at = "confirming" => "published" \in disk[g].synced

\* The marker, the removal and the failure of a generation.
Settled(g) ==
  /\ Marked(g) =>
       /\ run[g].at \in {"publishing", "confirming", "returned", "failed", "dead"}
       /\ disk[g].secret = {}
       /\ g \notin cleaned => Full(g)
  /\ run[g].at = "returned" /\ g \notin cleaned => Certified(g) /\ "published" \in disk[g].synced
  /\ cleanup[g] = "removing" =>
       /\ run[g].at \in {"returned", "failed", "dead"}
       /\ Marked(g) \/ run[g].at = "returned" => g \in cleaned
  /\ run[g].at \in {"destroying", "removing"} => run[g].code \in Taints
  /\ run[g].at = "failed" /\ run[g].code \in Taints => ~disk[g].dir /\ notice # "none"

GenInv(g) == Begun(g) /\ Written(g) /\ Settled(g)

IInv == Types /\ \A g \in Ids : GenInv(g)
------------------------------------------------------------------------------
(* The list of a run. *)

\* The files of a short list.
LEMMA Ranges ==
  /\ Range(<<>>) = {}
  /\ \A a : Range(<<a>>) = {a}
  /\ \A a, b : Range(<<a, b>>) = {a, b}
  /\ \A a, b, c : Range(<<a, b, c>>) = {a, b, c}
  /\ \A a, b, c, d : Range(<<a, b, c, d>>) = {a, b, c, d}
  /\ \A a, b, c, d, e : Range(<<a, b, c, d, e>>) = {a, b, c, d, e}
<1>1. Range(<<>>) = {}
  BY DEF Range
<1>2. \A a : Range(<<a>>) = {a}
  BY DEF Range
<1>3. \A a, b : Range(<<a, b>>) = {a, b}
  BY DEF Range
<1>4. \A a, b, c : Range(<<a, b, c>>) = {a, b, c}
  BY DEF Range
<1>5. \A a, b, c, d : Range(<<a, b, c, d>>) = {a, b, c, d}
  BY DEF Range
<1>6. \A a, b, c, d, e : Range(<<a, b, c, d, e>>) = {a, b, c, d, e}
  BY DEF Range
<1> QED
  BY <1>1, <1>2, <1>3, <1>4, <1>5, <1>6

\* What the end of a list is.
LEMMA Pushed ==
  ASSUME NEW S, NEW u \in Seq(S), NEW z \in S, NEW w \in Seq(S), Len(w) = Len(u) + 1,
         w[Len(u) + 1] = z, \A i \in 1 .. Len(u) : w[i] = u[i]
  PROVE  u \o <<z>> = w /\ Append(u, z) = w
<1> DEFINE v == Append(u, z)
<1>1. v \in Seq(S) /\ Len(v) = Len(u) + 1
  OBVIOUS
<1>2. \A i \in 1 .. Len(u) : v[i] = u[i]
  BY AppendProperties
<1>3. v[Len(u) + 1] = z
  BY AppendProperties
<1>4. u \o <<z>> = v
  BY AppendIsConcat
<1> HIDE DEF v
<1>5. \A i \in 1 .. Len(v) : v[i] = w[i]
  <2>1. Len(u) \in Nat
    BY LenProperties
  <2> QED
    BY <2>1, <1>1, <1>2, <1>3
<1>6. v = w
  BY <1>1, <1>5, SeqEqual
<1> QED
  BY <1>4, <1>6 DEF v

\* A file more after two.
LEMMA PushThird ==
  ASSUME NEW S, NEW a \in S, NEW b \in S, NEW z \in S
  PROVE  <<a, b>> \o <<z>> = <<a, b, z>> /\ Append(<<a, b>>, z) = <<a, b, z>>
<1> DEFINE u == <<a, b>>
           w == <<a, b, z>>
<1>1. u \in Seq(S) /\ Len(u) = 2 /\ u[1] = a /\ u[2] = b
  OBVIOUS
<1>2. w \in Seq(S) /\ Len(w) = 3 /\ w[1] = a /\ w[2] = b /\ w[3] = z
  OBVIOUS
<1> HIDE DEF u, w
<1>3. Len(w) = Len(u) + 1 /\ w[Len(u) + 1] = z /\ \A i \in 1 .. Len(u) : w[i] = u[i]
  BY <1>1, <1>2
<1>4. u \o <<z>> = w /\ Append(u, z) = w
  BY <1>1, <1>2, <1>3, Pushed
<1> QED
  BY <1>4 DEF u, w

\* After three.
LEMMA PushFourth ==
  ASSUME NEW S, NEW a \in S, NEW b \in S, NEW c \in S, NEW z \in S
  PROVE  <<a, b, c>> \o <<z>> = <<a, b, c, z>> /\ Append(<<a, b, c>>, z) = <<a, b, c, z>>
<1> DEFINE u == <<a, b, c>>
           w == <<a, b, c, z>>
<1>1. u \in Seq(S) /\ Len(u) = 3 /\ u[1] = a /\ u[2] = b /\ u[3] = c
  OBVIOUS
<1>2. w \in Seq(S) /\ Len(w) = 4 /\ w[1] = a /\ w[2] = b /\ w[3] = c /\ w[4] = z
  OBVIOUS
<1> HIDE DEF u, w
<1>3. Len(w) = Len(u) + 1 /\ w[Len(u) + 1] = z /\ \A i \in 1 .. Len(u) : w[i] = u[i]
  BY <1>1, <1>2
<1>4. u \o <<z>> = w /\ Append(u, z) = w
  BY <1>1, <1>2, <1>3, Pushed
<1> QED
  BY <1>4 DEF u, w

\* After four.
LEMMA PushFifth ==
  ASSUME NEW S, NEW a \in S, NEW b \in S, NEW c \in S, NEW d \in S, NEW z \in S
  PROVE  <<a, b, c, d>> \o <<z>> = <<a, b, c, d, z>> /\ Append(<<a, b, c, d>>, z) = <<a, b, c, d, z>>
<1> DEFINE u == <<a, b, c, d>>
           w == <<a, b, c, d, z>>
<1>1. u \in Seq(S) /\ Len(u) = 4 /\ u[1] = a /\ u[2] = b /\ u[3] = c /\ u[4] = d
  OBVIOUS
<1>2. w \in Seq(S) /\ Len(w) = 5 /\ w[1] = a /\ w[2] = b /\ w[3] = c /\ w[4] = d /\ w[5] = z
  OBVIOUS
<1> HIDE DEF u, w
<1>3. Len(w) = Len(u) + 1 /\ w[Len(u) + 1] = z /\ \A i \in 1 .. Len(u) : w[i] = u[i]
  BY <1>1, <1>2
<1>4. u \o <<z>> = w /\ Append(u, z) = w
  BY <1>1, <1>2, <1>3, Pushed
<1> QED
  BY <1>4 DEF u, w

\* The lists a run starts from.
LEMMA Lists ==
  /\ Append(Artifacts(TRUE), "manifest") = <<"records", "evidence", "patch", "report", "manifest">>
  /\ Append(Artifacts(FALSE), "manifest") = <<"records", "evidence", "report", "manifest">>
  /\ Range(Artifacts(TRUE)) = {"records", "evidence", "patch", "report"}
  /\ Range(Artifacts(FALSE)) = {"records", "evidence", "report"}
<1>0. /\ "records" \in Files /\ "evidence" \in Files /\ "patch" \in Files /\ "report" \in Files
      /\ "manifest" \in Files
  BY DEF Files, Unsynced
<1>1. <<"records", "evidence">> \o <<>> = <<"records", "evidence">>
  <2>1. <<"records", "evidence">> \in Seq(Files)
    BY <1>0
  <2> QED
    BY <2>1, ConcatEmptySeq
<1>2. <<"records", "evidence">> \o <<"patch">> = <<"records", "evidence", "patch">>
  BY <1>0, PushThird
<1>3. <<"records", "evidence">> \o <<"report">> = <<"records", "evidence", "report">>
  BY <1>0, PushThird
<1>4. <<"records", "evidence", "patch">> \o <<"report">>
        = <<"records", "evidence", "patch", "report">>
  BY <1>0, PushFourth
<1>5. Append(<<"records", "evidence", "report">>, "manifest")
        = <<"records", "evidence", "report", "manifest">>
  <2> DEFINE u == <<"records", "evidence", "report">>
  <2>1. u \o <<"manifest">> = <<"records", "evidence", "report", "manifest">>
    BY <1>0, PushFourth
  <2>2. u \in Seq(Files)
    BY <1>0
  <2> HIDE DEF u
  <2>3. Append(u, "manifest") = u \o <<"manifest">>
    BY <1>0, <2>2, AppendIsConcat
  <2>4. Append(u, "manifest") = <<"records", "evidence", "report", "manifest">>
    BY <2>1, <2>3, Zenon
  <2> QED
    BY <2>4, Zenon DEF u
<1>6. Append(<<"records", "evidence", "patch", "report">>, "manifest")
        = <<"records", "evidence", "patch", "report", "manifest">>
  <2> DEFINE u == <<"records", "evidence", "patch", "report">>
  <2>1. u \o <<"manifest">> = <<"records", "evidence", "patch", "report", "manifest">>
    BY <1>0, PushFifth
  <2>2. u \in Seq(Files)
    BY <1>0
  <2> HIDE DEF u
  <2>3. Append(u, "manifest") = u \o <<"manifest">>
    BY <1>0, <2>2, AppendIsConcat
  <2>4. Append(u, "manifest") = <<"records", "evidence", "patch", "report", "manifest">>
    BY <2>1, <2>3, Zenon
  <2> QED
    BY <2>4, Zenon DEF u
<1>7. Artifacts(TRUE) = <<"records", "evidence", "patch", "report">>
  BY <1>2, <1>4 DEF Artifacts
<1>8. Artifacts(FALSE) = <<"records", "evidence", "report">>
  BY <1>1, <1>3 DEF Artifacts
<1>9. /\ Range(<<"records", "evidence", "patch", "report">>)
           = {"records", "evidence", "patch", "report"}
      /\ Range(<<"records", "evidence", "report">>) = {"records", "evidence", "report"}
  BY Ranges
<1> QED
  BY <1>5, <1>6, <1>7, <1>8, <1>9, Zenon

\* Writing the head of the list leaves the list of a run that has written it.
LEMMA HeadOfRest ==
  ASSUME NEW reviewed \in BOOLEAN, NEW s \in Rests(reviewed), s # <<>>
  PROVE  /\ Tail(s) \in Rests(reviewed)
         /\ Head(s) \in {"records", "evidence", "patch", "report", "manifest"}
         /\ Range(s) = {Head(s)} \cup Range(Tail(s)) /\ Head(s) \notin Range(Tail(s))
<1>1. CASE s = <<"manifest">>
  <2>1. Tail(s) = <<>> /\ Head(s) = "manifest"
    BY <1>1
  <2> QED
    BY <1>1, <2>1, Ranges DEF Rests
<1>2. CASE s = <<"report", "manifest">>
  <2>1. Tail(s) = <<"manifest">> /\ Head(s) = "report"
    BY <1>2
  <2> QED
    BY <1>2, <2>1, Ranges DEF Rests
<1>3. CASE s = <<"patch", "report", "manifest">>
  <2>1. Tail(s) = <<"report", "manifest">> /\ Head(s) = "patch"
    BY <1>3
  <2> QED
    BY <1>3, <2>1, Ranges DEF Rests
<1>4. CASE s = <<"evidence", "patch", "report", "manifest">>
  <2>1. Tail(s) = <<"patch", "report", "manifest">> /\ Head(s) = "evidence"
    BY <1>4
  <2> QED
    BY <1>4, <2>1, Ranges DEF Rests
<1>5. CASE s = <<"records", "evidence", "patch", "report", "manifest">>
  <2>1. Tail(s) = <<"evidence", "patch", "report", "manifest">> /\ Head(s) = "records"
    BY <1>5
  <2> QED
    BY <1>5, <2>1, Ranges DEF Rests
<1>6. CASE s = <<"evidence", "report", "manifest">>
  <2>1. Tail(s) = <<"report", "manifest">> /\ Head(s) = "evidence"
    BY <1>6
  <2> QED
    BY <1>6, <2>1, Ranges DEF Rests
<1>7. CASE s = <<"records", "evidence", "report", "manifest">>
  <2>1. Tail(s) = <<"evidence", "report", "manifest">> /\ Head(s) = "records"
    BY <1>7
  <2> QED
    BY <1>7, <2>1, Ranges DEF Rests
<1> QED
  BY <1>1, <1>2, <1>3, <1>4, <1>5, <1>6, <1>7 DEF Rests
------------------------------------------------------------------------------
(* What the steps write. *)

\* Nothing but the generation g changes.
Only(g) ==
  /\ \A h \in Ids \ {g} :
       /\ disk'[h] = disk[h] /\ run'[h] = run[h] /\ cleanup'[h] = cleanup[h]
       /\ h \in cleaned' <=> h \in cleaned
  /\ outage' = outage /\ (notice # "none" => notice' # "none")

\* Its files after the step.
Files1(g, dir, present, torn, secret, synced) ==
  /\ disk' \in [Ids -> Disk] /\ \A h \in Ids \ {g} : disk'[h] = disk[h]
  /\ disk'[g].dir = dir /\ disk'[g].present = present /\ disk'[g].torn = torn
  /\ disk'[g].secret = secret /\ disk'[g].synced = synced

\* Its run after the step.
Run1(g, at, todo, reviewed, code) ==
  /\ run' \in [Ids -> Run] /\ \A h \in Ids \ {g} : run'[h] = run[h]
  /\ run'[g].at = at /\ run'[g].todo = todo /\ run'[g].reviewed = reviewed
  /\ run'[g].code = code

\* The removal of an entry only takes away.
Removes(g) ==
  /\ disk' \in [Ids -> Disk] /\ \A h \in Ids \ {g} : disk'[h] = disk[h]
  /\ disk'[g].present \subseteq disk[g].present /\ disk'[g].secret \subseteq disk[g].secret
  /\ disk'[g].dir => disk[g].dir

\* The fields of the records are typed.
LEMMA Fields ==
  ASSUME Types, NEW g \in Ids
  PROVE  /\ disk[g] \in Disk /\ disk[g].dir \in BOOLEAN
         /\ disk[g].present \subseteq Files /\ disk[g].torn \subseteq Files
         /\ disk[g].secret \subseteq Files /\ disk[g].synced \subseteq Files
         /\ run[g] \in Run /\ run[g].at \in Stations /\ run[g].reviewed \in BOOLEAN
         /\ run[g].todo \in Rests(TRUE) \cup Rests(FALSE)
         /\ run[g].code \in {"none", "unsafe_artifact"} \cup Taints
         /\ cleanup[g] \in {"none", "removing"}
<1>1. disk[g] \in Disk /\ run[g] \in Run /\ cleanup[g] \in {"none", "removing"}
  BY DEF Types
<1>2. /\ disk[g].dir \in BOOLEAN
      /\ disk[g].present \subseteq Files /\ disk[g].torn \subseteq Files
      /\ disk[g].secret \subseteq Files /\ disk[g].synced \subseteq Files
  BY <1>1 DEF Disk
<1>3. /\ run[g].at \in Stations /\ run[g].reviewed \in BOOLEAN
      /\ run[g].todo \in Rests(TRUE) \cup Rests(FALSE)
      /\ run[g].code \in {"none", "unsafe_artifact"} \cup Taints
  BY <1>1 DEF Run
<1> QED
  BY <1>1, <1>2, <1>3

\* Opening and filling a file, and removing an entry.
LEMMA FileWrites ==
  ASSUME Types, NEW g \in Ids, NEW f \in Files
  PROVE  /\ Open(g, f) => Files1(g, disk[g].dir, disk[g].present \cup {f},
                                 disk[g].torn \cup {f}, disk[g].secret, disk[g].synced)
         /\ \A secret \in BOOLEAN :
              Fill(g, f, secret) =>
                Files1(g, disk[g].dir, disk[g].present, disk[g].torn \ {f},
                       IF secret THEN disk[g].secret \cup {f} ELSE disk[g].secret,
                       disk[g].synced \cup ({f} \ Unsynced))
<1>1. disk \in [Ids -> Disk]
  BY DEF Types
<1>2. ASSUME Open(g, f)
      PROVE  Files1(g, disk[g].dir, disk[g].present \cup {f},
                    disk[g].torn \cup {f}, disk[g].secret, disk[g].synced)
  BY <1>1, <1>2 DEF Open, Files1, Disk
<1>3. ASSUME NEW secret \in BOOLEAN, Fill(g, f, secret)
      PROVE  Files1(g, disk[g].dir, disk[g].present, disk[g].torn \ {f},
                    IF secret THEN disk[g].secret \cup {f} ELSE disk[g].secret,
                    disk[g].synced \cup ({f} \ Unsynced))
  BY <1>1, <1>3, ZenonT(60) DEF Fill, Synced, Files1, Disk
<1> QED
  BY <1>2, <1>3

\* What the removal of an entry writes.
LEMMA EntryRemoved ==
  ASSUME Types, NEW g \in Ids, RemoveEntry(g)
  PROVE  Removes(g)
<1>1. disk \in [Ids -> Disk] /\ disk[g] \in Disk
  BY DEF Types
<1>2. CASE disk' = [disk EXCEPT ![g] = NoFiles]
  BY <1>1, <1>2 DEF Removes, Disk, NoFiles
<1>3. ASSUME NEW f \in disk[g].present,
             disk' = [disk EXCEPT ![g].present = @ \ {f}, ![g].torn = @ \ {f},
                                  ![g].secret = @ \ {f}, ![g].synced = @ \ {f}]
      PROVE  Removes(g)
  BY <1>1, <1>3, ZenonT(60) DEF Removes, Disk
<1> QED
  BY <1>2, <1>3 DEF RemoveEntry

\* Moving a run to another station.
LEMMA RunWrites ==
  ASSUME Types, NEW g \in Ids
  PROVE  /\ \A at \in Stations :
              GoTo(g, at) => Run1(g, at, run[g].todo, run[g].reviewed, run[g].code)
         /\ \A code \in {"unsafe_artifact"} \cup Taints :
              Throw(g, code) =>
                Run1(g, IF code \in Taints THEN "destroying" ELSE "failed",
                     run[g].todo, run[g].reviewed, code)
<1>1. run \in [Ids -> Run]
  BY DEF Types
<1>2. ASSUME NEW at \in Stations, GoTo(g, at)
      PROVE  Run1(g, at, run[g].todo, run[g].reviewed, run[g].code)
  BY <1>1, <1>2 DEF GoTo, Run1, Run
<1>3. ASSUME NEW code \in {"unsafe_artifact"} \cup Taints, Throw(g, code)
      PROVE  Run1(g, IF code \in Taints THEN "destroying" ELSE "failed",
                  run[g].todo, run[g].reviewed, code)
  <2> DEFINE at == IF code \in Taints THEN "destroying" ELSE "failed"
  <2>1. at \in Stations
    BY DEF Stations
  <2>2. run' = [run EXCEPT ![g].code = code, ![g].at = at]
    BY <1>3 DEF Throw, MustDestroy
  <2> HIDE DEF at
  <2>3. Run1(g, at, run[g].todo, run[g].reviewed, code)
    BY <1>1, <2>1, <2>2 DEF Run1, Run
  <2> QED
    BY <2>3 DEF at
<1> QED
  BY <1>2, <1>3

\* What holds of a generation survives the steps of the others.
LEMMA OthersKeep ==
  ASSUME NEW g \in Ids, NEW h \in Ids \ {g}, Only(g), GenInv(h)
  PROVE  GenInv(h)'
<1>1. /\ disk'[h] = disk[h] /\ run'[h] = run[h] /\ cleanup'[h] = cleanup[h]
      /\ (h \in cleaned') = (h \in cleaned)
      /\ outage' = outage /\ (notice # "none" => notice' # "none")
  BY DEF Only
<1>2. /\ Whole(h)' = Whole(h) /\ Marked(h)' = Marked(h) /\ Listed(h)' = Listed(h)
      /\ Laid(h)' = Laid(h)
  BY <1>1 DEF Whole, Marked, Listed, Laid
<1>3. Begun(h)'
  BY <1>1 DEF GenInv, Begun
<1>4. Kept(h)' = Kept(h) /\ Complete(h)' = Complete(h) /\ Certified(h)' = Certified(h)
  BY <1>1, <1>2 DEF Kept, Complete, Certified
<1>5. Written(h)'
  BY <1>1, <1>4 DEF GenInv, Written
<1>6. Full(h)' = Full(h)
  BY <1>1, <1>2, <1>4 DEF Full
<1>7. Settled(h)'
  BY <1>1, <1>2, <1>4, <1>6 DEF GenInv, Settled
<1> QED
  BY <1>3, <1>5, <1>7 DEF GenInv
------------------------------------------------------------------------------
(* The steps of a run up to its marker. *)

\* A step of one generation that keeps what holds of it keeps the invariant.
LEMMA OneMoves ==
  ASSUME IInv, NEW g \in Ids, Types', Only(g), GenInv(g)'
  PROVE  IInv'
  BY OthersKeep DEF IInv

\* A run under way is not being removed, and nothing of a run that is before
\* its marker is settled yet.
LEMMA UnderWay ==
  ASSUME IInv, NEW g \in Ids
  PROVE  /\ run[g].at \notin {"returned", "failed", "dead"} => cleanup[g] = "none"
         /\ run[g].at \notin {"publishing", "confirming", "returned", "failed", "dead"} => ~Marked(g)
<1>1. cleanup[g] \in {"none", "removing"}
  BY Fields DEF IInv
<1> QED
  BY <1>1 DEF IInv, GenInv, Settled

\* A run that is under way, without a marker, has nothing settled.
LEMMA Unsettled ==
  ASSUME NEW g \in Ids, ~Marked(g)', cleanup'[g] = "none",
         run'[g].at \notin {"returned", "destroying", "removing", "failed"}
  PROVE  Settled(g)'
  BY DEF Settled

\* The reservation: the directory, then the owner's record.
LEMMA ReserveStep ==
  ASSUME IInv, NEW g \in Ids, Reserve(g) \/ OpenOwner(g) \/ Own(g)
  PROVE  IInv'
<1>1. Types /\ Begun(g) /\ UNCHANGED <<cleanup, notice, cleaned, outage>>
      /\ cleanup[g] = "none" /\ ~Marked(g) /\ disk \in [Ids -> Disk]
  BY UnderWay DEF IInv, GenInv, Types, Reserve, OpenOwner, Own
<1>2. CASE Reserve(g)
  <2>1. run[g].at = "idle" /\ GoTo(g, "reserving") /\ disk' = [disk EXCEPT ![g].dir = TRUE]
    BY <1>2 DEF Reserve
  <2>2. Run1(g, "reserving", run[g].todo, run[g].reviewed, run[g].code)
    BY <1>1, <2>1, RunWrites DEF Stations
  <2>3. Files1(g, TRUE, disk[g].present, disk[g].torn, disk[g].secret, disk[g].synced)
    BY <1>1, <2>1 DEF Files1, Disk
  <2>4. disk[g].present = {} /\ disk[g].torn = {}
    BY <1>1, <2>1 DEF Begun, NoFiles
  <2>5. Types' /\ Only(g)
    BY <1>1, <2>2, <2>3 DEF Types, Only, Run1, Files1
  <2>6. Begun(g)' /\ Written(g)'
    BY <2>2, <2>3, <2>4 DEF Begun, Written, Run1, Files1
  <2>7. Settled(g)'
    BY <1>1, <2>2, <2>3, <2>4, Unsettled DEF Marked, Run1, Files1
  <2> QED
    BY <2>5, <2>6, <2>7, OneMoves DEF GenInv
<1>3. CASE OpenOwner(g)
  <2>1. run[g].at = "reserving" /\ GoTo(g, "owning") /\ Open(g, "owner")
    BY <1>3 DEF OpenOwner
  <2>2. Run1(g, "owning", run[g].todo, run[g].reviewed, run[g].code)
    BY <1>1, <2>1, RunWrites DEF Stations
  <2>3. Files1(g, disk[g].dir, disk[g].present \cup {"owner"}, disk[g].torn \cup {"owner"},
               disk[g].secret, disk[g].synced)
    BY <1>1, <2>1, FileWrites DEF Files
  <2>4. disk[g].present = {} /\ disk[g].torn = {}
    BY <1>1, <2>1 DEF Begun
  <2>5. Types' /\ Only(g)
    BY <1>1, <2>2, <2>3 DEF Types, Only, Run1, Files1
  <2>6. Begun(g)' /\ Written(g)'
    BY <2>2, <2>3, <2>4 DEF Begun, Written, Run1, Files1
  <2>7. Settled(g)'
    BY <1>1, <2>2, <2>3, <2>4, Unsettled DEF Marked, Run1, Files1
  <2> QED
    BY <2>5, <2>6, <2>7, OneMoves DEF GenInv
<1>4. CASE Own(g)
  <2>1. run[g].at = "owning" /\ GoTo(g, "preparing") /\ Fill(g, "owner", FALSE)
    BY <1>4 DEF Own
  <2>2. Run1(g, "preparing", run[g].todo, run[g].reviewed, run[g].code)
    BY <1>1, <2>1, RunWrites DEF Stations
  <2>3. Files1(g, disk[g].dir, disk[g].present, disk[g].torn \ {"owner"},
               disk[g].secret, disk[g].synced \cup ({"owner"} \ Unsynced))
    BY <1>1, <2>1, FileWrites DEF Files
  <2>4. disk[g].present = {"owner"} /\ disk[g].torn = {"owner"} /\ "owner" \notin Unsynced
    BY <1>1, <2>1 DEF Begun, Unsynced
  <2>5. Types' /\ Only(g)
    BY <1>1, <2>2, <2>3 DEF Types, Only, Run1, Files1
  <2>6. Begun(g)' /\ Written(g)'
    BY <2>2, <2>3, <2>4 DEF Begun, Written, Run1, Files1
  <2>7. Settled(g)'
    BY <1>1, <2>2, <2>3, <2>4, Unsettled DEF Marked, Run1, Files1
  <2> QED
    BY <2>5, <2>6, <2>7, OneMoves DEF GenInv
<1> QED
  BY <1>2, <1>3, <1>4

\* What the record of a run says once it is written anew.
LEMMA RunRewritten ==
  ASSUME Types, NEW g \in Ids, NEW at \in Stations, NEW reviewed \in BOOLEAN,
         NEW todo \in Rests(reviewed),
         run' = [run EXCEPT ![g] = [@ EXCEPT !.at = at, !.todo = todo, !.reviewed = reviewed]]
  PROVE  Run1(g, at, todo, reviewed, run[g].code)
<1>1. run \in [Ids -> Run] /\ run[g] \in Run
  BY DEF Types
<1>2. todo \in Rests(TRUE) \cup Rests(FALSE)
  OBVIOUS
<1> DEFINE r == [run[g] EXCEPT !.at = at, !.todo = todo, !.reviewed = reviewed]
<1>3. /\ r \in Run /\ r.at = at /\ r.todo = todo /\ r.reviewed = reviewed /\ r.code = run[g].code
  BY <1>1, <1>2 DEF Run
<1>4. run' = [run EXCEPT ![g] = r]
  OBVIOUS
<1> HIDE DEF r
<1> QED
  BY <1>1, <1>3, <1>4 DEF Run1

\* Every list starts with all that the run is to write.
LEMMA WholeLists ==
  /\ \A reviewed \in BOOLEAN :
       /\ Append(Artifacts(reviewed), "manifest") \in Rests(reviewed)
       /\ Range(Append(Artifacts(reviewed), "manifest"))
            = {"manifest"} \cup Range(Artifacts(reviewed))
       /\ Range(Artifacts(reviewed)) = {"records", "evidence", "report"}
            \cup (IF reviewed THEN {"patch"} ELSE {})
  /\ Range(<<>>) = {}
<1>1. /\ Range(Append(Artifacts(TRUE), "manifest"))
           = {"records", "evidence", "patch", "report", "manifest"}
      /\ Range(Append(Artifacts(FALSE), "manifest"))
           = {"records", "evidence", "report", "manifest"}
  <2>1. /\ Range(<<"records", "evidence", "patch", "report", "manifest">>)
             = {"records", "evidence", "patch", "report", "manifest"}
        /\ Range(<<"records", "evidence", "report", "manifest">>)
             = {"records", "evidence", "report", "manifest"}
    BY Ranges
  <2> QED
    BY <2>1, Lists, Zenon
<1>2. Append(Artifacts(TRUE), "manifest") \in Rests(TRUE)
  BY Lists, Zenon DEF Rests
<1>3. Append(Artifacts(FALSE), "manifest") \in Rests(FALSE)
  BY Lists, Zenon DEF Rests
<1>4. ASSUME NEW reviewed \in BOOLEAN
      PROVE  /\ Append(Artifacts(reviewed), "manifest") \in Rests(reviewed)
             /\ Range(Append(Artifacts(reviewed), "manifest"))
                  = {"manifest"} \cup Range(Artifacts(reviewed))
             /\ Range(Artifacts(reviewed)) = {"records", "evidence", "report"}
                  \cup (IF reviewed THEN {"patch"} ELSE {})
  <2>1. CASE reviewed = TRUE
    BY <1>1, <1>2, <2>1, Lists
  <2>2. CASE reviewed = FALSE
    BY <1>1, <1>3, <2>2, Lists
  <2> QED
    BY <2>1, <2>2
<1> QED
  BY <1>4, Ranges

\* The start of the writing: nothing but the owner is laid, and the checkout is
\* there exactly if the run is bound to a candidate.
LEMMA WritingStarts ==
  ASSUME Types', NEW g \in Ids, run'[g].at = "writing", NEW reviewed \in BOOLEAN,
         run'[g].reviewed = reviewed, run'[g].todo = Append(Artifacts(reviewed), "manifest"),
         disk'[g].present = {"owner"} \cup (IF reviewed THEN {"review"} ELSE {}),
         disk'[g].torn = {}, "owner" \in disk'[g].synced, cleanup'[g] = "none"
  PROVE  GenInv(g)'
<1>1. Listed(g)' = Range(Artifacts(reviewed))
  BY DEF Listed
<1>2. Laid(g)' = {"owner"}
  <2>1. Range(run'[g].todo) = {"manifest"} \cup Range(Artifacts(reviewed))
    BY WholeLists
  <2> QED
    BY <1>1, <2>1 DEF Laid
<1>3. Kept(g)'
  BY <1>2 DEF Kept, Whole
<1>4. run'[g].todo \in Rests(run'[g].reviewed)
  BY WholeLists
<1>5. Begun(g)' /\ Written(g)'
  BY <1>3, <1>4 DEF Begun, Written
<1>6. ~Marked(g)'
  BY DEF Marked
<1> QED
  BY <1>5, <1>6, Unsettled DEF GenInv

\* What is to be published is decided, and a bound candidate is checked out.
LEMMA PrepareStep ==
  ASSUME IInv, NEW g \in Ids,
         Prepare(g) \/ BeginReview(g) \/ EndReview(g) \/ ReviewFails(g)
  PROVE  IInv'
<1>1. Types /\ Begun(g) /\ UNCHANGED <<cleanup, notice, cleaned, outage>>
      /\ cleanup[g] = "none" /\ ~Marked(g) /\ disk \in [Ids -> Disk] /\ disk[g] \in Disk
  BY UnderWay DEF IInv, GenInv, Types, Prepare, BeginReview, EndReview, ReviewFails
<1>2. CASE Prepare(g)
  <2>1. PICK reviewed \in BOOLEAN :
          run' = [run EXCEPT ![g] = [@ EXCEPT !.at = IF reviewed THEN "reviewing" ELSE "writing",
                                              !.todo = Append(Artifacts(reviewed), "manifest"),
                                              !.reviewed = reviewed]]
    BY <1>2 DEF Prepare
  <2> DEFINE at == IF reviewed THEN "reviewing" ELSE "writing"
             todo == Append(Artifacts(reviewed), "manifest")
  <2>2. at \in Stations /\ todo \in Rests(reviewed)
    BY WholeLists DEF Stations
  <2>3. Run1(g, at, todo, reviewed, run[g].code)
    <3> HIDE DEF at, todo
    <3> QED
      BY <1>1, <2>1, <2>2, RunRewritten DEF at, todo
  <2>4. disk' = disk /\ run[g].at = "preparing"
    BY <1>2 DEF Prepare
  <2>5. disk[g].present = {"owner"} /\ disk[g].torn = {} /\ "owner" \in disk[g].synced
    BY <1>1, <2>4 DEF Begun
  <2>6. Types' /\ Only(g)
    BY <1>1, <2>3, <2>4 DEF Types, Only, Run1
  <2>7. CASE reviewed
    <3>1. run'[g].at = "reviewing" /\ run'[g].todo = Append(Artifacts(TRUE), "manifest")
          /\ run'[g].reviewed
      BY <2>3, <2>7 DEF Run1
    <3>2. Begun(g)' /\ Written(g)'
      BY <2>4, <2>5, <3>1 DEF Begun, Written
    <3>3. Settled(g)'
      BY <1>1, <2>4, <3>1, Unsettled DEF Marked
    <3> QED
      BY <2>6, <3>2, <3>3, OneMoves DEF GenInv
  <2>8. CASE ~reviewed
    <3>1. run'[g].at = "writing" /\ run'[g].todo = Append(Artifacts(FALSE), "manifest")
          /\ run'[g].reviewed = FALSE
      BY <2>3, <2>8 DEF Run1
    <3>2. GenInv(g)'
      BY <1>1, <2>4, <2>5, <2>6, <3>1, WritingStarts
    <3> QED
      BY <2>6, <3>2, OneMoves
  <2> QED
    BY <2>7, <2>8
<1>3. CASE BeginReview(g)
  <2>1. run[g].at = "reviewing" /\ GoTo(g, "checking out") /\ Open(g, "review")
    BY <1>3 DEF BeginReview
  <2>2. Run1(g, "checking out", run[g].todo, run[g].reviewed, run[g].code)
    BY <1>1, <2>1, RunWrites DEF Stations
  <2>3. Files1(g, disk[g].dir, disk[g].present \cup {"review"}, disk[g].torn \cup {"review"},
               disk[g].secret, disk[g].synced)
    BY <1>1, <2>1, FileWrites DEF Files, Unsynced
  <2>4. /\ disk[g].present = {"owner"} /\ disk[g].torn = {} /\ "owner" \in disk[g].synced
        /\ run[g].reviewed /\ run[g].todo = Append(Artifacts(TRUE), "manifest")
    BY <1>1, <2>1 DEF Begun
  <2>5. Types' /\ Only(g)
    BY <1>1, <2>2, <2>3 DEF Types, Only, Run1, Files1
  <2>6. Begun(g)' /\ Written(g)'
    BY <2>2, <2>3, <2>4 DEF Begun, Written, Run1, Files1
  <2>7. Settled(g)'
    BY <1>1, <2>2, <2>3, <2>4, Unsettled DEF Marked, Run1, Files1
  <2> QED
    BY <2>5, <2>6, <2>7, OneMoves DEF GenInv
<1>4. CASE EndReview(g)
  <2>1. run[g].at = "checking out" /\ GoTo(g, "writing") /\ Fill(g, "review", FALSE)
    BY <1>4 DEF EndReview
  <2>2. Run1(g, "writing", run[g].todo, run[g].reviewed, run[g].code)
    BY <1>1, <2>1, RunWrites DEF Stations
  <2>3. Files1(g, disk[g].dir, disk[g].present, disk[g].torn \ {"review"},
               disk[g].secret, disk[g].synced \cup ({"review"} \ Unsynced))
    BY <1>1, <2>1, FileWrites DEF Files, Unsynced
  <2>4. /\ disk[g].present = {"owner", "review"} /\ disk[g].torn = {"review"}
        /\ "owner" \in disk[g].synced
        /\ run[g].reviewed = TRUE /\ run[g].todo = Append(Artifacts(TRUE), "manifest")
    BY <1>1, <2>1, Fields DEF Begun
  <2>5. Types' /\ Only(g)
    BY <1>1, <2>2, <2>3 DEF Types, Only, Run1, Files1
  <2>6. GenInv(g)'
    <3>1. /\ disk'[g].present = {"owner"} \cup {"review"} /\ disk'[g].torn = {}
          /\ "owner" \in disk'[g].synced
      BY <2>3, <2>4 DEF Files1
    <3>2. run'[g].at = "writing" /\ run'[g].reviewed = TRUE
          /\ run'[g].todo = Append(Artifacts(TRUE), "manifest")
      BY <2>2, <2>4 DEF Run1
    <3> QED
      BY <1>1, <2>5, <3>1, <3>2, WritingStarts
  <2> QED
    BY <2>5, <2>6, OneMoves
<1>5. CASE ReviewFails(g)
  <2>1. /\ run[g].at \in {"reviewing", "checking out"}
        /\ disk' = [disk EXCEPT ![g].present = @ \ {"review"}, ![g].torn = @ \ {"review"}]
        /\ run' = [run EXCEPT ![g] = [@ EXCEPT !.at = "writing", !.reviewed = FALSE,
                                               !.todo = Append(Artifacts(FALSE), "manifest")]]
    BY <1>5 DEF ReviewFails
  <2>2. Run1(g, "writing", Append(Artifacts(FALSE), "manifest"), FALSE, run[g].code)
    <3> DEFINE todo == Append(Artifacts(FALSE), "manifest")
    <3>1. todo \in Rests(FALSE) /\ "writing" \in Stations
      BY WholeLists DEF Stations
    <3>2. run' = [run EXCEPT ![g] = [@ EXCEPT !.at = "writing", !.todo = todo,
                                              !.reviewed = FALSE]]
      <4> HIDE DEF todo
      <4> QED
        BY <1>1, <2>1 DEF todo, Types, Run
    <3> HIDE DEF todo
    <3>3. Run1(g, "writing", todo, FALSE, run[g].code)
      BY <1>1, <3>1, <3>2, RunRewritten
    <3> QED
      BY <3>3 DEF todo
  <2>3. Files1(g, disk[g].dir, disk[g].present \ {"review"}, disk[g].torn \ {"review"},
               disk[g].secret, disk[g].synced)
    BY <1>1, <2>1 DEF Files1, Disk
  <2>4. /\ disk[g].present \in {{"owner"}, {"owner", "review"}}
        /\ disk[g].torn \subseteq {"review"} /\ "owner" \in disk[g].synced
    BY <1>1, <2>1 DEF Begun
  <2>5. Types' /\ Only(g)
    BY <1>1, <2>2, <2>3 DEF Types, Only, Run1, Files1
  <2>6. GenInv(g)'
    <3>1. /\ disk'[g].present = {"owner"} \cup {} /\ disk'[g].torn = {}
          /\ "owner" \in disk'[g].synced
      BY <2>3, <2>4 DEF Files1
    <3>2. run'[g].at = "writing" /\ run'[g].reviewed = FALSE
          /\ run'[g].todo = Append(Artifacts(FALSE), "manifest")
      BY <2>2 DEF Run1
    <3> QED
      BY <1>1, <2>5, <3>1, <3>2, WritingStarts
  <2> QED
    BY <2>5, <2>6, OneMoves
<1> QED
  BY <1>2, <1>3, <1>4, <1>5

\* The artifacts and the manifest, one after the other.
LEMMA WriteStep ==
  ASSUME IInv, NEW g \in Ids, BeginWrite(g) \/ EndWrite(g)
  PROVE  IInv'
<1>1. Types /\ Written(g) /\ UNCHANGED <<cleanup, notice, cleaned, outage>>
      /\ cleanup[g] = "none" /\ ~Marked(g)
  BY UnderWay DEF IInv, GenInv, BeginWrite, EndWrite
<1>2. /\ Kept(g) /\ run[g].todo \in Rests(run[g].reviewed) /\ run[g].reviewed \in BOOLEAN
      /\ run[g].at \in {"writing", "filling"}
  BY <1>1, Fields DEF Written, BeginWrite, EndWrite
<1>3. run[g].todo # <<>>
  BY <1>1 DEF Written, BeginWrite, EndWrite
<1> DEFINE f == Head(run[g].todo)
           rest == Tail(run[g].todo)
<1>4. /\ f \in {"records", "evidence", "patch", "report", "manifest"}
      /\ Range(run[g].todo) = {f} \cup Range(rest) /\ rest \in Rests(run[g].reviewed)
  BY <1>2, <1>3, HeadOfRest
<1>5. f \in Files /\ f \notin {"owner", "review", "published"}
  BY <1>4 DEF Files, Unsynced
<1>6. CASE BeginWrite(g)
  <2>1. run[g].at = "writing" /\ GoTo(g, "filling") /\ Open(g, f)
    BY <1>6 DEF BeginWrite
  <2> HIDE DEF f, rest
  <2>2. Run1(g, "filling", run[g].todo, run[g].reviewed, run[g].code)
    BY <1>1, <2>1, RunWrites DEF Stations
  <2>3. Files1(g, disk[g].dir, disk[g].present \cup {f}, disk[g].torn \cup {f},
               disk[g].secret, disk[g].synced)
    BY <1>1, <1>5, <2>1, FileWrites
  <2>4. Types' /\ Only(g)
    BY <1>1, <2>2, <2>3 DEF Types, Only, Run1, Files1
  <2>5. f \notin Laid(g) /\ Laid(g)' = Laid(g)
    BY <1>4, <1>5, <2>2 DEF Laid, Listed, Run1
  <2>6. Laid(g)' \subseteq Whole(g)' /\ Laid(g)' \ Unsynced \subseteq disk'[g].synced
    BY <1>2, <2>3, <2>5 DEF Kept, Whole, Files1
  <2>7. Kept(g)'
    BY <1>2, <1>5, <2>2, <2>3, <2>6 DEF Kept, Whole, Run1, Files1
  <2>8. Begun(g)' /\ Written(g)'
    BY <1>2, <1>3, <2>2, <2>3, <2>7 DEF Begun, Written, Run1, Files1, f
  <2>9. Settled(g)'
    BY <1>1, <1>5, <2>2, <2>3, Unsettled DEF Marked, Run1, Files1
  <2> QED
    BY <2>4, <2>8, <2>9, OneMoves DEF GenInv
<1>7. CASE EndWrite(g)
  <2>1. PICK secret \in BOOLEAN : Fill(g, f, secret)
    BY <1>7 DEF EndWrite
  <2>2. /\ run[g].at = "filling" /\ run' = [run EXCEPT ![g].at = "writing", ![g].todo = Tail(@)]
        /\ f \in disk[g].present
    BY <1>1, <1>7 DEF EndWrite, Written
  <2>3. Run1(g, "writing", rest, run[g].reviewed, run[g].code)
    <3>1. run' = [run EXCEPT ![g].at = "writing", ![g].todo = rest]
      BY <2>2
    <3>2. rest \in Rests(TRUE) \cup Rests(FALSE) /\ "writing" \in Stations
      BY <1>2, <1>4 DEF Stations
    <3> HIDE DEF rest
    <3> QED
      BY <1>1, <3>1, <3>2 DEF Run1, Run, Types
  <2> HIDE DEF f, rest
  <2>4. Files1(g, disk[g].dir, disk[g].present, disk[g].torn \ {f},
               IF secret THEN disk[g].secret \cup {f} ELSE disk[g].secret,
               disk[g].synced \cup ({f} \ Unsynced))
    BY <1>1, <1>5, <2>1, FileWrites
  <2>5. Types' /\ Only(g)
    BY <1>1, <2>3, <2>4 DEF Types, Only, Run1, Files1
  <2>6. Laid(g)' \subseteq Laid(g) \cup {f}
    BY <1>4, <2>3 DEF Laid, Listed, Run1
  <2>7. Laid(g)' \subseteq Whole(g)'
    BY <1>2, <2>2, <2>4, <2>6 DEF Kept, Whole, Files1
  <2>8. Laid(g)' \ Unsynced \subseteq disk'[g].synced
    BY <1>2, <2>4, <2>6 DEF Kept, Files1
  <2>9. Kept(g)'
    BY <1>2, <1>5, <2>3, <2>4, <2>7, <2>8 DEF Kept, Whole, Run1, Files1
  <2>10. Begun(g)' /\ Written(g)'
    BY <1>4, <2>3, <2>4, <2>9 DEF Begun, Written, Run1, Files1
  <2>11. Settled(g)'
    BY <1>1, <2>3, <2>4, Unsettled DEF Marked, Run1, Files1
  <2> QED
    BY <2>5, <2>10, <2>11, OneMoves DEF GenInv
<1> QED
  BY <1>6, <1>7

\* The files of a run whose list is empty.
LEMMA AllLaid ==
  ASSUME NEW g \in Ids, run[g].todo = <<>>, Kept(g)
  PROVE  /\ {"owner", "manifest"} \cup Listed(g) \subseteq Whole(g)
         /\ {"owner", "manifest"} \cup (Listed(g) \ Unsynced) \subseteq disk[g].synced
         /\ Complete(g) /\ Full(g)
<1>1. Laid(g) = {"owner", "manifest"} \cup Listed(g)
  BY WholeLists DEF Laid
<1>2. {"owner", "manifest"} \cup (Listed(g) \ Unsynced) \subseteq Laid(g) \ Unsynced
  BY <1>1 DEF Unsynced
<1>3. Complete(g)
  BY <1>1 DEF Kept, Complete
<1> QED
  BY <1>1, <1>2, <1>3 DEF Kept, Full

\* The same after a step.
LEMMA AllLaidNext ==
  ASSUME NEW g \in Ids, run'[g].todo = <<>>, Kept(g)'
  PROVE  Full(g)'
<1>1. Laid(g)' = {"owner", "manifest"} \cup Listed(g)'
  BY WholeLists DEF Laid
<1>2. ({"owner", "manifest"} \cup (Listed(g)' \ Unsynced)) \subseteq Laid(g)' \ Unsynced
  BY <1>1 DEF Unsynced
<1>3. Complete(g)'
  BY <1>1 DEF Kept, Complete
<1> QED
  BY <1>1, <1>2, <1>3 DEF Kept, Full

\* Verification, the search for secrets, the marker and its confirmation.
LEMMA PublishStep ==
  ASSUME IInv, NEW g \in Ids,
         Verify(g) \/ Scan(g) \/ OpenMarker(g) \/ Publish(g) \/ Return(g)
  PROVE  IInv'
<1>1. /\ Types /\ Written(g) /\ Settled(g) /\ UNCHANGED <<cleanup, notice, cleaned, outage>>
      /\ cleanup[g] = "none" /\ disk \in [Ids -> Disk]
      /\ (run[g].at \in {"writing", "scanning", "marking"} => ~Marked(g))
  BY UnderWay DEF IInv, GenInv, Types, Verify, Scan, OpenMarker, Publish, Return
<1>2. /\ Kept(g) /\ run[g].todo \in Rests(run[g].reviewed) /\ run[g].reviewed \in BOOLEAN
      /\ run[g].todo = <<>>
  BY <1>1, Fields DEF Written, Verify, Scan, OpenMarker, Publish, Return
<1>3. /\ {"owner", "manifest"} \cup Listed(g) \subseteq Whole(g)
      /\ Complete(g) /\ Full(g)
  BY <1>2, AllLaid
<1>4. ASSUME disk' = disk, NEW at \in {"scanning", "marking"}, GoTo(g, at), ~Marked(g),
             at = "marking" => disk[g].secret = {}
      PROVE  IInv'
  <2>1. Run1(g, at, run[g].todo, run[g].reviewed, run[g].code)
    BY <1>1, <1>4, RunWrites DEF Stations
  <2>2. Types' /\ Only(g)
    BY <1>1, <1>4, <2>1 DEF Types, Only, Run1
  <2>3. Laid(g)' = Laid(g) /\ Whole(g)' = Whole(g)
    BY <1>4, <2>1 DEF Laid, Listed, Whole, Run1
  <2>4. Kept(g)'
    BY <1>2, <1>4, <2>1, <2>3 DEF Kept, Run1
  <2>5. Begun(g)' /\ Written(g)'
    BY <1>2, <1>4, <2>1, <2>4 DEF Begun, Written, Run1
  <2>6. Settled(g)'
    BY <1>1, <1>4, <2>1, Unsettled DEF Marked, Run1
  <2> QED
    BY <2>2, <2>5, <2>6, OneMoves DEF GenInv
<1>5. CASE Verify(g)
  BY <1>1, <1>4, <1>5 DEF Verify
<1>6. CASE Scan(g)
  BY <1>1, <1>4, <1>6 DEF Scan, SecretsFound
<1>7. CASE OpenMarker(g)
  <2>1. run[g].at = "marking" /\ GoTo(g, "publishing") /\ Open(g, "published")
    BY <1>7 DEF OpenMarker
  <2>2. Run1(g, "publishing", run[g].todo, run[g].reviewed, run[g].code)
    BY <1>1, <2>1, RunWrites DEF Stations
  <2>3. Files1(g, disk[g].dir, disk[g].present \cup {"published"},
               disk[g].torn \cup {"published"}, disk[g].secret, disk[g].synced)
    BY <1>1, <2>1, FileWrites DEF Files
  <2>4. Types' /\ Only(g)
    BY <1>1, <2>2, <2>3 DEF Types, Only, Run1, Files1
  <2>5. Laid(g)' = Laid(g) /\ "published" \notin Laid(g)
    <3>1. Laid(g) = {"owner", "manifest"} \cup Listed(g)
      BY <1>2, WholeLists DEF Laid
    <3>2. Listed(g) \subseteq {"records", "evidence", "patch", "report"}
      BY <1>2, WholeLists DEF Listed
    <3> QED
      BY <2>2, <3>1, <3>2 DEF Laid, Listed, Run1
  <2>6. Laid(g)' \subseteq Whole(g)' /\ Laid(g)' \ Unsynced \subseteq disk'[g].synced
    BY <1>2, <2>3, <2>5 DEF Kept, Whole, Files1
  <2>7. Kept(g)'
    BY <1>2, <2>2, <2>3, <2>6 DEF Kept, Whole, Run1, Files1
  <2>8. Begun(g)' /\ Written(g)'
    BY <1>1, <1>2, <2>1, <2>2, <2>3, <2>7 DEF Begun, Written, Run1, Files1
  <2>9. Full(g)' /\ disk'[g].secret = {}
    <3>1. run'[g].todo = <<>> /\ disk'[g].secret = {}
      BY <1>1, <1>2, <2>1, <2>2, <2>3 DEF Written, Run1, Files1
    <3>2. Full(g)'
      BY <2>7, <3>1, AllLaidNext
    <3> QED
      BY <3>1, <3>2
  <2>10. Settled(g)'
    BY <1>1, <2>2, <2>9 DEF Settled, Run1
  <2> QED
    BY <2>4, <2>8, <2>10, OneMoves DEF GenInv
<1>8. CASE Publish(g)
  <2>1. run[g].at = "publishing" /\ GoTo(g, "confirming") /\ Fill(g, "published", FALSE)
    BY <1>8 DEF Publish
  <2>2. Run1(g, "confirming", run[g].todo, run[g].reviewed, run[g].code)
    BY <1>1, <2>1, RunWrites DEF Stations
  <2>3. Files1(g, disk[g].dir, disk[g].present, disk[g].torn \ {"published"},
               disk[g].secret, disk[g].synced \cup ({"published"} \ Unsynced))
    BY <1>1, <2>1, FileWrites DEF Files
  <2>4. Types' /\ Only(g)
    BY <1>1, <2>2, <2>3 DEF Types, Only, Run1, Files1
  <2>5. Laid(g)' = Laid(g)
    BY <2>2 DEF Laid, Listed, Run1
  <2>6. Laid(g)' \subseteq Whole(g)' /\ Laid(g)' \ Unsynced \subseteq disk'[g].synced
    BY <1>2, <2>3, <2>5 DEF Kept, Whole, Files1
  <2>7. Kept(g)'
    BY <1>2, <2>2, <2>3, <2>6 DEF Kept, Whole, Run1, Files1
  <2>8. Begun(g)' /\ Written(g)'
    BY <1>1, <1>2, <2>1, <2>2, <2>3, <2>7 DEF Begun, Written, Run1, Files1, Unsynced
  <2>9. Full(g)' /\ disk'[g].secret = {}
    <3>1. run'[g].todo = <<>> /\ disk'[g].secret = {}
      BY <1>1, <1>2, <2>1, <2>2, <2>3 DEF Written, Run1, Files1
    <3>2. Full(g)'
      BY <2>7, <3>1, AllLaidNext
    <3> QED
      BY <3>1, <3>2
  <2>10. Settled(g)'
    BY <1>1, <2>2, <2>9 DEF Settled, Run1
  <2> QED
    BY <2>4, <2>8, <2>10, OneMoves DEF GenInv
<1>9. CASE Return(g)
  <2>1. /\ run[g].at = "confirming" /\ GoTo(g, "returned") /\ disk' = disk
        /\ Certified(g) /\ "published" \in disk[g].synced
    BY <1>1, <1>9 DEF Return, Written
  <2>2. Run1(g, "returned", run[g].todo, run[g].reviewed, run[g].code)
    BY <1>1, <2>1, RunWrites DEF Stations
  <2>3. Types' /\ Only(g)
    BY <1>1, <2>1, <2>2 DEF Types, Only, Run1
  <2>4. Begun(g)' /\ Written(g)'
    BY <2>2 DEF Begun, Written, Run1
  <2>5. Certified(g)' /\ Marked(g)' = Marked(g) /\ Listed(g)' = Listed(g) /\ Whole(g)' = Whole(g)
    BY <2>1, <2>2 DEF Certified, Marked, Listed, Whole, Run1
  <2>6. Complete(g)'
    BY <1>3, <2>1, <2>2, <2>5 DEF Complete, Run1
  <2>7. Full(g)'
    BY <1>3, <2>1, <2>5, <2>6 DEF Full
  <2>8. Settled(g)'
    BY <1>1, <2>1, <2>2, <2>5, <2>7 DEF Settled, Run1
  <2> QED
    BY <2>3, <2>4, <2>8, OneMoves DEF GenInv
<1> QED
  BY <1>5, <1>6, <1>7, <1>8, <1>9
------------------------------------------------------------------------------
(* The failures of a run, the removal of a generation, a loss of power. *)

\* A run that stops leaves its files as they are.
LEMMA Stops ==
  ASSUME IInv, NEW g \in Ids, UNCHANGED <<disk, cleanup, notice, cleaned, outage>>,
         cleanup[g] = "none", NEW at \in {"failed", "dead", "destroying"}, NEW code,
         Run1(g, at, run[g].todo, run[g].reviewed, code),
         at = "destroying" => ~Marked(g) /\ code \in Taints,
         at = "failed" => code \notin Taints
  PROVE  IInv'
<1>1. /\ Types /\ Settled(g)
      /\ (Marked(g) => run[g].at \in {"publishing", "confirming", "returned", "failed", "dead"})
  BY DEF IInv, GenInv, Settled
<1>2. Types' /\ Only(g)
  BY <1>1 DEF Types, Only, Run1
<1>3. Begun(g)' /\ Written(g)'
  BY DEF Begun, Written, Run1
<1>4. Marked(g)' = Marked(g) /\ Listed(g)' = Listed(g) /\ Whole(g)' = Whole(g)
  BY DEF Marked, Listed, Whole, Run1
<1>5. Full(g)' = Full(g)
  BY <1>4 DEF Full, Complete, Run1
<1>6. Settled(g)'
  BY <1>1, <1>4, <1>5 DEF Settled, Run1
<1> QED
  BY <1>2, <1>3, <1>6, OneMoves DEF GenInv

\* A failure, a taint, an error before the reservation is complete, and a death.
LEMMA FailStep ==
  ASSUME IInv, NEW g \in Ids, Fail(g) \/ Taint(g) \/ Abandon(g) \/ Die(g)
  PROVE  IInv'
<1>1. /\ Types /\ UNCHANGED <<disk, cleanup, notice, cleaned, outage>>
      /\ cleanup[g] = "none" /\ run \in [Ids -> Run]
      /\ (run[g].at \in {"preparing", "writing", "scanning"} => ~Marked(g))
  BY UnderWay DEF IInv, Types, Fail, Taint, Abandon, Die, Active
<1>2. CASE Fail(g)
  <2>1. Run1(g, "failed", run[g].todo, run[g].reviewed, "unsafe_artifact")
    BY <1>1, <1>2, RunWrites DEF Fail, Taints
  <2>2. "unsafe_artifact" \notin Taints /\ "failed" # "destroying"
    BY DEF Taints
  <2> QED
    BY <1>1, <2>1, <2>2, Stops
<1>3. CASE Taint(g)
  <2>1. PICK code \in Taints : Throw(g, code) /\ run[g].at \in {"preparing", "writing", "scanning"}
    BY <1>3 DEF Taint, Taints
  <2>2. Run1(g, "destroying", run[g].todo, run[g].reviewed, code)
    BY <1>1, <2>1, RunWrites
  <2> QED
    BY <1>1, <2>1, <2>2, Stops
<1>4. CASE Abandon(g)
  <2>1. run' = [run EXCEPT ![g].at = "failed", ![g].code = "none"]
    BY <1>4 DEF Abandon
  <2>2. Run1(g, "failed", run[g].todo, run[g].reviewed, "none")
    BY <1>1, <2>1 DEF Run1, Run, Stations
  <2>3. "none" \notin Taints /\ "failed" # "destroying"
    BY DEF Taints
  <2> QED
    BY <1>1, <2>2, <2>3, Stops
<1>5. CASE Die(g)
  <2>1. Run1(g, "dead", run[g].todo, run[g].reviewed, run[g].code)
    BY <1>1, <1>5, RunWrites DEF Die, Stations
  <2> QED
    BY <1>1, <2>1, Stops
<1> QED
  BY <1>2, <1>3, <1>4, <1>5

\* The destruction of a tainted generation, up to the notice of its failure.
LEMMA DestroyStep ==
  ASSUME IInv, NEW g \in Ids, Destroy(g) \/ DestroyNext(g) \/ Notice(g)
  PROVE  IInv'
<1>1. /\ Types /\ UNCHANGED <<cleanup, cleaned, outage>> /\ cleanup[g] = "none"
      /\ ~Marked(g) /\ run[g].code \in Taints
      /\ run[g].at \in {"destroying", "removing"}
  BY UnderWay DEF IInv, GenInv, Settled, Destroy, DestroyNext, Notice
<1>2. ASSUME RemoveEntry(g), notice' = notice,
             Run1(g, "removing", run[g].todo, run[g].reviewed, run[g].code)
      PROVE  IInv'
  <2>1. Removes(g)
    BY <1>1, <1>2, EntryRemoved
  <2>2. Types' /\ Only(g)
    BY <1>1, <1>2, <2>1 DEF Types, Only, Run1, Removes
  <2>3. Begun(g)' /\ Written(g)'
    BY <1>2 DEF Begun, Written, Run1
  <2>4. Settled(g)'
    BY <1>1, <1>2, <2>1 DEF Settled, Marked, Run1, Removes
  <2> QED
    BY <2>2, <2>3, <2>4, OneMoves DEF GenInv
<1>3. CASE Destroy(g)
  <2>1. Run1(g, "removing", run[g].todo, run[g].reviewed, run[g].code)
    BY <1>1, <1>3, RunWrites DEF Destroy, Stations
  <2> QED
    BY <1>2, <1>3, <2>1 DEF Destroy
<1>4. CASE DestroyNext(g)
  <2>1. Run1(g, "removing", run[g].todo, run[g].reviewed, run[g].code)
    BY <1>1, <1>4 DEF DestroyNext, Run1, Types
  <2> QED
    BY <1>2, <1>4, <2>1 DEF DestroyNext
<1>5. CASE Notice(g)
  <2>1. /\ ~disk[g].dir /\ disk' = disk /\ notice' # "none"
        /\ notice' \in {"none", "unsafe_artifact"} \cup Taints
        /\ Run1(g, "failed", run[g].todo, run[g].reviewed, run[g].code)
    BY <1>1, <1>5, RunWrites DEF Notice, Types, Taints, Stations
  <2>2. Types' /\ Only(g)
    BY <1>1, <2>1 DEF Types, Only, Run1
  <2>3. Begun(g)' /\ Written(g)'
    BY <2>1 DEF Begun, Written, Run1
  <2>4. Settled(g)'
    BY <1>1, <2>1 DEF Settled, Marked, Run1
  <2> QED
    BY <2>2, <2>3, <2>4, OneMoves DEF GenInv
<1> QED
  BY <1>3, <1>4, <1>5

\* The operator's removal.
LEMMA CleanStep ==
  ASSUME IInv, NEW g \in Ids,
         CleanPublished(g) \/ CleanUnpublished(g) \/ CleanNext(g) \/ CleanEnds(g)
  PROVE  IInv'
<1>1. /\ Types /\ Begun(g) /\ Written(g) /\ Settled(g) /\ UNCHANGED <<run, notice, outage>>
      /\ cleanup \in [Ids -> {"none", "removing"}]
  BY DEF IInv, GenInv, Types, CleanPublished, CleanUnpublished, CleanNext, CleanEnds
<1>2. ASSUME disk' = disk, cleaned \subseteq cleaned',
             NEW to \in {"none", "removing"}, cleanup' = [cleanup EXCEPT ![g] = to],
             \A h \in Ids \ {g} : (h \in cleaned') = (h \in cleaned),
             to = "removing" =>
               /\ run[g].at \in {"returned", "failed", "dead"}
               /\ Marked(g) \/ run[g].at = "returned" => g \in cleaned'
      PROVE  IInv'
  <2>1. Types' /\ Only(g) /\ cleanup'[g] = to
    BY <1>1, <1>2 DEF Types, Only
  <2>2. /\ Marked(g)' = Marked(g) /\ Listed(g)' = Listed(g) /\ Whole(g)' = Whole(g)
        /\ Laid(g)' = Laid(g) /\ Certified(g)' = Certified(g)
    BY <1>1, <1>2 DEF Marked, Listed, Whole, Laid, Certified
  <2>3. Kept(g)' = Kept(g) /\ Complete(g)' = Complete(g)
    BY <1>1, <1>2, <2>2 DEF Kept, Complete
  <2>4. Full(g)' = Full(g)
    BY <1>1, <1>2, <2>2, <2>3 DEF Full
  <2>5. Begun(g)' /\ Written(g)'
    BY <1>1, <1>2, <2>3 DEF Begun, Written
  <2>6. Settled(g)'
    BY <1>1, <1>2, <2>1, <2>2, <2>4 DEF Settled
  <2> QED
    BY <2>1, <2>5, <2>6, OneMoves DEF GenInv
<1>3. ASSUME Chosen(g) PROVE run[g].at \in {"returned", "failed", "dead"}
  BY <1>1, <1>3 DEF Chosen, Owned, Active, Begun
<1>4. CASE CleanPublished(g)
  BY <1>2, <1>3, <1>4 DEF CleanPublished
<1>5. CASE CleanUnpublished(g)
  <2>1. run[g].at = "returned" => g \in cleaned
    BY <1>1, <1>5 DEF CleanUnpublished, Unpublished, Settled, Certified, Marked, Whole
  <2> QED
    BY <1>2, <1>3, <1>5, <2>1 DEF CleanUnpublished, Unpublished
<1>6. CASE CleanNext(g)
  <2>1. /\ Removes(g) /\ UNCHANGED <<cleanup, cleaned>> /\ cleanup[g] = "removing"
    BY <1>1, <1>6, EntryRemoved DEF CleanNext
  <2>2. Types' /\ Only(g)
    BY <1>1, <2>1 DEF Types, Only, Removes
  <2>3. Begun(g)' /\ Written(g)'
    BY <1>1, <2>1 DEF Settled, Begun, Written
  <2>4. Settled(g)'
    BY <1>1, <2>1 DEF Settled, Marked, Removes
  <2> QED
    BY <2>2, <2>3, <2>4, OneMoves DEF GenInv
<1>7. CASE CleanEnds(g)
  BY <1>2, <1>7 DEF CleanEnds
<1> QED
  BY <1>4, <1>5, <1>6, <1>7

\* A loss of power costs nothing that was synced.
LEMMA PowerStep == IInv /\ PowerLoss => IInv'
<1> SUFFICES ASSUME IInv, PowerLoss PROVE IInv'
  OBVIOUS
<1> DEFINE unsynced == {e \in Ids \X Files : e[2] \in disk[e[1]].present \ disk[e[1]].synced}
<1>1. /\ Types /\ disk \in [Ids -> Disk] /\ run \in [Ids -> Run]
      /\ UNCHANGED <<notice, cleaned>> /\ outage' = TRUE
      /\ cleanup' = [g \in Ids |-> "none"]
      /\ run' = [g \in Ids |-> IF Active(g) THEN [run[g] EXCEPT !.at = "dead"] ELSE run[g]]
  BY DEF IInv, Types, PowerLoss
<1>2. PICK lost \in SUBSET unsynced : \E broken \in SUBSET (unsynced \ lost) :
        disk' = [g \in Ids |->
          LET left == {f \in disk[g].present : <<g, f>> \notin lost}
          IN  [disk[g] EXCEPT !.dir = @ /\ left # {}, !.present = left,
                              !.torn = {f \in left : f \in @ \/ <<g, f>> \in broken},
                              !.secret = @ \cap left]]
  BY Zenon DEF PowerLoss
<1>3. PICK broken \in SUBSET (unsynced \ lost) :
        disk' = [g \in Ids |->
          LET left == {f \in disk[g].present : <<g, f>> \notin lost}
          IN  [disk[g] EXCEPT !.dir = @ /\ left # {}, !.present = left,
                              !.torn = {f \in left : f \in @ \/ <<g, f>> \in broken},
                              !.secret = @ \cap left]]
  BY <1>2, Zenon
<1>4. ASSUME NEW g \in Ids
      PROVE  /\ disk'[g] \in Disk /\ run'[g] \in Run
             /\ GenInv(g)'
  <2> DEFINE left == {f \in disk[g].present : <<g, f>> \notin lost}
             torn == {f \in left : f \in disk[g].torn \/ <<g, f>> \in broken}
             dir  == disk[g].dir /\ left # {}
  <2>1. /\ disk[g] \in Disk /\ run[g] \in Run /\ dir \in BOOLEAN
        /\ left \subseteq disk[g].present /\ left \subseteq Files /\ torn \subseteq left
        /\ disk[g].secret \subseteq Files /\ disk[g].synced \subseteq Files
    BY <1>1, Fields
  <2>2. \A f : <<g, f>> \in lost \cup broken => f \notin disk[g].synced
    OBVIOUS
  <2>3. disk[g].present \cap disk[g].synced \subseteq left
    BY <2>2
  <2>4. Whole(g) \cap disk[g].synced \subseteq left \ torn
    BY <2>2, <2>3 DEF Whole
  <2>5. disk'[g] = [disk[g] EXCEPT !.dir = dir, !.present = left, !.torn = torn,
                                   !.secret = @ \cap left]
    BY <1>3
  <2>6. dir => disk[g].dir
    OBVIOUS
  <2> HIDE DEF left, torn, dir
  <2>7. /\ disk'[g] \in Disk /\ disk'[g].present = left /\ disk'[g].torn = torn
        /\ disk'[g].dir = dir
        /\ disk'[g].secret = disk[g].secret \cap left /\ disk'[g].synced = disk[g].synced
    BY <2>1, <2>5, ZenonT(60) DEF Disk
  <2>8. /\ run'[g] \in Run /\ run'[g].todo = run[g].todo /\ run'[g].reviewed = run[g].reviewed
        /\ run'[g].code = run[g].code
        /\ run'[g].at = IF Active(g) THEN "dead" ELSE run[g].at
    <3>1. run'[g] = IF Active(g) THEN [run[g] EXCEPT !.at = "dead"] ELSE run[g]
      BY <1>1
    <3>2. [run[g] EXCEPT !.at = "dead"] \in Run
      BY <2>1 DEF Run, Stations
    <3> QED
      BY <2>1, <3>1, <3>2 DEF Run
  <2>9. run'[g].at \in {"idle", "returned", "failed", "dead"}
    BY <2>8 DEF Active
  <2>10. Begun(g) /\ Settled(g)
    BY DEF IInv, GenInv
  <2>11. Begun(g)'
    BY <2>1, <2>6, <2>7, <2>8, <2>9, <2>10 DEF Begun
  <2>12. Written(g)'
    BY <2>9 DEF Written
  <2>13. Whole(g) \cap disk[g].synced \subseteq Whole(g)' \cap disk'[g].synced
    BY <2>4, <2>7 DEF Whole
  <2>14. /\ Marked(g)' => Marked(g) /\ disk'[g].secret \subseteq disk[g].secret
         /\ Listed(g)' = Listed(g)
    BY <2>1, <2>7, <2>8 DEF Marked, Listed
  <2>15. Full(g) => Full(g)'
    BY <1>1, <2>13, <2>14 DEF Full
  <2>16. run[g].at = "returned" /\ g \notin cleaned =>
           /\ Certified(g)' /\ "published" \in disk'[g].synced
    <3>1. ASSUME run[g].at = "returned", g \notin cleaned
          PROVE  {"owner", "manifest", "published"} \subseteq Whole(g) \cap disk[g].synced
      BY <2>10, <3>1 DEF Settled, Certified, Full, Marked, Whole
    <3> QED
      BY <2>7, <2>13, <3>1 DEF Certified
  <2>17. Settled(g)'
    <3>1. Marked(g)' =>
            /\ run'[g].at \in {"publishing", "confirming", "returned", "failed", "dead"}
            /\ disk'[g].secret = {}
            /\ g \notin cleaned' => Full(g)'
      BY <1>1, <2>8, <2>10, <2>14, <2>15 DEF Settled
    <3>2. run'[g].at = "returned" /\ g \notin cleaned' =>
            Certified(g)' /\ "published" \in disk'[g].synced
      BY <1>1, <2>8, <2>16 DEF Active
    <3>3. cleanup'[g] = "none" /\ run'[g].at \notin {"destroying", "removing"}
      BY <1>1, <2>9
    <3>4. run'[g].at = "failed" /\ run'[g].code \in Taints => ~disk'[g].dir /\ notice' # "none"
      BY <1>1, <2>6, <2>7, <2>8, <2>10 DEF Settled
    <3> QED
      BY <3>1, <3>2, <3>3, <3>4 DEF Settled
  <2> QED
    BY <2>7, <2>8, <2>11, <2>12, <2>17 DEF GenInv
<1>5. Types'
  <2>1. disk' \in [Ids -> Disk]
    BY <1>3, <1>4
  <2>2. run' \in [Ids -> Run] /\ cleanup' \in [Ids -> {"none", "removing"}]
    BY <1>1, <1>4
  <2> QED
    BY <1>1, <2>1, <2>2 DEF Types
<1> QED
  BY <1>4, <1>5 DEF IInv
------------------------------------------------------------------------------
(* The theorems. *)

\* No generation is begun at the start.
LEMMA InitInv == Init => IInv
<1> SUFFICES ASSUME Init PROVE IInv
  OBVIOUS
<1>1. Types
  <2>1. NoFiles \in Disk
    BY DEF NoFiles, Disk
  <2>2. NewRun \in Run
    BY DEF NewRun, Run, Stations, Rests
  <2> QED
    BY <2>1, <2>2 DEF Init, Types
<1>2. ASSUME NEW g \in Ids PROVE GenInv(g)
  <2>1. disk[g] = NoFiles /\ run[g] = NewRun /\ cleanup[g] = "none"
    BY DEF Init
  <2>2. /\ ~disk[g].dir /\ disk[g].present = {} /\ disk[g].torn = {}
        /\ run[g].at = "idle" /\ cleanup[g] = "none"
    BY <2>1 DEF NoFiles, NewRun
  <2> QED
    BY <2>2 DEF GenInv, Begun, Written, Settled, Marked
<1> QED
  BY <1>1, <1>2 DEF IInv

\* Every step keeps the invariant.
LEMMA NextKeeps == IInv /\ [Next]_vars => IInv'
<1>1. ASSUME IInv, UNCHANGED vars PROVE IInv'
  <2>1. Types'
    BY <1>1 DEF IInv, Types, vars
  <2>2. ASSUME NEW g \in Ids PROVE GenInv(g)'
    <3>1. GenInv(g)
      BY <1>1 DEF IInv
    <3>2. UNCHANGED <<disk, run, cleanup, notice, cleaned, outage>>
      BY <1>1 DEF vars
    <3>3. /\ Marked(g)' = Marked(g) /\ Listed(g)' = Listed(g) /\ Whole(g)' = Whole(g)
          /\ Laid(g)' = Laid(g) /\ Certified(g)' = Certified(g)
      BY <3>2 DEF Marked, Listed, Whole, Laid, Certified
    <3>4. Kept(g)' = Kept(g) /\ Complete(g)' = Complete(g)
      BY <3>2, <3>3 DEF Kept, Complete
    <3>5. Full(g)' = Full(g)
      BY <3>2, <3>3, <3>4 DEF Full
    <3> QED
      BY <3>1, <3>2, <3>3, <3>4, <3>5, ZenonT(60) DEF GenInv, Begun, Written, Settled
  <2> QED
    BY <2>1, <2>2 DEF IInv
<1> QED
  BY <1>1, ReserveStep, PrepareStep, WriteStep, PublishStep, FailStep, DestroyStep, CleanStep,
     PowerStep DEF Next

\* The invariant of the publication, for every number of generations.
THEOREM Invariance == Spec => []IInv
  BY InitInv, NextKeeps, PTL DEF Spec

\* A generation the listing accepts is whole but for what a loss of power may
\* take (publishLocalRun).
THEOREM CertifiedStaysWhole == Spec => []CertifiedIsWhole
<1>1. IInv => CertifiedIsWhole
  <2> SUFFICES ASSUME IInv, NEW g \in Ids \ cleaned, Certified(g)
               PROVE  IF outage THEN Listed(g) \ Unsynced \subseteq Whole(g) ELSE Complete(g)
    BY DEF CertifiedIsWhole
  <2>1. Marked(g)
    BY DEF Certified, Whole, Marked
  <2>2. Full(g)
    BY <2>1 DEF IInv, GenInv, Settled
  <2> QED
    BY <2>2 DEF Full
<1> QED
  BY <1>1, Invariance, PTL

\* What a run returned is never lost to the listing before an operator gives it
\* to the cleanup of published generations.
THEOREM ReturnedIsKept == Spec => []ReturnedStaysVisible
<1>1. IInv => ReturnedStaysVisible
  BY DEF IInv, GenInv, Settled, ReturnedStaysVisible
<1> QED
  BY <1>1, Invariance, PTL

\* No generation with a marker holds a secret, and a failed generation that was
\* found tainted is gone and noticed.
THEOREM SecretsAreKept == Spec => []SecretsStayPrivate
<1>1. IInv => SecretsStayPrivate
  BY DEF IInv, GenInv, Settled, SecretsStayPrivate
<1> QED
  BY <1>1, Invariance, PTL
=============================================================================
