----------------------------- MODULE MCEvidenceRun -----------------------------
EXTENDS EvidenceRun, TLC

CONSTANTS clear, blank, wall

\* What vision can say of an image, where the symptom matters.
Sightings == {[presence |-> "present", view |-> clear],
              [presence |-> "absent", view |-> clear]}

\* And where only the reading counts.
Glances == {[presence |-> "absent", view |-> wall]}

\* Everything goes wrong that can, and no candidate is verified.
Rough == [mishaps  |-> {"launch", "page", "wall"},
          launches |-> {<<"prepared", "reported">>, <<"prepared", "defaults">>},
          onTarget |-> BOOLEAN,
          refused  |-> BOOLEAN,
          complete |-> BOOLEAN,
          fits     |-> {FALSE},
          verdicts |-> {"limited", "rejected"}]

\* The browser works; a capture may miss a part of the page.
Smooth == [mishaps  |-> {},
           launches |-> {<<"none", Unset>>, <<"prepared", "reported">>,
                         <<"prepared", "defaults">>},
           onTarget |-> {TRUE},
           refused  |-> {FALSE},
           complete |-> BOOLEAN,
           fits     |-> {TRUE},
           verdicts |-> {"rejected", "verified"}]

Symmetric == Permutations(Profiles)
==============================================================================
