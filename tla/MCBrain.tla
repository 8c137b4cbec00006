-------------------------------- MODULE MCBrain --------------------------------
(* A profile of three intents for the model checker. *)
EXTENDS Brain

Axis(input, invert, curve) ==
  [input |-> input, low |-> 0, high |-> Unit, invert |-> invert, curve |-> curve]

Straight == [x \in 0 .. Unit |-> x]
UpTo(top) == [x \in 0 .. Unit |-> IF x < top THEN x ELSE top]

\* Aimed fire needs a near target in view and a clear line; cover is for the exposed, a little
\* less so with a clear line; overwatch is the rest.
MCIntents == <<"AimedFire", "TakeCover", "Overwatch">>
MCAxes == [AimedFire |-> <<Axis("PrimaryTargetVisibility", FALSE, Straight),
                           Axis("PrimaryTargetDistanceCm", TRUE, Straight),
                           Axis("LineOfFireClear", FALSE, Straight)>>,
           TakeCover |-> <<Axis("SelfExposure", FALSE, UpTo(8)),
                           Axis("LineOfFireClear", TRUE, UpTo(1))>>,
           Overwatch |-> <<>>]
\* Both in reach, cover is worth 9 and aimed fire 10: less than the incumbent's bonus apart.
MCBaseWeight == [AimedFire |-> 10, TakeCover |-> 13, Overwatch |-> 3]
MCMinViable == [i \in {"AimedFire", "TakeCover", "Overwatch"} |-> 1]
MCMinDuration == [AimedFire |-> 3, TakeCover |-> 1, Overwatch |-> 2]
MCInterval == <<1, 2>>
MCSensed == {0, 10}
\* 10 stands for BIG_DISTANCE_CM as well: farther than any weapon carries.
MCAbsent == [x \in TargetInput |-> IF x = "PrimaryTargetDistanceCm" THEN 10 ELSE 0]
=============================================================================
