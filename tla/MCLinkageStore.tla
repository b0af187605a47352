---------------------------- MODULE MCLinkageStore ----------------------------
(* Ways of running the program on one small directory.  "any" leaves out no
   configuration and names the directory explicitly.  "steady" is the operator
   who keeps the codec settings of a build and protects the outputs when
   evaluating.  The other ways are those of operators who vary one thing. *)
EXTENDS LinkageStore

CONSTANTS s1, s2, q1, q2
MCSigs == {s1, s2}
MCKnobs == {q1, q2}

Builds(sigs, knobs, codecs, ckpts, protects, keeps) ==
    [sig : sigs, knob : knobs, codec : codecs, ckpt : ckpts,
     protect : protects, keep : keeps, only : {FALSE}]

\* An evaluation uses neither the checkpoint nor the cleanup settings.
Evals(sigs, codecs, protects, onlys) ==
    [sig : sigs, knob : MCKnobs, codec : codecs, ckpt : {FALSE},
     protect : protects, keep : {TRUE}, only : onlys]

AnyWay ==
    [builds |-> Builds(MCSigs, MCKnobs, BOOLEAN, BOOLEAN, BOOLEAN, BOOLEAN),
     evals |-> Evals(MCSigs, BOOLEAN, BOOLEAN, BOOLEAN),
     explicit |-> TRUE, maxRuns |-> 3]

SteadyWay ==
    [builds |-> Builds({s1}, {q1}, {TRUE}, BOOLEAN, BOOLEAN, BOOLEAN),
     evals |-> Evals({s1}, {TRUE}, {TRUE}, BOOLEAN),
     explicit |-> FALSE, maxRuns |-> 4]

\* A checkpointed build and its resumption, with any codec settings.
ResumedWay ==
    [builds |-> Builds({s1}, MCKnobs, {TRUE}, {TRUE}, {FALSE}, {TRUE}),
     evals |-> {}, explicit |-> FALSE, maxRuns |-> 2]

\* The same in a directory that has a name of its own, with any linkage settings.
NamedWay ==
    [builds |-> Builds(MCSigs, {q1}, {TRUE}, {TRUE}, {FALSE}, {TRUE}),
     evals |-> {}, explicit |-> TRUE, maxRuns |-> 2]

\* One build, then evaluations that may rebuild the codec.
RebuildingWay ==
    [builds |-> Builds({s1}, {q1}, {TRUE}, {FALSE}, {TRUE}, {TRUE}),
     evals |-> Evals({s1}, {TRUE}, {FALSE}, BOOLEAN),
     explicit |-> FALSE, maxRuns |-> 3]

AnyAndSteady == [any |-> AnyWay, steady |-> SteadyWay]
Resumed == [resumed |-> ResumedWay]
Named == [named |-> NamedWay]
Rebuilding == [rebuilding |-> RebuildingWay]
=============================================================================
