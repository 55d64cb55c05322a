------------------------------- MODULE MCPlayback -------------------------------
\* Instances of Playback.
EXTENDS Playback

\* All modules, and the last one alone.
AllOrLast == {Modules, {M - 1}}
\* Two slots that fit their region, two that do not, and all the slots; each module of a
\* request has one of them of its own.
FewLayouts == {<<1, 3>>, <<3, 3>>, <<1, 1, 1>>}
=============================================================================
