------------------------- MODULE MCDeviceCapturers -------------------------
\* The instance of DeviceCapturers that TLC checks.
EXTENDS DeviceCapturers

\* Two cameras, of which the first has two device files, and a sound card for each: as
\* they should be, with files that cannot capture, with the numbers of the cameras or of
\* the cards swapped, and with one camera pulled out.
Files(first, c) ==
    [n \in 0..2 |-> [hw |-> IF n \in first THEN "cam1" ELSE "cam2", capture |-> n \in c]]
TwoCards == [c \in {0, 1} |-> IF c = 0 THEN "cam2" ELSE "cam1"]
SomeLayouts ==
    {[node |-> Files({0, 1}, {0, 2}), card |-> TwoCards],
     [node |-> Files({0, 1}, {1, 2}), card |-> [c \in {0, 1} |-> TwoCards[1 - c]]],
     [node |-> Files({1, 2}, {0, 1, 2}), card |-> TwoCards],
     [node |-> Files({0, 1}, {0}), card |-> TwoCards],
     [node |-> [n \in {2} |-> [hw |-> "cam2", capture |-> TRUE]],
      card |-> [c \in {0} |-> "cam2"]]}

SomeFilters == {{"videocap", "v4l2", "screen", "window"}, {"videocap"}, {"screen"}}
SomeUrls == {Url("v4l2", 0), Url("videocap", 5), Url("screen", 1)}
SomeConfig == [n \in {0} |-> Url("window", 7)]
=============================================================================
