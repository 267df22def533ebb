----------------------------- MODULE MCFolders -----------------------------
EXTENDS Folders

\* Assets 1 and 2 share a display name, 3 is of the next hour, 5 of the last
\* hour of a year; 4 was taken in that hour and is filed under the next year.
MCTaken   == <<0, 0, 1, 7, 7>>
MCLocal   == <<0, 0, 1, 8, 7>>
MCDisplay == <<1, 1, 3, 4, 5>>

MCLibraries ==
    {{}, {1, 2}, {1, 3}, {2, 3}, {1, 2, 3}, {1, 4, 5}, {4, 5}, {2, 3, 4, 5}}

Choice(trees, album, day, view, flat, before) ==
    [trees |-> trees, albumSplit |-> album, daySplit |-> day,
     view |-> view, flat |-> flat, after |-> 0, before |-> before]
MCSettings == {
    Choice(Trees, 1, 1, TRUE, TRUE, 16),
    Choice(Trees, 4, 1, TRUE, FALSE, 7),
    Choice({"Album"}, 0, 0, FALSE, FALSE, 16)}
=============================================================================
