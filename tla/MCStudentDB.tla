---------------------------- MODULE MCStudentDB ----------------------------
(* The constants of StudentDB for TLC.  Two students (three where a run    *)
(* says so) and a 32-bit offset range shrunk to 8 records.                 *)
EXTENDS StudentDBMap

\* Ids around both ends of the range, and one that is negative.
MCIds      == {-1, 0, 1, 2, 3}
MCFirstId  == {1}
MCValidIds == {1, 2}
MCThreeIds == {1, 2, 3}

\* Gpas around both ends of 0 .. 1, and around the upper end of 0 .. 0.
MCGpas       == {-1, 0, 1, 2}
MCGpasAndOne == {0, 1}
MCGpa        == {0}
=============================================================================
