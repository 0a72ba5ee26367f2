--------------------------- MODULE MCRollingFile ---------------------------
(***************************************************************************)
(* Instances of RollingFile for TLC.                                       *)
(***************************************************************************)
EXTENDS RollingFile

Setup(index, gzip, background) ==
    [mode |-> index, compress |-> gzip, asyncActions |-> background,
     directWrite |-> FALSE, rolloverOnStartup |-> FALSE, cleanOnStart |-> FALSE,
     ages |-> FALSE, totalSizeCap |-> 0, append |-> TRUE]

(* All but fileIndex min with gzip, each of the other options in some.     *)
MostSetups ==
    {Setup("nomax", FALSE, FALSE),
     [Setup("nomax", FALSE, FALSE) EXCEPT !.append = FALSE, !.cleanOnStart = TRUE],
     [Setup("nomax", FALSE, TRUE) EXCEPT !.ages = TRUE],
     [Setup("nomax", TRUE, FALSE) EXCEPT !.totalSizeCap = 1],
     [Setup("nomax", TRUE, FALSE) EXCEPT !.ages = TRUE],
     [Setup("nomax", TRUE, TRUE) EXCEPT !.rolloverOnStartup = TRUE, !.cleanOnStart = TRUE],
     [Setup("min", FALSE, FALSE) EXCEPT !.append = FALSE],
     [Setup("min", FALSE, TRUE) EXCEPT !.rolloverOnStartup = TRUE, !.totalSizeCap = 1],
     [Setup("nomax", FALSE, FALSE) EXCEPT !.directWrite = TRUE],
     [Setup("min", FALSE, FALSE) EXCEPT !.directWrite = TRUE]}

MinGzipBackground == {Setup("min", TRUE, TRUE)}
PlainSync == {Setup("nomax", FALSE, FALSE)}
=============================================================================
