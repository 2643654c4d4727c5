------------------------------- MODULE MCFAT --------------------------------
(* A disk with two levels of directories, files in one and in two clusters,*)
(* long names of one and two parts, and a deleted file.  Registers have    *)
(* radix 4, so that the data area lies across the end of the addresses of  *)
(* the 28-bit mode.                                                        *)
EXTENDS FAT

file(n, c, s) == [attrib |-> "FILE", name |-> n, cluster |-> c, size |-> s]
dir(n, c) == [attrib |-> "DIR", name |-> n, cluster |-> c, size |-> 0]
long(k, p) == [attrib |-> "LFN", seq |-> k, part |-> p]

Ent(e) == [ent |-> e, dat |-> <<"junk", "junk">>]
Dat(b) == [ent |-> [i \in 1 .. 5 |-> Junk], dat |-> b]
NoEntries == Ent([i \in 1 .. 5 |-> End])

MCDisk == <<
  Ent(<<long(1, "Index.html"), file("INDEX~1.HTM", 4, 3), file(Erased, 5, 1),
        long(2, "tail"), long(1, "a long name t")>>),
  Ent(<<file("ALONGN~1", 7, 1), dir("SUB", 3), file("BIG", 5, 6), End, End>>),
  Ent(<<dir(".", 3), dir("..", 0), file("NOTES", 7, 2), long(1, "deep"), dir("DEEP~1", 8)>>),
  NoEntries,
  Dat(<<"i1", "i2">>), Dat(<<"i3", "i4">>),
  Dat(<<"b1", "b2">>), Dat(<<"b3", "b4">>),
  Dat(<<"b5", "b6">>), Dat(<<"junk", "junk">>),
  Dat(<<"n1", "n2">>), Dat(<<"junk", "junk">>),
  Ent(<<dir(".", 8), dir("..", 3), End, End, End>>), NoEntries >>

MCDrives == { [features |-> TRUE, data_start_sector |-> 122],
              [features |-> FALSE, data_start_sector |-> 80] }

MCNextCluster == [c \in 2 .. 8 |-> IF c = 5 THEN 6 ELSE EOC]

Parts == { p \in {"Index.html", "INDEX.HTML", "sub", "SUB", "deep", "DEEP", "big", "BIG", "notes",
                  "NOTES", "gone", "GONE", ".", "..", "INDEX~1.HTM", "ALONGN~1", "DEEP~1", "tail",
                  "a long name t", "junk", Erased} : TRUE }
MCUpper == [p \in Parts |-> CASE p = "Index.html" -> "INDEX.HTML" [] p = "sub" -> "SUB"
                              [] p = "deep" -> "DEEP" [] p = "big" -> "BIG"
                              [] p = "notes" -> "NOTES" [] p = "gone" -> "GONE"
                              [] OTHER -> p]
MCFullParts == {"a long name t"}

rel(n) == [abs |-> FALSE, names |-> n]
MCCdPaths == { rel(<< <<"sub">> >>), rel(<< <<"..">> >>), rel(<< <<".">>, <<"deep">> >>),
               rel(<< <<"big">> >>), [abs |-> TRUE, names |-> << <<"SUB">>, <<"deep">>, <<"..">> >>] }
MCCatPaths == { <<>>, << <<"sub">>, <<"notes">> >>, << <<"BIG">> >>, << <<"gone">> >>,
                << <<"big">>, <<"notes">> >>,
                << <<"a long name t", "tail">> >>, << <<"tail", "a long name t">> >>,
                << <<"tail">> >>, << <<Erased>> >> }
MCIndexPath == << <<"INDEX.HTML">> >>

MCFatValues == {EOC, 2, 4, 200}
Bus(a, b, c, d) == [p \in { Places[i] : i \in 1 .. 4 } |->
                      CASE p = Places[1] -> a [] p = Places[2] -> b
                        [] p = Places[3] -> c [] OTHER -> d]
MCBuses == { Bus("none", "atapi", "none", "ata"), Bus("none", "none", "none", "none") }
=============================================================================
