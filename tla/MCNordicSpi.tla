---------------------------- MODULE MCNordicSpi ----------------------------
(* Packages of the runs of NordicSpi *)
EXTENDS NordicSpi

U(k, f, n) == [kind |-> k, file |-> f, at |-> n]

Member(f, n) ==
  <<U("local", f, 0), U("name", f, 0)>> \o [i \in 1 .. n |-> U("data", f, i - 1)]

Directory(fs) ==
  FlattenSeq([i \in 1 .. Len(fs) |-> <<U("central", fs[i], 0), U("name", fs[i], 0)>>])
    \o <<U("end", NoFile, 0)>>

OneImage == <<[dat |-> "dat", bin |-> "bin"]>>

\* What nrfutil makes.
Plain ==
  [content  |-> Member("bin", 15) \o Member("dat", 3) \o Member("json", 1)
                  \o Directory(<<"bin", "dat", "json">>),
   size     |-> [bin |-> 15, dat |-> 3, json |-> 1],
   manifest |-> "json", others |-> {}, images |-> OneImage]

\* With a member of another kind in front.
WithNotes ==
  [content  |-> Member("txt", 1) \o Member("json", 1) \o Member("dat", 1) \o Member("bin", 12)
                  \o Directory(<<"txt", "json", "dat", "bin">>),
   size     |-> [bin |-> 12, dat |-> 1, json |-> 1, txt |-> 1],
   manifest |-> "json", others |-> {"txt"}, images |-> OneImage]

\* A soft device and an application.
TwoImages ==
  [content  |-> Member("json", 1) \o Member("dat", 1) \o Member("bin", 6)
                  \o Member("dat2", 1) \o Member("bin2", 2)
                  \o Directory(<<"json", "dat", "bin", "dat2", "bin2">>),
   size     |-> [json |-> 1, dat |-> 1, bin |-> 6, dat2 |-> 1, bin2 |-> 2],
   manifest |-> "json", others |-> {},
   images   |-> OneImage \o <<[dat |-> "dat2", bin |-> "bin2"]>>]

AllPackages == {Plain, WithNotes, TwoImages}

Sizes == [command |-> 4, data |-> 4]
=============================================================================
