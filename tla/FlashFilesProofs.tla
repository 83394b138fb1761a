-------------------------- MODULE FlashFilesProofs --------------------------
(***************************************************************************)
(* No sector of the flash is shared or lost, for any number of sectors,    *)
(* files, names and sizes, whatever the flash refuses and whenever the     *)
(* processor is reset; an open descriptor leads to the file of its name;   *)
(* what was written to a file stays there, and is what a read copies.      *)
(***************************************************************************)
EXTENDS FlashFiles, WellFoundedInduction, TLAPS

\* What a file owns.
Owned(e) == spifiles[e].sectors

\* The lists and their disjointness, position by position.
TypeInv ==
  /\ free \in Seq(Sectors)
  /\ DOMAIN spifiles = Entries
  /\ \A e \in Entries : Owned(e) \in Seq(Sectors)

FreeDiffers == \A i, j \in DOMAIN free : i # j => free[i] # free[j]

FreeNotOwned ==
  \A i \in DOMAIN free, e \in Entries : \A j \in DOMAIN Owned(e) : free[i] # Owned(e)[j]

OwnedDiffers ==
  \A d, e \in Entries : \A i \in DOMAIN Owned(d), j \in DOMAIN Owned(e) :
    Owned(d)[i] = Owned(e)[j] => d = e /\ i = j

NoneLost ==
  \A s \in Sectors :
    \/ \E i \in DOMAIN free : free[i] = s
    \/ \E e \in Entries : \E i \in DOMAIN Owned(e) : Owned(e)[i] = s

IInv == TypeInv /\ FreeDiffers /\ FreeNotOwned /\ OwnedDiffers /\ NoneLost

-----------------------------------------------------------------------------
(* Reversed lists, numbers of sectors *)

\* Reverse() keeps the elements, each at the place counted from the other end.
LEMMA Reversed ==
  ASSUME NEW T, NEW s \in Seq(T)
  PROVE  /\ Reverse(s) \in Seq(T) /\ Len(Reverse(s)) = Len(s)
         /\ \A i \in 1 .. Len(s) : Reverse(s)[i] = s[Len(s) - i + 1]
  BY DEF Reverse

\* What a file needs is a number of sectors.
LEMMA WantedNat ==
  ASSUME NEW m \in Nat
  PROVE  Wanted(m) \in Nat
<1>1. DataSize \in Nat /\ DataSize > 0
  BY FlashConstants
<1>2. m + DataSize - 1 \in Nat
  BY <1>1
<1>3. \A n, d \in Nat : d > 0 => n \div d \in Nat
  BY SMTT(30)
<1> QED
  BY <1>1, <1>2, <1>3 DEF Wanted, UpDiv

-----------------------------------------------------------------------------
(* Each step *)

\* Steps that move no sector.
LEMMA NothingMoves ==
  ASSUME IInv, free' = free, DOMAIN spifiles' = Entries,
         \A e \in Entries : Owned(e)' = Owned(e)
  PROVE  IInv'
<1>1. TypeInv' /\ FreeDiffers'
  BY DEF IInv, TypeInv, FreeDiffers
<1>2. FreeNotOwned'
  BY DEF IInv, FreeNotOwned
<1>3. OwnedDiffers'
  BY DEF IInv, OwnedDiffers
<1>4. NoneLost'
  BY DEF IInv, NoneLost
<1> QED
  BY <1>1, <1>2, <1>3, <1>4 DEF IInv

\* All sectors are free, at first and after a reset.
LEMMA AllFree ==
  /\ InitialFree \in Seq(Sectors) /\ Len(InitialFree) = NSectors
  /\ \A i \in 1 .. NSectors : InitialFree[i] = NSectors - i
<1> DEFINE up == [i \in 1 .. NSectors |-> i - 1]
<1>1. NSectors \in Nat
  BY FlashConstants
<1>2. up \in Seq(Sectors) /\ Len(up) = NSectors
  BY <1>1 DEF Sectors
<1>3. \A i \in 1 .. NSectors : up[NSectors - i + 1] = NSectors - i
  BY <1>1
<1> HIDE DEF up
<1>4. InitialFree = Reverse(up)
  BY DEF InitialFree, up
<1> QED
  BY <1>1, <1>2, <1>3, <1>4, Reversed

LEMMA InitInv == Init => IInv
<1> SUFFICES ASSUME Init PROVE IInv
  OBVIOUS
<1>1. NSectors \in Nat
  BY FlashConstants
<1>2. free \in Seq(Sectors) /\ Len(free) = NSectors
      /\ \A i \in 1 .. NSectors : free[i] = NSectors - i
  BY AllFree DEF Init
<1>3. DOMAIN spifiles = Entries /\ \A e \in Entries : Owned(e) = <<>>
  BY DEF Init, NoFile, Owned
<1>4. TypeInv /\ FreeNotOwned /\ OwnedDiffers
  <2>1. <<>> \in Seq(Sectors) /\ DOMAIN <<>> = {}
    OBVIOUS
  <2>2. TypeInv
    BY <1>2, <1>3, <2>1 DEF TypeInv
  <2>3. FreeNotOwned
    BY <1>3, <2>1 DEF FreeNotOwned
  <2>4. OwnedDiffers
    BY <1>3, <2>1 DEF OwnedDiffers
  <2> QED
    BY <2>2, <2>3, <2>4
<1>5. FreeDiffers
  BY <1>1, <1>2 DEF FreeDiffers
<1>6. NoneLost
  <2> SUFFICES ASSUME NEW s \in Sectors
               PROVE  \E i \in DOMAIN free : free[i] = s
    BY DEF NoneLost
  <2>1. s \in 0 .. NSectors - 1
    BY DEF Sectors
  <2>2. NSectors - s \in 1 .. NSectors /\ free[NSectors - s] = s
    BY <1>1, <1>2, <2>1
  <2> QED
    BY <1>2, <2>2
<1> QED
  BY <1>4, <1>5, <1>6 DEF IInv

LEMMA RestartInv ==
  ASSUME Restarted
  PROVE  IInv'
<1>1. NSectors \in Nat
  BY FlashConstants
<1>2. free' \in Seq(Sectors) /\ Len(free') = NSectors
      /\ \A i \in 1 .. NSectors : free'[i] = NSectors - i
  BY AllFree DEF Restarted
<1>3. DOMAIN spifiles' = Entries /\ \A e \in Entries : Owned(e)' = <<>>
  BY DEF Restarted, NoFile, Owned
<1>4. TypeInv' /\ FreeNotOwned' /\ OwnedDiffers'
  <2>1. <<>> \in Seq(Sectors) /\ DOMAIN <<>> = {}
    OBVIOUS
  <2>2. TypeInv'
    BY <1>2, <1>3, <2>1 DEF TypeInv
  <2>3. FreeNotOwned'
    BY <1>3, <2>1 DEF FreeNotOwned
  <2>4. OwnedDiffers'
    BY <1>3, <2>1 DEF OwnedDiffers
  <2> QED
    BY <2>2, <2>3, <2>4
<1>5. FreeDiffers'
  BY <1>1, <1>2 DEF FreeDiffers
<1>6. NoneLost'
  <2> SUFFICES ASSUME NEW s \in Sectors
               PROVE  \E i \in DOMAIN free' : free'[i] = s
    BY DEF NoneLost
  <2>1. s \in 0 .. NSectors - 1
    BY DEF Sectors
  <2>2. NSectors - s \in 1 .. NSectors /\ free'[NSectors - s] = s
    BY <1>1, <1>2, <2>1
  <2> QED
    BY <1>2, <2>2
<1> QED
  BY <1>4, <1>5, <1>6 DEF IInv

\* A new file gets the first sectors of the free list.
LEMMA OpenNewInv ==
  ASSUME IInv, NEW n \in Names, NEW m \in MaxSizes, OpenNew(n, m)
  PROVE  IInv'
<1> DEFINE num == Wanted(m)
<1>1. PICK e \in Minimal(FreeEntries) :
        DOMAIN spifiles' = DOMAIN spifiles
        /\ spifiles'[e].sectors = Taken(num)
        /\ \A d \in DOMAIN spifiles : d # e => spifiles'[d] = spifiles[d]
  <2>1. DOMAIN spifiles = Entries
    BY DEF IInv, TypeInv
  <2>2. \A e \in Minimal(FreeEntries) : e \in Entries
    BY DEF Minimal, FreeEntries
  <2> QED
    BY <2>1, <2>2 DEF OpenNew
<1>2. e \in Entries /\ Owned(e) = <<>>
  BY DEF Minimal, FreeEntries, Used, Owned
<1>3. num \in Nat /\ num <= Len(free) /\ free' = SubSeq(free, num + 1, Len(free))
  <2>1. m \in Nat
    BY FlashConstants
  <2> QED
    BY <2>1, WantedNat DEF OpenNew
<1>4. free \in Seq(Sectors) /\ Len(free) \in Nat /\ DOMAIN free = 1 .. Len(free)
  BY DEF IInv, TypeInv
<1> HIDE DEF num
<1>5. /\ free' \in Seq(Sectors) /\ DOMAIN free' = 1 .. Len(free) - num
      /\ \A i \in 1 .. Len(free) - num : free'[i] = free[num + i]
  BY <1>3, <1>4
<1>6. /\ Owned(e)' \in Seq(Sectors) /\ DOMAIN Owned(e)' = 1 .. num
      /\ \A i \in 1 .. num : Owned(e)'[i] = free[num - i + 1]
  <2> DEFINE s == SubSeq(free, 1, num)
  <2>1. s \in Seq(Sectors) /\ Len(s) = num /\ \A i \in 1 .. num : s[i] = free[i]
    BY <1>3, <1>4
  <2>2. Owned(e)' = Reverse(s)
    BY <1>1 DEF Owned, Taken
  <2> HIDE DEF s
  <2>3. /\ Reverse(s) \in Seq(Sectors) /\ Len(Reverse(s)) = num
        /\ \A i \in 1 .. num : Reverse(s)[i] = s[num - i + 1]
    BY <2>1, Reversed
  <2>4. \A i \in 1 .. num : num - i + 1 \in 1 .. num
    BY <1>3
  <2> QED
    BY <2>1, <2>2, <2>3, <2>4
<1>7. \A d \in Entries : d # e => Owned(d)' = Owned(d)
  BY <1>1 DEF Owned, IInv, TypeInv
<1>8. TypeInv'
  BY <1>1, <1>5, <1>6, <1>7 DEF IInv, TypeInv
<1>9. FreeDiffers'
  BY <1>3, <1>4, <1>5 DEF IInv, FreeDiffers
<1>10. FreeNotOwned'
  <2> SUFFICES ASSUME NEW i \in DOMAIN free', NEW d \in Entries, NEW j \in DOMAIN Owned(d)'
               PROVE  free'[i] # Owned(d)'[j]
    BY DEF FreeNotOwned
  <2>1. num + i \in DOMAIN free /\ free'[i] = free[num + i] /\ i > 0
    BY <1>3, <1>4, <1>5
  <2>2. CASE d = e
    <3>1. num - j + 1 \in DOMAIN free /\ num - j + 1 # num + i
          /\ Owned(d)'[j] = free[num - j + 1]
      BY <1>3, <1>4, <1>6, <2>1, <2>2
    <3> QED
      BY <2>1, <3>1 DEF IInv, FreeDiffers
  <2>3. CASE d # e
    BY <1>7, <2>1, <2>3 DEF IInv, FreeNotOwned
  <2> QED
    BY <2>2, <2>3
<1>11. OwnedDiffers'
  <2> SUFFICES ASSUME NEW c \in Entries, NEW d \in Entries,
                      NEW i \in DOMAIN Owned(c)', NEW j \in DOMAIN Owned(d)',
                      Owned(c)'[i] = Owned(d)'[j]
               PROVE  c = d /\ i = j
    BY DEF OwnedDiffers
  <2>1. \A k \in DOMAIN Owned(e)' :
          num - k + 1 \in DOMAIN free /\ Owned(e)'[k] = free[num - k + 1]
    BY <1>3, <1>4, <1>6
  <2>2. CASE c = e /\ d = e
    <3>1. num - i + 1 = num - j + 1
      BY <2>1, <2>2 DEF IInv, FreeDiffers
    <3>2. i \in Int /\ j \in Int
      BY <1>6, <2>2
    <3> QED
      BY <1>3, <2>2, <3>1, <3>2
  <2>3. CASE c = e /\ d # e
    BY <1>7, <2>1, <2>3 DEF IInv, FreeNotOwned
  <2>4. CASE c # e /\ d = e
    BY <1>7, <2>1, <2>4 DEF IInv, FreeNotOwned
  <2>5. CASE c # e /\ d # e
    BY <1>7, <2>5 DEF IInv, OwnedDiffers
  <2> QED
    BY <2>2, <2>3, <2>4, <2>5
<1>12. NoneLost'
  <2> SUFFICES ASSUME NEW s \in Sectors
               PROVE  \/ \E i \in DOMAIN free' : free'[i] = s
                      \/ \E d \in Entries : \E i \in DOMAIN Owned(d)' : Owned(d)'[i] = s
    BY DEF NoneLost
  <2>1. CASE \E i \in DOMAIN free : free[i] = s
    <3>1. PICK i \in DOMAIN free : free[i] = s
      BY <2>1
    <3>2. CASE i <= num
      <4>1. num - i + 1 \in DOMAIN Owned(e)' /\ Owned(e)'[num - i + 1] = s
        BY <1>3, <1>4, <1>6, <3>1, <3>2
      <4> QED
        BY <1>2, <4>1
    <3>3. CASE ~(i <= num)
      <4>1. i - num \in DOMAIN free' /\ free'[i - num] = s
        BY <1>3, <1>4, <1>5, <3>1, <3>3
      <4> QED
        BY <4>1
    <3> QED
      BY <3>2, <3>3
  <2>2. CASE \E d \in Entries : \E i \in DOMAIN Owned(d) : Owned(d)[i] = s
    <3>1. PICK d \in Entries : \E i \in DOMAIN Owned(d) : Owned(d)[i] = s
      BY <2>2
    <3>2. d # e
      BY <1>2, <3>1
    <3> QED
      BY <1>7, <3>1, <3>2
  <2> QED
    BY <2>1, <2>2 DEF IInv, NoneLost
<1> QED
  BY <1>8, <1>9, <1>10, <1>11, <1>12 DEF IInv

\* The sectors of a file that is removed go back to the free list.
LEMMA RemoveFileInv ==
  ASSUME IInv, NEW n \in Names, NEW e \in Entries,
         ClosedByCaller(e), RemoveFile(n, e)
  PROVE  IInv'
<1>1. /\ DOMAIN spifiles' = DOMAIN spifiles
      /\ spifiles'[e].sectors = <<>>
      /\ \A d \in DOMAIN spifiles : d # e => spifiles'[d] = spifiles[d]
      /\ free' = Freed(Owned(e))
  <2>1. DOMAIN spifiles = Entries
    BY DEF IInv, TypeInv
  <2> QED
    BY <2>1 DEF RemoveFile, NoFile, Owned
<1> DEFINE s == Owned(e)
           l == Len(s)
<1>2. s \in Seq(Sectors) /\ l \in Nat /\ DOMAIN s = 1 .. l
  BY DEF IInv, TypeInv
<1>3. free \in Seq(Sectors) /\ Len(free) \in Nat /\ DOMAIN free = 1 .. Len(free)
  BY DEF IInv, TypeInv
<1>4. Owned(e)' = <<>> /\ DOMAIN Owned(e)' = {} /\ Owned(e)' \in Seq(Sectors)
  BY <1>1 DEF Owned
<1>5. \A d \in Entries : d # e => Owned(d)' = Owned(d)
  BY <1>1 DEF Owned, IInv, TypeInv
<1>6. /\ free' \in Seq(Sectors) /\ DOMAIN free' = 1 .. l + Len(free)
      /\ \A i \in 1 .. l : free'[i] = s[l - i + 1]
      /\ \A i \in l + 1 .. l + Len(free) : free'[i] = free[i - l]
  <2>1. /\ Reverse(s) \in Seq(Sectors) /\ Len(Reverse(s)) = l
        /\ \A i \in 1 .. l : Reverse(s)[i] = s[l - i + 1]
    BY <1>2, Reversed
  <2>2. free' = Reverse(s) \o free
    BY <1>1 DEF Freed
  <2> HIDE DEF s, l
  <2> QED
    BY <1>2, <1>3, <2>1, <2>2
<1>7. OwnedDiffers /\ FreeDiffers /\ FreeNotOwned
  BY DEF IInv
<1> HIDE DEF l
<1>8. TypeInv'
  BY <1>1, <1>4, <1>5, <1>6 DEF IInv, TypeInv
<1>9. FreeDiffers'
  <2> SUFFICES ASSUME NEW i \in DOMAIN free', NEW j \in DOMAIN free', i < j
               PROVE  free'[i] # free'[j]
    BY <1>2, <1>3, <1>6 DEF FreeDiffers
  <2>1. CASE j <= l
    <3>1. l - i + 1 \in DOMAIN s /\ l - j + 1 \in DOMAIN s /\ l - i + 1 # l - j + 1
          /\ free'[i] = s[l - i + 1] /\ free'[j] = s[l - j + 1]
      BY <1>2, <1>6, <2>1
    <3> QED
      BY <1>7, <3>1 DEF OwnedDiffers
  <2>2. CASE i <= l /\ l < j
    <3>1. l - i + 1 \in DOMAIN s /\ j - l \in DOMAIN free
          /\ free'[i] = s[l - i + 1] /\ free'[j] = free[j - l]
      BY <1>2, <1>3, <1>6, <2>2
    <3> QED
      BY <1>7, <3>1 DEF FreeNotOwned
  <2>3. CASE l < i
    <3>1. i - l \in DOMAIN free /\ j - l \in DOMAIN free /\ i - l # j - l
          /\ free'[i] = free[i - l] /\ free'[j] = free[j - l]
      BY <1>2, <1>3, <1>6, <2>3
    <3> QED
      BY <1>7, <3>1 DEF FreeDiffers
  <2> QED
    BY <1>2, <1>3, <1>6, <2>1, <2>2, <2>3
<1>10. FreeNotOwned'
  <2> SUFFICES ASSUME NEW i \in DOMAIN free', NEW d \in Entries, NEW j \in DOMAIN Owned(d)'
               PROVE  free'[i] # Owned(d)'[j]
    BY DEF FreeNotOwned
  <2>1. d # e /\ Owned(d)' = Owned(d) /\ j \in DOMAIN Owned(d)
    BY <1>4, <1>5
  <2>2. CASE i <= l
    <3>1. l - i + 1 \in DOMAIN s /\ free'[i] = s[l - i + 1]
      BY <1>2, <1>3, <1>6, <2>2
    <3> QED
      BY <1>7, <2>1, <3>1 DEF OwnedDiffers
  <2>3. CASE l < i
    <3>1. i \in l + 1 .. l + Len(free)
      BY <1>2, <1>3, <1>6, <2>3
    <3>2. i - l \in DOMAIN free /\ free'[i] = free[i - l]
      BY <1>2, <1>3, <1>6, <3>1
    <3> QED
      BY <1>7, <2>1, <3>2 DEF FreeNotOwned
  <2> QED
    BY <1>2, <1>3, <1>6, <2>2, <2>3
<1>11. OwnedDiffers'
  BY <1>4, <1>5, <1>7 DEF OwnedDiffers
<1>12. NoneLost'
  <2> SUFFICES ASSUME NEW x \in Sectors
               PROVE  \/ \E i \in DOMAIN free' : free'[i] = x
                      \/ \E d \in Entries : \E i \in DOMAIN Owned(d)' : Owned(d)'[i] = x
    BY DEF NoneLost
  <2>1. CASE \E i \in DOMAIN free : free[i] = x
    <3>1. PICK i \in DOMAIN free : free[i] = x
      BY <2>1
    <3>2. l + i \in l + 1 .. l + Len(free) /\ l + i - l = i
      BY <1>2, <1>3
    <3>3. l + i \in DOMAIN free' /\ free'[l + i] = x
      BY <1>2, <1>3, <1>6, <3>1, <3>2
    <3> QED
      BY <3>3
  <2>2. CASE \E i \in DOMAIN s : s[i] = x
    <3>1. PICK i \in DOMAIN s : s[i] = x
      BY <2>2
    <3>2. l - i + 1 \in DOMAIN free' /\ free'[l - i + 1] = x
      BY <1>2, <1>3, <1>6, <3>1
    <3> QED
      BY <3>2
  <2>3. CASE \E d \in Entries : d # e /\ \E i \in DOMAIN Owned(d) : Owned(d)[i] = x
    BY <1>5, <2>3
  <2> QED
    BY <2>1, <2>2, <2>3 DEF IInv, NoneLost
<1> QED
  BY <1>8, <1>9, <1>10, <1>11, <1>12 DEF IInv

\* The other steps move no sector, or are a reset.
LEMMA StepInv ==
  ASSUME IInv, [Next]_vars
  PROVE  IInv'
<1>1. CASE UNCHANGED vars
  BY <1>1, NothingMoves DEF IInv, TypeInv, vars, Owned
<1>2. ASSUME NEW n \in Names, OpenExisting(n) PROVE IInv'
  BY <1>2, NothingMoves DEF OpenExisting, IInv, TypeInv, Owned
<1>3. ASSUME NEW n \in Names, NEW m \in MaxSizes, OpenNew(n, m) PROVE IInv'
  BY <1>3, OpenNewInv
<1>4. ASSUME NEW n \in Names, NEW e \in Entries, ClosedByCaller(e), RemoveFile(n, e)
      PROVE  IInv'
  BY <1>4, RemoveFileInv
<1>5. \A f : free' = free /\ spifiles' = [spifiles EXCEPT ![files[f].entry].closed = TRUE]
        => IInv'
  BY NothingMoves DEF IInv, TypeInv, Owned
<1>6. ASSUME NEW f \in Fds, Close(f) \/ CloseFails(f) PROVE IInv'
  <2>1. CASE Close(f)
    BY <1>5, <2>1 DEF Close
  <2>2. CASE CloseFails(f)
    BY <2>2, NothingMoves DEF CloseFails, IInv, TypeInv, Owned
  <2> QED
    BY <1>6, <2>1, <2>2
<1>7. ASSUME NEW f \in Fds, NEW sz \in Sizes, NEW align \in Aligns,
             \/ Write(f, sz, align) \/ WriteFails(f, sz, align)
             \/ WriteFaults(f, sz, align) \/ Read(f, sz, align)
      PROVE  IInv'
  <2>1. CASE Write(f, sz, align)
    <3>1. /\ free' = free /\ DOMAIN spifiles' = DOMAIN spifiles
          /\ \A e \in DOMAIN spifiles : spifiles'[e].sectors = spifiles[e].sectors
      BY <2>1 DEF Write
    <3> QED
      BY <3>1, NothingMoves DEF IInv, TypeInv, Owned
  <2>2. CASE WriteFails(f, sz, align)
    <3>1. /\ free' = free /\ DOMAIN spifiles' = DOMAIN spifiles
          /\ \A e \in DOMAIN spifiles : spifiles'[e].sectors = spifiles[e].sectors
      BY <2>2 DEF WriteFails
    <3> QED
      BY <3>1, NothingMoves DEF IInv, TypeInv, Owned
  <2>3. CASE WriteFaults(f, sz, align)
    BY <2>3, RestartInv DEF WriteFaults
  <2>4. CASE Read(f, sz, align)
    BY <2>4, NothingMoves DEF Read, IInv, TypeInv, Owned
  <2> QED
    BY <1>7, <2>1, <2>2, <2>3, <2>4
<1>8. CASE Restart
  BY <1>8, RestartInv DEF Restart
<1> QED
  BY <1>1, <1>2, <1>3, <1>4, <1>6, <1>7, <1>8 DEF Next

\* The invariant says what the property does of the positions of the lists.
LEMMA InvSays == IInv => NoSharedSector
<1> SUFFICES ASSUME IInv PROVE NoSharedSector
  OBVIOUS
<1>1. \A p \in Lists :
        \/ \E i \in DOMAIN free : p = <<0, i>>
        \/ \E e \in Entries : \E i \in DOMAIN Owned(e) : p = <<e, i>>
  BY DEF Lists, Owned
<1>2. /\ \A i \in DOMAIN free : <<0, i>> \in Lists /\ At(<<0, i>>) = free[i]
      /\ \A e \in Entries : \A i \in DOMAIN Owned(e) :
           <<e, i>> \in Lists /\ At(<<e, i>>) = Owned(e)[i]
  <2>1. \A e \in Entries : e # 0
    BY FlashConstants DEF Entries
  <2> QED
    BY <2>1 DEF Lists, Owned, At
<1>3. \A p, q \in Lists : At(p) = At(q) => p = q
  <2> SUFFICES ASSUME NEW p \in Lists, NEW q \in Lists, At(p) = At(q) PROVE p = q
    OBVIOUS
  <2>1. CASE (\E i \in DOMAIN free : p = <<0, i>>) /\ (\E i \in DOMAIN free : q = <<0, i>>)
    BY <1>2, <2>1 DEF IInv, FreeDiffers
  <2>2. CASE (\E i \in DOMAIN free : p = <<0, i>>)
             /\ (\E e \in Entries : \E i \in DOMAIN Owned(e) : q = <<e, i>>)
    BY <1>2, <2>2 DEF IInv, FreeNotOwned
  <2>3. CASE (\E e \in Entries : \E i \in DOMAIN Owned(e) : p = <<e, i>>)
             /\ (\E i \in DOMAIN free : q = <<0, i>>)
    BY <1>2, <2>3 DEF IInv, FreeNotOwned
  <2>4. CASE (\E e \in Entries : \E i \in DOMAIN Owned(e) : p = <<e, i>>)
             /\ (\E e \in Entries : \E i \in DOMAIN Owned(e) : q = <<e, i>>)
    BY <1>2, <2>4 DEF IInv, OwnedDiffers
  <2> QED
    BY <1>1, <2>1, <2>2, <2>3, <2>4
<1>4. \A p \in Lists : At(p) \in Sectors
  BY <1>1, <1>2 DEF IInv, TypeInv
<1>5. \A s \in Sectors : \E p \in Lists : At(p) = s
  <2> SUFFICES ASSUME NEW s \in Sectors PROVE \E p \in Lists : At(p) = s
    OBVIOUS
  <2>1. CASE \E i \in DOMAIN free : free[i] = s
    <3>1. PICK i \in DOMAIN free : free[i] = s
      BY <2>1
    <3> QED
      BY <1>2, <3>1
  <2>2. CASE \E e \in Entries : \E i \in DOMAIN Owned(e) : Owned(e)[i] = s
    <3>1. PICK e \in Entries : \E i \in DOMAIN Owned(e) : Owned(e)[i] = s
      BY <2>2
    <3>2. PICK i \in DOMAIN Owned(e) : Owned(e)[i] = s
      BY <3>1
    <3> QED
      BY <1>2, <3>2
  <2> QED
    BY <2>1, <2>2 DEF IInv, NoneLost
<1> QED
  BY <1>3, <1>4, <1>5 DEF NoSharedSector

-----------------------------------------------------------------------------
(* Names *)

\* The records of the files, of the descriptors and of the headers.
FileRecord ==
  [sectors : Seq(Sectors), written : Int, max_size : Int, name : Names \cup {"none"},
   number : Int, sound : BOOLEAN, closed : BOOLEAN]
FdRecord ==
  [state : {"free", "open", "lost"}, path : Names \cup {"none"}, entry : 0 .. MaxFiles,
   fileptr : Int]
HeaderRecord == [name : Names \cup {"none"}, sized : BOOLEAN]

Records ==
  /\ spifiles \in [Entries -> FileRecord]
  /\ files \in [Fds -> FdRecord]
  /\ header \in [Sectors -> HeaderRecord]
  /\ created \in Int

\* The first header of a file has its name, or none: a word that is written past
\* the end of the sector before it may take the name away.
NamedFile(e) ==
  spifiles[e].sound =>
    Used(e) /\ header[spifiles[e].sectors[1]].name \in {spifiles[e].name, "none"}

\* An open descriptor has a file, of its name.
NamedFd(f) ==
  files[f].state = "open" =>
    /\ files[f].entry \in Entries /\ Used(files[f].entry)
    /\ spifiles[files[f].entry].sound => spifiles[files[f].entry].name = files[f].path

NameInv == Records /\ (\A e \in Entries : NamedFile(e)) /\ (\A f \in Fds : NamedFd(f))

\* A set of numbers has a least one.
LEMMA LeastNumber ==
  ASSUME NEW S \in SUBSET Nat, S # {}
  PROVE  \E m \in S : \A k \in S : m <= k
<1> DEFINE R == OpToRel(<, Nat)
<1>1. IsWellFoundedOn(R, Nat)
  BY NatLessThanWellFounded
<1>2. \A x, y \in Nat : x < y <=> <<x, y>> \in R
  BY DEF OpToRel
<1> HIDE DEF R
<1>3. PICK m \in S : \A y \in S : ~(<<y, m>> \in R)
  BY <1>1, WFMin
<1>4. ASSUME NEW k \in S PROVE m <= k
  <2>1. ~(k < m)
    BY <1>2, <1>3
  <2> QED
    BY <2>1
<1> QED
  BY <1>4

\* Least() takes an element of the set.
LEMMA LeastIsOne ==
  ASSUME NEW S \in SUBSET Nat, S # {}
  PROVE  Least(S) \in S
<1>1. \E m : m \in Minimal(S)
  BY LeastNumber DEF Minimal
<1>2. Least(S) \in Minimal(S)
  BY <1>1 DEF Least
<1> QED
  BY <1>2 DEF Minimal

\* Steps that leave files where they are, and names alone but for a word that is
\* written past the end of a sector.
LEMMA NamesStay ==
  ASSUME NameInv, Records',
         \A e \in Entries :
           /\ spifiles'[e].sectors = spifiles[e].sectors
           /\ spifiles'[e].name = spifiles[e].name
           /\ spifiles'[e].sound => spifiles[e].sound,
         \A s \in Sectors : header'[s].name \in {header[s].name, "none"},
         \A f \in Fds : files'[f].state = "open" =>
           /\ files[f].state = "open"
           /\ files'[f].path = files[f].path /\ files'[f].entry = files[f].entry
  PROVE  NameInv'
<1>1. ASSUME NEW e \in Entries PROVE NamedFile(e)'
  <2> SUFFICES ASSUME spifiles'[e].sound
               PROVE  /\ spifiles'[e].sectors # <<>>
                      /\ header'[spifiles'[e].sectors[1]].name \in {spifiles'[e].name, "none"}
    BY DEF NamedFile, Used
  <2>1. /\ spifiles[e].sectors # <<>>
        /\ header[spifiles[e].sectors[1]].name \in {spifiles[e].name, "none"}
    BY DEF NameInv, NamedFile, Used
  <2>2. spifiles[e].sectors[1] \in Sectors
    BY <2>1 DEF NameInv, Records, FileRecord
  <2> QED
    BY <2>1, <2>2
<1>2. ASSUME NEW f \in Fds PROVE NamedFd(f)'
  BY DEF NameInv, NamedFd, Used
<1> QED
  BY <1>1, <1>2 DEF NameInv

\* A descriptor that is opened takes the file of its name.
LEMMA NameOpensExisting ==
  ASSUME NameInv, NEW n \in Names, OpenExisting(n)
  PROVE  NameInv'
<1>1. PICK blind \in SUBSET Entries :
        /\ FreeFds # {} /\ Found(n, blind) # {}
        /\ files' = Opened(n, Least(Found(n, blind)))
        /\ UNCHANGED <<spifiles, header, created>>
  BY DEF OpenExisting
<1> DEFINE e == Least(Found(n, blind))
<1>2. /\ e \in Entries /\ Used(e)
      /\ header[spifiles[e].sectors[1]].name = n
  <2>1. Found(n, blind) \in SUBSET Nat
    BY DEF Found, Entries
  <2>2. e \in Found(n, blind)
    BY <1>1, <2>1, LeastIsOne
  <2> QED
    BY <2>2 DEF Found
<1>3. Slot \in Fds
  <2>1. FreeFds \in SUBSET Nat
    BY DEF FreeFds, Fds
  <2> QED
    BY <1>1, <2>1, LeastIsOne DEF Slot, FreeFds
<1> HIDE DEF e
<1>4. files' = [files EXCEPT ![Slot] = [state |-> "open", path |-> n, entry |-> e,
                                         fileptr |-> 0]]
  BY <1>1 DEF Opened, e
<1>5. files \in [Fds -> FdRecord]
  BY DEF NameInv, Records
<1>6. /\ files'[Slot] = [state |-> "open", path |-> n, entry |-> e, fileptr |-> 0]
      /\ \A f \in Fds : f # Slot => files'[f] = files[f]
  BY <1>3, <1>4, <1>5
<1>7. Records'
  <2>1. e \in 0 .. MaxFiles
    BY <1>2 DEF Entries
  <2>2. files'[Slot] \in FdRecord
    BY <1>6, <2>1 DEF FdRecord
  <2>3. files' \in [Fds -> FdRecord]
    BY <1>3, <1>4, <1>5, <1>6, <2>2
  <2> QED
    BY <1>1, <2>3 DEF NameInv, Records
<1>8. ASSUME NEW d \in Entries PROVE NamedFile(d)'
  BY <1>1 DEF NameInv, NamedFile, Used
<1>9. ASSUME NEW f \in Fds PROVE NamedFd(f)'
  <2>1. CASE f = Slot
    <3>1. spifiles[e].sound => spifiles[e].name = n
      BY <1>2, FlashConstants DEF NameInv, NamedFile
    <3> QED
      BY <1>1, <1>2, <1>6, <2>1, <3>1 DEF NamedFd, Used
  <2>2. CASE f # Slot
    BY <1>1, <1>6, <2>2 DEF NameInv, NamedFd, Used
  <2> QED
    BY <2>1, <2>2
<1> QED
  BY <1>7, <1>8, <1>9 DEF NameInv

\* A new file has at least one sector, and takes only sectors that were free.
LEMMA NameOpensNew ==
  ASSUME IInv, IInv', NameInv, NEW n \in Names, NEW m \in MaxSizes, OpenNew(n, m)
  PROVE  NameInv'
<1> DEFINE num     == Wanted(m)
           sectors == Taken(num)
<1>1. PICK e \in Minimal(FreeEntries), k \in 0 .. num, erased \in 0 .. 1 :
        /\ k + erased <= num
        /\ Allocated(sectors, k, erased, n)
        /\ spifiles' = [spifiles EXCEPT ![e] =
             [sectors |-> sectors, written |-> 0, max_size |-> m, name |-> n,
              number |-> created + 1, sound |-> k = num, closed |-> FALSE]]
        /\ files' = Opened(n, e)
  BY DEF OpenNew
<1>2. /\ FreeFds # {} /\ num <= Len(free) /\ created' = created + 1
  BY DEF OpenNew
<1>3. e \in Entries /\ ~Used(e)
  BY DEF Minimal, FreeEntries
<1>4. Slot \in Fds
  <2>1. FreeFds \in SUBSET Nat
    BY DEF FreeFds, Fds
  <2> QED
    BY <1>2, <2>1, LeastIsOne DEF Slot, FreeFds
<1>5. m \in Nat \ {0} /\ DataSize \in Nat \ {0}
  BY FlashConstants
<1>6. num \in Nat /\ num > 0
  <2>1. num \in Nat
    BY <1>5, WantedNat
  <2>2. m + DataSize - 1 >= DataSize /\ m + DataSize - 1 \in Nat
    BY <1>5
  <2>3. \A a, d \in Nat : d > 0 /\ a >= d => a \div d > 0
    BY SMTT(30)
  <2> QED
    BY <1>5, <2>1, <2>2, <2>3 DEF Wanted, UpDiv
<1>7. free \in Seq(Sectors) /\ Len(free) \in Nat
  BY DEF IInv, TypeInv
<1> HIDE DEF num
<1>8. /\ sectors \in Seq(Sectors) /\ Len(sectors) = num
      /\ \A i \in 1 .. num : sectors[i] = free[num - i + 1] /\ num - i + 1 \in DOMAIN free
  <2> DEFINE s == SubSeq(free, 1, num)
  <2>1. s \in Seq(Sectors) /\ Len(s) = num /\ \A i \in 1 .. num : s[i] = free[i]
    BY <1>2, <1>6, <1>7
  <2>2. sectors = Reverse(s)
    BY DEF Taken
  <2> HIDE DEF s
  <2>3. /\ Reverse(s) \in Seq(Sectors) /\ Len(Reverse(s)) = num
        /\ \A i \in 1 .. num : Reverse(s)[i] = s[num - i + 1]
    BY <2>1, Reversed
  <2>4. \A i \in 1 .. num : num - i + 1 \in 1 .. num /\ num - i + 1 \in DOMAIN free
    BY <1>2, <1>6, <1>7
  <2> QED
    BY <2>1, <2>2, <2>3, <2>4
<1> HIDE DEF sectors
<1>9. sectors # <<>> /\ sectors[1] \in Sectors
  BY <1>6, <1>8
<1>10. /\ spifiles \in [Entries -> FileRecord] /\ files \in [Fds -> FdRecord]
       /\ header \in [Sectors -> HeaderRecord] /\ created \in Int
  BY DEF NameInv, Records
<1>11. /\ spifiles'[e] =
            [sectors |-> sectors, written |-> 0, max_size |-> m, name |-> n,
             number |-> created + 1, sound |-> k = num, closed |-> FALSE]
       /\ \A d \in Entries : d # e => spifiles'[d] = spifiles[d]
  BY <1>1, <1>3, <1>10
<1>12. /\ files'[Slot] = [state |-> "open", path |-> n, entry |-> e, fileptr |-> 0]
       /\ \A f \in Fds : f # Slot => files'[f] = files[f]
  BY <1>1, <1>4, <1>10 DEF Opened
<1> DEFINE gone == {sectors[i] : i \in 1 .. k}
           all  == gone \cup {sectors[i] : i \in k + 1 .. k + erased}
<1>13. header' = [s \in Sectors |-> IF s \in gone THEN NamedHeader(s, n)
                                   ELSE IF s \in all THEN ErasedHeader ELSE header[s]]
  BY <1>1 DEF Allocated
<1>14. \A s \in all : \E i \in 1 .. num : s = sectors[i]
  BY <1>1, <1>6
<1>15. k = num => sectors[1] \in gone
  BY <1>6
<1> HIDE DEF gone, all
<1>16. Records'
  <2>1. spifiles'[e] \in FileRecord
    <3>1. (k = num) \in BOOLEAN
      OBVIOUS
    <3> QED
      BY <1>5, <1>8, <1>10, <1>11, <3>1 DEF FileRecord
  <2>2. spifiles' \in [Entries -> FileRecord]
    BY <1>1, <1>3, <1>10, <1>11, <2>1
  <2>3. files'[Slot] \in FdRecord
    <3>1. e \in 0 .. MaxFiles
      BY <1>3 DEF Entries
    <3> QED
      BY <1>12, <3>1 DEF FdRecord
  <2>4. files' \in [Fds -> FdRecord]
    BY <1>1, <1>4, <1>10, <1>12, <2>3 DEF Opened
  <2>5. NamedHeader(0, n) \in HeaderRecord /\ ErasedHeader \in HeaderRecord
        /\ \A s : NamedHeader(s, n) = NamedHeader(0, n)
    BY DEF NamedHeader, ErasedHeader, HeaderRecord
  <2>6. header' \in [Sectors -> HeaderRecord]
    BY <1>10, <1>13, <2>5
  <2> QED
    BY <1>2, <1>10, <2>2, <2>4, <2>6 DEF Records
<1>17. ASSUME NEW d \in Entries PROVE NamedFile(d)'
  <2>1. CASE d = e
    <3>1. k = num => header'[sectors[1]].name = n
      BY <1>9, <1>13, <1>15 DEF NamedHeader
    <3>2. spifiles'[e].sectors = sectors /\ spifiles'[e].name = n
      BY <1>11
    <3>3. spifiles'[e].sound = (k = num)
      <4> DEFINE whole == k = num
      <4>1. spifiles'[e] =
              [sectors |-> sectors, written |-> 0, max_size |-> m, name |-> n,
               number |-> created + 1, sound |-> whole, closed |-> FALSE]
        BY <1>11
      <4> HIDE DEF whole
      <4>2. spifiles'[e].sound = whole
        BY <4>1
      <4> QED
        BY <4>2 DEF whole
    <3> QED
      BY <1>9, <2>1, <3>1, <3>2, <3>3 DEF NamedFile, Used
  <2>2. CASE d # e
    <3> SUFFICES ASSUME spifiles[d].sound
                 PROVE  /\ spifiles[d].sectors # <<>>
                        /\ header'[spifiles[d].sectors[1]].name
                             \in {spifiles[d].name, "none"}
      BY <1>11, <2>2 DEF NamedFile, Used
    <3>1. /\ spifiles[d].sectors # <<>>
          /\ header[spifiles[d].sectors[1]].name \in {spifiles[d].name, "none"}
      BY DEF NameInv, NamedFile, Used
    <3>2. /\ spifiles[d].sectors[1] \in Sectors
          /\ 1 \in DOMAIN Owned(d) /\ Owned(d)[1] = spifiles[d].sectors[1]
      BY <1>10, <3>1 DEF FileRecord, Owned
    <3>3. spifiles[d].sectors[1] \notin all
      BY <1>8, <1>14, <3>2 DEF IInv, FreeNotOwned
    <3>4. spifiles[d].sectors[1] \notin gone
      BY <3>3 DEF all
    <3> QED
      BY <1>13, <3>1, <3>2, <3>3, <3>4
  <2> QED
    BY <2>1, <2>2
<1>18. ASSUME NEW f \in Fds PROVE NamedFd(f)'
  <2>1. CASE f = Slot
    BY <1>3, <1>9, <1>11, <1>12, <2>1 DEF NamedFd, Used
  <2>2. CASE f # Slot
    <3> SUFFICES ASSUME files[f].state = "open"
                 PROVE  /\ files[f].entry \in Entries /\ spifiles'[files[f].entry].sectors # <<>>
                        /\ spifiles'[files[f].entry].sound =>
                             spifiles'[files[f].entry].name = files[f].path
      BY <1>12, <2>2 DEF NamedFd, Used
    <3>1. /\ files[f].entry \in Entries /\ Used(files[f].entry)
          /\ spifiles[files[f].entry].sound =>
               spifiles[files[f].entry].name = files[f].path
      BY DEF NameInv, NamedFd
    <3>2. files[f].entry # e
      BY <1>3, <3>1
    <3> QED
      BY <1>11, <3>1, <3>2 DEF Used
  <2> QED
    BY <2>1, <2>2
<1> QED
  BY <1>16, <1>17, <1>18 DEF NameInv

\* A file is removed when no descriptor has it open.
LEMMA NameRemoves ==
  ASSUME IInv, NameInv, NEW n \in Names, NEW e \in Entries,
         ClosedByCaller(e), RemoveFile(n, e)
  PROVE  NameInv'
<1>1. /\ \A f \in Fds : files[f].state = "open" => files[f].entry # e
      /\ \E k \in 0 .. Len(spifiles[e].sectors) :
             header' = [s \in Sectors |-> IF s \in {spifiles[e].sectors[i] : i \in 1 .. k}
                                          THEN ZeroHeader ELSE header[s]]
      /\ spifiles' = [spifiles EXCEPT ![e] = NoFile]
      /\ UNCHANGED <<files, created>>
  BY DEF RemoveFile, ClosedByCaller
<1>2. PICK k \in 0 .. Len(spifiles[e].sectors) :
        header' = [s \in Sectors |-> IF s \in {spifiles[e].sectors[i] : i \in 1 .. k}
                                     THEN ZeroHeader ELSE header[s]]
  BY <1>1
<1>3. e \in Entries
  OBVIOUS
<1>4. /\ spifiles \in [Entries -> FileRecord] /\ header \in [Sectors -> HeaderRecord]
      /\ NoFile \in FileRecord /\ ZeroHeader \in HeaderRecord
  <2>1. <<>> \in Seq(Sectors)
    OBVIOUS
  <2> QED
    BY <2>1 DEF NameInv, Records, NoFile, FileRecord, ZeroHeader, HeaderRecord
<1>5. /\ spifiles'[e] = NoFile
      /\ \A d \in Entries : d # e => spifiles'[d] = spifiles[d]
  BY <1>1, <1>3, <1>4
<1>6. Records'
  <2>1. spifiles' \in [Entries -> FileRecord]
    BY <1>1, <1>3, <1>4, <1>5
  <2>2. header' \in [Sectors -> HeaderRecord]
    BY <1>2, <1>4
  <2> QED
    BY <1>1, <2>1, <2>2 DEF NameInv, Records
<1>7. ASSUME NEW d \in Entries PROVE NamedFile(d)'
  <2>1. CASE d = e
    BY <1>5, <2>1 DEF NamedFile, NoFile
  <2>2. CASE d # e
    <3> SUFFICES ASSUME spifiles[d].sound
                 PROVE  /\ spifiles[d].sectors # <<>>
                        /\ header'[spifiles[d].sectors[1]].name
                             \in {spifiles[d].name, "none"}
      BY <1>5, <2>2 DEF NamedFile, Used
    <3>1. /\ spifiles[d].sectors # <<>>
          /\ header[spifiles[d].sectors[1]].name \in {spifiles[d].name, "none"}
      BY DEF NameInv, NamedFile, Used
    <3>2. /\ spifiles[d].sectors[1] \in Sectors
          /\ 1 \in DOMAIN Owned(d) /\ Owned(d)[1] = spifiles[d].sectors[1]
      BY <1>4, <3>1 DEF FileRecord, Owned
    <3>3. spifiles[e].sectors \in Seq(Sectors) /\ Owned(e) = spifiles[e].sectors
      BY <1>3, <1>4 DEF FileRecord, Owned
    <3>4. \A i \in 1 .. k : i \in DOMAIN Owned(e)
      BY <1>2, <3>3
    <3>5. spifiles[d].sectors[1] \notin {spifiles[e].sectors[i] : i \in 1 .. k}
      BY <1>3, <2>2, <3>2, <3>3, <3>4 DEF IInv, OwnedDiffers
    <3> QED
      BY <1>2, <3>1, <3>2, <3>5
  <2> QED
    BY <2>1, <2>2
<1>8. ASSUME NEW f \in Fds PROVE NamedFd(f)'
  BY <1>1, <1>5 DEF NameInv, NamedFd, Used
<1> QED
  BY <1>6, <1>7, <1>8 DEF NameInv

\* After a reset no file and no descriptor is known.
LEMMA NameRestarts ==
  ASSUME NameInv, Restarted, header' \in [Sectors -> HeaderRecord]
  PROVE  NameInv'
<1>1. <<>> \in Seq(Sectors)
  OBVIOUS
<1>2. 0 \in 0 .. MaxFiles
  BY FlashConstants
<1>3. NoFile \in FileRecord /\ FreeFd \in FdRecord
  BY <1>1, <1>2 DEF NoFile, FileRecord, FreeFd, FdRecord
<1>4. Records'
  BY <1>3 DEF Restarted, Records, NameInv
<1>5. (\A e \in Entries : NamedFile(e)') /\ (\A f \in Fds : NamedFd(f)')
  BY DEF Restarted, NoFile, FreeFd, NamedFile, NamedFd
<1> QED
  BY <1>4, <1>5 DEF NameInv

\* What a write leaves in the record of the file.
LEMMA LengthSet ==
  ASSUME NEW h \in FileRecord, NEW n \in Int
  PROVE  LET r == [h EXCEPT !.written = n, !.closed = FALSE]
         IN  /\ r \in FileRecord /\ r.sectors = h.sectors /\ r.name = h.name
             /\ r.sound = h.sound
BY DEF FileRecord

LEMMA SoundnessSet ==
  ASSUME NEW h \in FileRecord, NEW b \in BOOLEAN
  PROVE  LET r == [h EXCEPT !.sound = @ /\ b]
         IN  /\ r \in FileRecord /\ r.sectors = h.sectors /\ r.name = h.name
             /\ r.sound => h.sound
BY DEF FileRecord

LEMMA WrittenFile ==
  ASSUME NEW h \in FileRecord, NEW n \in Int, NEW b \in BOOLEAN
  PROVE  LET r == [h EXCEPT !.written = n, !.closed = FALSE, !.sound = @ /\ b]
         IN  /\ r \in FileRecord /\ r.sectors = h.sectors /\ r.name = h.name
             /\ r.sound => h.sound
<1> DEFINE g == [h EXCEPT !.written = n, !.closed = FALSE]
           r == [g EXCEPT !.sound = @ /\ b]
           q == [h EXCEPT !.written = n, !.closed = FALSE, !.sound = @ /\ b]
<1>1. g \in FileRecord /\ g.sectors = h.sectors /\ g.name = h.name /\ g.sound = h.sound
  BY LengthSet
<1>2. q = r
  OBVIOUS
<1> HIDE DEF g, q
<1>3. /\ r \in FileRecord /\ r.sectors = g.sectors /\ r.name = g.name
      /\ r.sound => g.sound
  BY <1>1, SoundnessSet
<1> HIDE DEF r
<1>4. /\ q \in FileRecord /\ q.sectors = h.sectors /\ q.name = h.name
      /\ q.sound => h.sound
  BY <1>1, <1>2, <1>3
<1> QED
  BY <1>4 DEF q

\* What a write leaves in the headers.
LEMMA StoredHeaders ==
  ASSUME NameInv, NEW file, NEW ptr, NEW sz, NEW align, NEW c, NEW j,
         Stored(file, ptr, sz, align, c, j)
  PROVE  /\ header' \in [Sectors -> HeaderRecord]
         /\ \A s \in Sectors : header'[s].name \in {header[s].name, "none"}
<1>1. \E over : header' = [s \in Sectors |-> IF s \in over
                                             THEN [header[s] EXCEPT !.name = "none"]
                                             ELSE header[s]]
  BY DEF Stored
<1>2. \A s \in Sectors : header[s] \in HeaderRecord
  BY DEF NameInv, Records
<1>3. \A h \in HeaderRecord : [h EXCEPT !.name = "none"] \in HeaderRecord
                              /\ [h EXCEPT !.name = "none"].name = "none"
  BY DEF HeaderRecord
<1> QED
  BY <1>1, <1>2, <1>3

\* Every step keeps the names.
LEMMA NameStep ==
  ASSUME IInv, IInv', NameInv, [Next]_vars
  PROVE  NameInv'
<1>0. /\ spifiles \in [Entries -> FileRecord] /\ files \in [Fds -> FdRecord]
      /\ header \in [Sectors -> HeaderRecord] /\ created \in Int
  BY DEF NameInv, Records
<1>1. CASE UNCHANGED vars
  <2>1. Records'
    BY <1>0, <1>1 DEF vars, Records
  <2> QED
    BY <1>1, <2>1, NamesStay DEF vars
<1>2. ASSUME NEW n \in Names, OpenExisting(n) PROVE NameInv'
  BY <1>2, NameOpensExisting
<1>3. ASSUME NEW n \in Names, NEW m \in MaxSizes, OpenNew(n, m) PROVE NameInv'
  BY <1>3, NameOpensNew
<1>4. ASSUME NEW n \in Names, NEW e \in Entries, ClosedByCaller(e), RemoveFile(n, e)
      PROVE  NameInv'
  BY <1>4, NameRemoves
<1>5. ASSUME NEW f \in Fds, Close(f) \/ CloseFails(f) PROVE NameInv'
  <2>1. \A file, k : Sized(file, k) \in [Sectors -> HeaderRecord]
                     /\ \A s \in Sectors : Sized(file, k)[s].name = header[s].name
    <3>1. \A h \in HeaderRecord : [h EXCEPT !.sized = TRUE] \in HeaderRecord
                                  /\ [h EXCEPT !.sized = TRUE].name = h.name
      BY DEF HeaderRecord
    <3> QED
      BY <1>0, <3>1 DEF Sized
  <2>2. files[f].state = "open" /\ files[f].entry \in Entries
    BY <1>5 DEF Close, CloseFails, NameInv, NamedFd
  <2>3. CASE Close(f)
    <3>1. /\ header' = Sized(spifiles[files[f].entry], SizedSectors(spifiles[files[f].entry]))
          /\ spifiles' = [spifiles EXCEPT ![files[f].entry].closed = TRUE]
          /\ files' = [files EXCEPT ![f] = FreeFd] /\ created' = created
      BY <2>3 DEF Close
    <3>2. \A h \in FileRecord : [h EXCEPT !.closed = TRUE] \in FileRecord
      BY DEF FileRecord
    <3>3. /\ spifiles' \in [Entries -> FileRecord]
          /\ \A e \in Entries :
               /\ spifiles'[e].sectors = spifiles[e].sectors
               /\ spifiles'[e].name = spifiles[e].name
               /\ spifiles'[e].sound = spifiles[e].sound
      BY <1>0, <3>1, <3>2, <2>2
    <3>4. FreeFd \in FdRecord /\ FreeFd.state = "free"
      BY FlashConstants DEF FreeFd, FdRecord
    <3>5. Records'
      BY <1>0, <2>1, <3>1, <3>3, <3>4 DEF Records
    <3>6. \A g \in Fds : files'[g].state = "open" =>
             /\ files[g].state = "open"
             /\ files'[g].path = files[g].path /\ files'[g].entry = files[g].entry
      BY <1>0, <3>1, <3>4
    <3> QED
      BY <2>1, <3>1, <3>3, <3>5, <3>6, NamesStay
  <2>4. CASE CloseFails(f)
    <3>1. /\ \E file, k : header' = Sized(file, k)
          /\ spifiles' = spifiles
          /\ files' = [files EXCEPT ![f].state = "lost"] /\ created' = created
      BY <2>4 DEF CloseFails
    <3>2. \A h \in FdRecord : [h EXCEPT !.state = "lost"] \in FdRecord
                              /\ [h EXCEPT !.state = "lost"].state = "lost"
      BY DEF FdRecord
    <3>3. Records'
      BY <1>0, <2>1, <3>1, <3>2 DEF Records
    <3>4. \A g \in Fds : files'[g].state = "open" =>
             /\ files[g].state = "open"
             /\ files'[g].path = files[g].path /\ files'[g].entry = files[g].entry
      BY <1>0, <3>1, <3>2
    <3> QED
      BY <2>1, <3>1, <3>3, <3>4, NamesStay
  <2> QED
    BY <1>5, <2>3, <2>4
<1>6. ASSUME NEW f \in Fds, NEW sz \in Sizes, NEW align \in Aligns,
             \/ Write(f, sz, align) \/ WriteFails(f, sz, align)
             \/ WriteFaults(f, sz, align) \/ Read(f, sz, align)
      PROVE  NameInv'
  <2> DEFINE e == files[f].entry
  <2>1. files[f].state = "open" /\ e \in Entries /\ sz \in Int
    <3>1. files[f].state = "open"
      BY <1>6 DEF Write, WriteFails, WriteFaults, Read, Accepted, ReadSucceeds
    <3>2. sz \in Int
      BY FlashConstants
    <3> QED
      BY <3>1, <3>2 DEF NameInv, NamedFd
  <2>2. ASSUME NEW done \in Int, files' = Advanced(f, done)
        PROVE  /\ files' \in [Fds -> FdRecord]
               /\ \A g \in Fds : /\ files'[g].state = files[g].state
                                 /\ files'[g].path = files[g].path
                                 /\ files'[g].entry = files[g].entry
    <3>1. \A h \in FdRecord : LET r == [h EXCEPT !.fileptr = @ + done]
                              IN  /\ r \in FdRecord /\ r.state = h.state
                                  /\ r.path = h.path /\ r.entry = h.entry
      BY DEF FdRecord
    <3> QED
      BY <1>0, <2>2, <3>1 DEF Advanced
  <2>3. CASE Write(f, sz, align)
    <3>1. /\ Stored(spifiles[e], files[f].fileptr, sz, align,
                    Len(Segments(files[f].fileptr, sz)) + 1, 0)
          /\ spifiles' = [spifiles EXCEPT ![e].written = @ + sz, ![e].closed = FALSE,
                                          ![e].sound = @ /\ ~Misplaced(f, sz, align)]
          /\ files' = Advanced(f, sz) /\ created' = created
      BY <2>3 DEF Write
    <3>2. \A h \in FileRecord, b \in BOOLEAN :
            LET r == [h EXCEPT !.written = @ + sz, !.closed = FALSE, !.sound = @ /\ b]
            IN  /\ r \in FileRecord /\ r.sectors = h.sectors /\ r.name = h.name
                /\ r.sound => h.sound
      <4>1. \A h \in FileRecord : h.written + sz \in Int
        BY <2>1 DEF FileRecord
      <4> QED
        BY <4>1, WrittenFile
    <3>3. /\ spifiles' \in [Entries -> FileRecord]
          /\ \A d \in Entries :
               /\ spifiles'[d].sectors = spifiles[d].sectors
               /\ spifiles'[d].name = spifiles[d].name
               /\ spifiles'[d].sound => spifiles[d].sound
      <4>1. spifiles' = [spifiles EXCEPT ![e] =
              [spifiles[e] EXCEPT !.written = @ + sz, !.closed = FALSE,
                                  !.sound = @ /\ ~Misplaced(f, sz, align)]]
        BY <1>0, <2>1, <3>1
      <4>2. spifiles[e] \in FileRecord /\ (~Misplaced(f, sz, align)) \in BOOLEAN
        BY <1>0, <2>1
      <4>3. /\ spifiles'[e] \in FileRecord /\ spifiles'[e].sectors = spifiles[e].sectors
            /\ spifiles'[e].name = spifiles[e].name
            /\ spifiles'[e].sound => spifiles[e].sound
        BY <1>0, <2>1, <3>2, <4>1, <4>2
      <4> QED
        BY <1>0, <2>1, <4>1, <4>3
    <3>4. /\ header' \in [Sectors -> HeaderRecord]
          /\ \A s \in Sectors : header'[s].name \in {header[s].name, "none"}
      BY <3>1, StoredHeaders
    <3>5. Records'
      BY <1>0, <2>1, <2>2, <3>1, <3>3, <3>4 DEF Records
    <3> QED
      BY <2>1, <2>2, <3>1, <3>3, <3>4, <3>5, NamesStay
  <2>4. CASE WriteFails(f, sz, align)
    <3>1. /\ \E ptr, c, j : Stored(spifiles[e], ptr, sz, align, c, j)
          /\ spifiles' = [spifiles EXCEPT ![e].sound = @ /\ ~Misplaced(f, sz, align)]
          /\ files' = files /\ created' = created
      BY <2>4 DEF WriteFails
    <3>2. \A h \in FileRecord, b \in BOOLEAN :
            LET r == [h EXCEPT !.sound = @ /\ b]
            IN  /\ r \in FileRecord /\ r.sectors = h.sectors /\ r.name = h.name
                /\ r.sound = (h.sound /\ b)
      BY DEF FileRecord
    <3>3. /\ spifiles' \in [Entries -> FileRecord]
          /\ \A d \in Entries :
               /\ spifiles'[d].sectors = spifiles[d].sectors
               /\ spifiles'[d].name = spifiles[d].name
               /\ spifiles'[d].sound => spifiles[d].sound
      <4>1. spifiles' = [spifiles EXCEPT ![e] =
              [spifiles[e] EXCEPT !.sound = @ /\ ~Misplaced(f, sz, align)]]
        BY <1>0, <2>1, <3>1
      <4>2. spifiles[e] \in FileRecord /\ (~Misplaced(f, sz, align)) \in BOOLEAN
        BY <1>0, <2>1
      <4>3. /\ spifiles'[e] \in FileRecord /\ spifiles'[e].sectors = spifiles[e].sectors
            /\ spifiles'[e].name = spifiles[e].name
            /\ spifiles'[e].sound => spifiles[e].sound
        BY <1>0, <2>1, <3>2, <4>1, <4>2
      <4> QED
        BY <1>0, <2>1, <4>1, <4>3
    <3>4. /\ header' \in [Sectors -> HeaderRecord]
          /\ \A s \in Sectors : header'[s].name \in {header[s].name, "none"}
      BY <3>1, StoredHeaders
    <3>5. Records'
      BY <1>0, <3>1, <3>3, <3>4 DEF Records
    <3> QED
      BY <3>1, <3>3, <3>4, <3>5, NamesStay
  <2>5. CASE WriteFaults(f, sz, align)
    <3>1. Restarted /\ \E ptr, c, j : Stored(spifiles[e], ptr, sz, align, c, j)
      BY <2>5 DEF WriteFaults
    <3> QED
      BY <3>1, StoredHeaders, NameRestarts
  <2>6. CASE Read(f, sz, align)
    <3>1. /\ files' = Advanced(f, Readable(f, sz))
          /\ UNCHANGED <<spifiles, header, created>>
      BY <2>6 DEF Read
    <3>2. Readable(f, sz) \in Int
      <4>1. spifiles[e].written \in Int /\ files[f].fileptr \in Int
        BY <1>0, <2>1 DEF FileRecord, FdRecord
      <4> QED
        BY <2>1, <4>1 DEF Readable, Min2
    <3>3. Records'
      BY <1>0, <2>2, <3>1, <3>2 DEF Records
    <3> QED
      BY <2>2, <3>1, <3>2, <3>3, NamesStay
  <2> QED
    BY <1>6, <2>3, <2>4, <2>5, <2>6
<1>7. CASE Restart
  BY <1>0, <1>7, NameRestarts DEF Restart
<1> QED
  BY <1>1, <1>2, <1>3, <1>4, <1>5, <1>6, <1>7 DEF Next

\* Nothing is open at first.
LEMMA NameInit == Init => NameInv
<1> SUFFICES ASSUME Init PROVE NameInv
  OBVIOUS
<1>1. <<>> \in Seq(Sectors) /\ 0 \in 0 .. MaxFiles
  BY FlashConstants
<1>2. NoFile \in FileRecord /\ FreeFd \in FdRecord /\ ZeroHeader \in HeaderRecord
  BY <1>1 DEF NoFile, FileRecord, FreeFd, FdRecord, ZeroHeader, HeaderRecord
<1>3. Records
  BY <1>2 DEF Init, Records
<1>4. (\A e \in Entries : NamedFile(e)) /\ (\A f \in Fds : NamedFd(f))
  BY DEF Init, NoFile, FreeFd, NamedFile, NamedFd
<1> QED
  BY <1>3, <1>4 DEF NameInv

-----------------------------------------------------------------------------
(* The calls of the flash *)

\* The contents of a sector after each of the calls.
Stages(d, calls, f) ==
  f = [i \in 0 .. Len(calls) |-> IF i = 0 THEN d ELSE Store(f[i - 1], calls[i])]

\* There are such: from those of all calls but the last.
LEMMA StagesExist ==
  ASSUME NEW d, NEW calls, Len(calls) \in Nat
  PROVE  \E f : Stages(d, calls, f)
<1> DEFINE Up(n, f) ==
             f = [i \in 0 .. n |-> IF i = 0 THEN d ELSE Store(f[i - 1], calls[i])]
           S == {n \in Nat : ~\E f : Up(n, f)}
<1>1. SUFFICES S = {}
  BY DEF Stages
<1>2. SUFFICES ASSUME NEW m \in S, \A k \in S : m <= k PROVE FALSE
  BY LeastNumber
<1>3. CASE m = 0
  <2> DEFINE g == [i \in 0 .. 0 |-> d]
  <2>1. Up(0, g)
    OBVIOUS
  <2> QED
    BY <1>3, <2>1
<1>4. CASE m # 0
  <2>1. m - 1 \in Nat /\ m - 1 \notin S
    <3> m \in Nat
      OBVIOUS
    <3> HIDE DEF S
    <3> QED
      BY <1>2, <1>4
  <2>2. PICK f : Up(m - 1, f)
    BY <2>1
  <2> DEFINE g == [i \in 0 .. m |-> IF i = m THEN Store(f[m - 1], calls[m]) ELSE f[i]]
  <2>3. \A i \in 0 .. m - 1 :
          f[i] = IF i = 0 THEN d ELSE Store(f[i - 1], calls[i])
    BY <2>2
  <2>4. \A i \in 0 .. m : g[i] = IF i = 0 THEN d ELSE Store(g[i - 1], calls[i])
    <3> SUFFICES ASSUME NEW i \in 0 .. m
                 PROVE  g[i] = IF i = 0 THEN d ELSE Store(g[i - 1], calls[i])
      OBVIOUS
    <3>1. CASE i = m
      <4>1. g[m - 1] = f[m - 1] /\ g[m] = Store(f[m - 1], calls[m])
        BY <1>4, <2>1
      <4> HIDE DEF g
      <4> QED
        BY <1>4, <3>1, <4>1
    <3>2. CASE i # m /\ i # 0
      <4>1. i \in 0 .. m - 1 /\ i - 1 \in 0 .. m /\ i - 1 # m
        BY <2>1, <3>2
      <4>2. g[i] = f[i] /\ g[i - 1] = f[i - 1]
        BY <3>2, <4>1
      <4> HIDE DEF g
      <4> QED
        BY <2>3, <3>2, <4>1, <4>2
    <3>3. CASE i # m /\ i = 0
      <4>1. g[i] = f[0] /\ f[0] = d
        BY <2>1, <2>3, <3>3
      <4> HIDE DEF g
      <4> QED
        BY <3>3, <4>1
    <3> QED
      BY <3>1, <3>2, <3>3
  <2>5. g = [i \in 0 .. m |-> IF i = 0 THEN d ELSE Store(g[i - 1], calls[i])]
    <3>1. \A i \in 0 .. m : g[i] = [i_1 \in 0 .. m |-> IF i_1 = 0 THEN d ELSE Store(g[i_1 - 1], calls[i_1])][i]
      BY <2>4
    <3> QED
      BY <3>1
  <2> HIDE DEF g
  <2>6. Up(m, g)
    BY <2>5
  <2> QED
    BY <2>6
<1> QED
  BY <1>3, <1>4

\* After() gives the last of them.
LEMMA AfterStages ==
  ASSUME NEW d, NEW calls, Len(calls) \in Nat
  PROVE  \E f : /\ After(d, calls) = f[Len(calls)] /\ f[0] = d
                /\ \A i \in 1 .. Len(calls) : f[i] = Store(f[i - 1], calls[i])
<1> DEFINE g == CHOOSE f : Stages(d, calls, f)
<1>1. Stages(d, calls, g)
  BY StagesExist
<1>2. After(d, calls) = g[Len(calls)]
  BY DEF After, Stages
<1> HIDE DEF g
<1>3. g[0] = d /\ \A i \in 1 .. Len(calls) : g[i] = Store(g[i - 1], calls[i])
  BY <1>1 DEF Stages
<1> QED
  BY <1>2, <1>3

\* A call for address a, and one that stores there what is wanted.
Covers(call, a) == a \in call.at .. call.at + Len(call.bytes) - 1
Right(call, want) ==
  \A a \in call.at .. call.at + Len(call.bytes) - 1 : call.bytes[a - call.at + 1] = want[a]

\* Calls that want the same at an address leave it there, if it was erased or
\* there before; the other addresses stay.
LEMMA AfterCalls ==
  ASSUME NEW d, NEW calls, Len(calls) \in Nat, NEW want, NEW a \in DOMAIN d
  PROVE  /\ DOMAIN After(d, calls) = DOMAIN d
         /\ (\A i \in 1 .. Len(calls) : Right(calls[i], want)) =>
              IF \E i \in 1 .. Len(calls) : Covers(calls[i], a)
              THEN d[a] \in {Erased, want[a]} => After(d, calls)[a] = want[a]
              ELSE After(d, calls)[a] = d[a]
<1>1. PICK f : /\ After(d, calls) = f[Len(calls)] /\ f[0] = d
               /\ \A i \in 1 .. Len(calls) : f[i] = Store(f[i - 1], calls[i])
  BY AfterStages
<1> DEFINE Good(n) ==
             /\ DOMAIN f[n] = DOMAIN d
             /\ (\A i \in 1 .. Len(calls) : Right(calls[i], want)) =>
                  IF \E i \in 1 .. n : Covers(calls[i], a)
                  THEN d[a] \in {Erased, want[a]} => f[n][a] = want[a]
                  ELSE f[n][a] = d[a]
           S == {n \in 0 .. Len(calls) : ~Good(n)}
<1>2. SUFFICES S = {}
  BY <1>1
<1>3. S \in SUBSET Nat
  OBVIOUS
<1>4. SUFFICES ASSUME NEW m \in S, \A k \in S : m <= k PROVE FALSE
  BY <1>3, LeastNumber
<1>5. m \in 0 .. Len(calls) /\ ~Good(m)
  OBVIOUS
<1>6. m # 0
  <2>1. Good(0)
    BY <1>1
  <2> QED
    BY <1>5, <2>1
<1>7. m - 1 \in 0 .. Len(calls) /\ m \in 1 .. Len(calls)
  BY <1>5, <1>6
<1>8. Good(m - 1)
  <2>1. ~(m <= m - 1)
    BY <1>5
  <2>2. m - 1 \notin S
    BY <1>4, <2>1
  <2> QED
    BY <1>7, <2>2
<1>9. f[m] = Store(f[m - 1], calls[m])
  BY <1>1, <1>7
<1>10. DOMAIN f[m] = DOMAIN d
  BY <1>8, <1>9 DEF Store
<1>11. ASSUME \A i \in 1 .. Len(calls) : Right(calls[i], want)
       PROVE  f[m][a] = IF Covers(calls[m], a) THEN Programmed(f[m - 1][a], want[a])
                                              ELSE f[m - 1][a]
  <2>1. Covers(calls[m], a) => calls[m].bytes[a - calls[m].at + 1] = want[a]
    BY <1>7, <1>11 DEF Covers, Right
  <2> QED
    BY <1>8, <1>9, <2>1 DEF Store, Covers
<1>12. (\E i \in 1 .. m : Covers(calls[i], a))
         <=> (\E i \in 1 .. m - 1 : Covers(calls[i], a)) \/ Covers(calls[m], a)
  <2>1. \A i \in 1 .. m : i \in 1 .. m - 1 \/ i = m
    BY <1>7
  <2>2. (\A i \in 1 .. m - 1 : i \in 1 .. m) /\ m \in 1 .. m
    BY <1>7
  <2> QED
    BY <2>1, <2>2
<1>13. \A x : Programmed(Erased, x) = x /\ Programmed(x, x) = x
  BY DEF Programmed
<1>14. Good(m)
  BY <1>8, <1>10, <1>11, <1>12, <1>13
<1> QED
  BY <1>5, <1>14

\* Division gives the quotient and the remainder there are.
LEMMA Division ==
  ASSUME NEW n \in Nat \ {0}, NEW q \in Nat, NEW r \in 0 .. n - 1
  PROVE  (n * q + r) \div n = q /\ (n * q + r) % n = r
<1> DEFINE x == n * q + r
           d == x \div n
<1>1. x \in Nat
  OBVIOUS
<1> HIDE DEF x
<1>2. x = n * d + (x % n) /\ x % n \in 0 .. n - 1 /\ d \in Int
  BY <1>1
<1> HIDE DEF d
<1>3. n * d + (x % n) = n * q + r
  BY <1>2 DEF x
<1>4. ~(d < q)
  <2> SUFFICES ASSUME d + 1 <= q PROVE FALSE
    BY <1>2
  <2>1. n * (d + 1) <= n * q
    BY <1>2
  <2> QED
    BY <1>2, <1>3, <2>1
<1>5. ~(q < d)
  <2> SUFFICES ASSUME q + 1 <= d PROVE FALSE
    BY <1>2
  <2>1. n * (q + 1) <= n * d
    BY <1>2
  <2> QED
    BY <1>2, <1>3, <2>1
<1>6. d = q
  BY <1>2, <1>4, <1>5
<1> QED
  BY <1>2, <1>3, <1>6 DEF x, d

\* A number is its quotient and remainder.
LEMMA Divided ==
  ASSUME NEW n \in Nat \ {0}, NEW x \in Nat
  PROVE  /\ x = n * (x \div n) + (x % n)
         /\ x \div n \in Nat /\ x % n \in 0 .. n - 1
<1>1. x = n * (x \div n) + (x % n) /\ x % n \in 0 .. n - 1 /\ x \div n \in Int
  OBVIOUS
<1>2. ASSUME NEW q \in Int, NEW r \in 0 .. n - 1, x = n * q + r
      PROVE  q >= 0
  <2>1. SUFFICES ASSUME q <= -1  PROVE FALSE
    OBVIOUS
  <2>2. n * q <= -n
    BY <2>1
  <2> QED
    BY <1>2, <2>2
<1> QED
  BY <1>1, <1>2

\* Words.
LEMMA Words ==
  ASSUME NEW a \in Int
  PROVE  /\ StartDelta(a) \in 0 .. 3 /\ AlignNext(a) = a + StartDelta(a)
         /\ AlignNext(a) \in Int
         /\ AlignPrev(a) \in Int /\ AlignPrev(a) <= a /\ a - 3 <= AlignPrev(a)
         /\ a >= 0 => AlignPrev(a) >= 0
         /\ a % 4 = 0 => StartDelta(a) = 0
  BY DEF StartDelta, AlignNext, AlignPrev

\* The calls store want at the n addresses from at, and nowhere else.
Exact(calls, at, n, want) ==
  /\ Len(calls) \in Nat
  /\ \A i \in 1 .. Len(calls) :
       Right(calls[i], want) /\ \A a \in Int : Covers(calls[i], a) => a \in at .. at + n - 1
  /\ \A a \in at .. at + n - 1 : \E i \in 1 .. Len(calls) : Covers(calls[i], a)

\* src is what is wanted from address dst.
Meant(src, dst, want) == \A i \in 1 .. Len(src) : src[i] = want[dst + i - 1]

\* A call for part of the bytes meant for a place has the bytes meant for its own.
LEMMA PartOfSource ==
  ASSUME NEW B, NEW src \in Seq(B), NEW dst \in Int, NEW want, Meant(src, dst, want),
         NEW lo \in Nat, NEW hi \in Nat, lo <= hi, hi <= Len(src)
  PROVE  LET call == Call(dst + lo, SubSeq(src, lo + 1, hi))
         IN  /\ Right(call, want)
             /\ \A a \in Int : Covers(call, a) <=> a \in dst + lo .. dst + hi - 1
<1> DEFINE part == SubSeq(src, lo + 1, hi)
           call == Call(dst + lo, part)
<1>1. Len(part) = hi - lo /\ \A i \in 1 .. hi - lo : part[i] = src[lo + i]
  OBVIOUS
<1>2. call.at = dst + lo /\ call.bytes = part
  BY DEF Call
<1> HIDE DEF part, call
<1>3. \A a \in Int : Covers(call, a) <=> a \in dst + lo .. dst + hi - 1
  BY <1>1, <1>2 DEF Covers
<1>4. ASSUME NEW a \in dst + lo .. dst + lo + (hi - lo) - 1
      PROVE  part[a - (dst + lo) + 1] = want[a]
  <2> DEFINE i == a - (dst + lo) + 1
  <2>1. i \in 1 .. hi - lo /\ lo + i \in 1 .. Len(src) /\ dst + (lo + i) - 1 = a
    OBVIOUS
  <2> HIDE DEF i
  <2>2. part[i] = want[a]
    BY <1>1, <2>1 DEF Meant
  <2> QED
    BY <2>2 DEF i
<1>5. Right(call, want)
  BY <1>1, <1>2, <1>4 DEF Right
<1> QED
  BY <1>3, <1>5 DEF call, part

\* One turn of the slow write.
LEMMA TurnCalls ==
  ASSUME NEW B, NEW src \in Seq(B), NEW dst \in Int, NEW want, Meant(src, dst, want),
         StartDelta(dst) <= Len(src)
  PROVE  Len(SlowFlashWrite(dst, src)) = 3 /\ Exact(SlowFlashWrite(dst, src), dst, Len(src), want)
<1> DEFINE s == StartDelta(dst)
           m == s + AlignPrev(Len(src) - s)
           calls == SlowFlashWrite(dst, src)
<1>1. s \in 0 .. 3 /\ AlignNext(dst) = dst + s /\ m \in Nat /\ s <= m /\ m <= Len(src)
  <2>1. s \in 0 .. 3 /\ AlignNext(dst) = dst + s
    BY Words
  <2> DEFINE r == Len(src) - s
  <2>2. r \in Int /\ r >= 0 /\ s + r = Len(src)
    BY <2>1
  <2> HIDE DEF r
  <2>3. AlignPrev(r) \in Int /\ AlignPrev(r) <= r /\ AlignPrev(r) >= 0
    BY <2>2, Words
  <2>4. m = s + AlignPrev(r)
    BY DEF r
  <2> QED
    BY <2>1, <2>2, <2>3, <2>4
<1>2. calls = <<Call(dst + s, SubSeq(src, s + 1, m)), Call(dst, SubSeq(src, 1, s)),
                Call(dst + m, SubSeq(src, m + 1, Len(src)))>>
  BY <1>1 DEF SlowFlashWrite
<1> HIDE DEF s, m, calls
<1>3. /\ Right(calls[1], want)
      /\ \A a \in Int : Covers(calls[1], a) <=> a \in dst + s .. dst + m - 1
  <2> Len(src) \in Nat
    OBVIOUS
  <2> QED
    BY <1>1, <1>2, PartOfSource
<1>4. /\ Right(calls[2], want)
      /\ \A a \in Int : Covers(calls[2], a) <=> a \in dst .. dst + s - 1
  <2>1. s \in Nat /\ s <= Len(src) /\ 0 \in Nat /\ 0 <= s
    BY <1>1
  <2>2. LET call == Call(dst + 0, SubSeq(src, 0 + 1, s))
        IN  /\ Right(call, want)
            /\ \A a \in Int : Covers(call, a) <=> a \in dst + 0 .. dst + s - 1
    BY <2>1, PartOfSource
  <2>3. dst + 0 = dst /\ 0 + 1 = 1
    OBVIOUS
  <2> QED
    BY <1>2, <2>2, <2>3
<1>5. /\ Right(calls[3], want)
      /\ \A a \in Int : Covers(calls[3], a) <=> a \in dst + m .. dst + Len(src) - 1
  <2> Len(src) \in Nat /\ Len(src) <= Len(src)
    OBVIOUS
  <2> QED
    BY <1>1, <1>2, PartOfSource
<1>6. Len(calls) = 3
  BY <1>2
<1>7. \A i \in 1 .. 3 : i = 1 \/ i = 2 \/ i = 3
  OBVIOUS
<1>8. ASSUME NEW i \in 1 .. 3
      PROVE  Right(calls[i], want)
             /\ \A a \in Int : Covers(calls[i], a) => a \in dst .. dst + Len(src) - 1
  BY <1>1, <1>3, <1>4, <1>5, <1>7
<1>9. ASSUME NEW a \in dst .. dst + Len(src) - 1
      PROVE  \E i \in 1 .. 3 : Covers(calls[i], a)
  <2>1. a \in Int /\ 1 \in 1 .. 3 /\ 2 \in 1 .. 3 /\ 3 \in 1 .. 3
    OBVIOUS
  <2>2. a \in dst + s .. dst + m - 1 \/ a \in dst .. dst + s - 1
        \/ a \in dst + m .. dst + Len(src) - 1
    BY <1>1
  <2> QED
    BY <1>3, <1>4, <1>5, <2>1, <2>2
<1>10. Len(calls) = 3 /\ Exact(calls, dst, Len(src), want)
  BY <1>6, <1>8, <1>9 DEF Exact
<1> QED
  BY <1>10 DEF calls

\* The calls for a buffer aligned as its destination.
LEMMA AlignedCalls ==
  ASSUME NEW B, NEW src \in Seq(B), NEW dst \in Int, NEW want, Meant(src, dst, want)
  PROVE  Exact(AlignedWrite(dst, src), dst, Len(src), want)
<1> DEFINE m == AlignPrev(Len(src))
           calls == AlignedWrite(dst, src)
<1>1. m \in Nat /\ m <= Len(src) /\ Len(src) \in Nat
  BY Words
<1>2. calls = <<Call(dst, SubSeq(src, 1, m)), Call(dst + m, SubSeq(src, m + 1, Len(src)))>>
  BY DEF AlignedWrite
<1> HIDE DEF m, calls
<1>3. /\ Right(calls[1], want)
      /\ \A a \in Int : Covers(calls[1], a) <=> a \in dst .. dst + m - 1
  <2>1. 0 \in Nat /\ 0 <= m
    BY <1>1
  <2>2. LET call == Call(dst + 0, SubSeq(src, 0 + 1, m))
        IN  /\ Right(call, want)
            /\ \A a \in Int : Covers(call, a) <=> a \in dst + 0 .. dst + m - 1
    BY <1>1, <2>1, PartOfSource
  <2>3. dst + 0 = dst /\ 0 + 1 = 1
    OBVIOUS
  <2> QED
    BY <1>2, <2>2, <2>3
<1>4. /\ Right(calls[2], want)
      /\ \A a \in Int : Covers(calls[2], a) <=> a \in dst + m .. dst + Len(src) - 1
  <2> Len(src) <= Len(src)
    BY <1>1
  <2> QED
    BY <1>1, <1>2, PartOfSource
<1>5. Len(calls) = 2 /\ \A i \in 1 .. 2 : i = 1 \/ i = 2
  BY <1>2
<1>6. ASSUME NEW i \in 1 .. 2
      PROVE  Right(calls[i], want)
             /\ \A a \in Int : Covers(calls[i], a) => a \in dst .. dst + Len(src) - 1
  BY <1>1, <1>3, <1>4, <1>5
<1>7. ASSUME NEW a \in dst .. dst + Len(src) - 1
      PROVE  \E i \in 1 .. 2 : Covers(calls[i], a)
  <2>1. a \in Int /\ 1 \in 1 .. 2 /\ 2 \in 1 .. 2
    OBVIOUS
  <2>2. a \in dst .. dst + m - 1 \/ a \in dst + m .. dst + Len(src) - 1
    BY <1>1
  <2> QED
    BY <1>3, <1>4, <2>1, <2>2
<1>8. Exact(calls, dst, Len(src), want)
  BY <1>5, <1>6, <1>7 DEF Exact
<1> QED
  BY <1>8 DEF calls

\* Whole words further the start of a word is as near.
LEMMA SameInWord ==
  ASSUME NEW a \in Int, NEW k \in Nat
  PROVE  StartDelta(a + k * TmpSize) = StartDelta(a)
<1>1. TmpSize \in Nat /\ TmpSize % 4 = 0
  BY TmpSizeOfWords
<1>2. PICK t \in Int : TmpSize = 4 * t
  <2>1. TmpSize = 4 * (TmpSize \div 4) /\ TmpSize \div 4 \in Int
    BY <1>1
  <2> QED
    BY <2>1
<1>3. k * TmpSize = 4 * (k * t)
  BY <1>2
<1>4. k * t \in Int
  BY <1>2
<1> DEFINE m == k * t
<1> HIDE DEF m
<1>5. \A x, y \in Int : (x + 4 * y + 3) % 4 = (x + 3) % 4
  OBVIOUS
<1>6. (a + 4 * m + 3) % 4 = (a + 3) % 4 /\ m \in Int
  BY <1>4, <1>5 DEF m
<1>7. StartDelta(a + 4 * m) = StartDelta(a)
  BY <1>6 DEF StartDelta, AlignNext, AlignPrev
<1> QED
  BY <1>3, <1>7 DEF m

\* The turns of the slow write.
Turns(n) == (n + TmpSize - 1) \div TmpSize

\* The turn of a call, and which of its three it is.
LEMMA TurnNumbers ==
  ASSUME NEW n \in Nat \ {0}
  PROVE  /\ Turns(n) \in Nat
         /\ \A k \in 0 .. Turns(n) - 1 :
              /\ k * TmpSize \in Nat /\ (k + 1) * TmpSize = k * TmpSize + TmpSize
              /\ k * TmpSize < n
              /\ k * TmpSize + TmpSize > n => n - k * TmpSize = n % TmpSize
         /\ \A a \in 0 .. n - 1 : \E k \in 0 .. Turns(n) - 1 :
              a \in k * TmpSize .. Min2((k + 1) * TmpSize, n) - 1
<1> DEFINE T == TmpSize
           N == Turns(n)
           x == n + T - 1
<1>1. T \in Nat \ {0}
  BY TmpSizeOfWords
<1> HIDE DEF T
<1>2. x \in Nat
  BY <1>1
<1>3. x = T * N + (x % T) /\ N \in Nat /\ x % T \in 0 .. T - 1
  <2> HIDE DEF x
  <2>1. x = T * (x \div T) + (x % T) /\ x \div T \in Nat /\ x % T \in 0 .. T - 1
    BY <1>1, <1>2, Divided
  <2>2. N = x \div T
    BY DEF Turns, T, x
  <2> QED
    BY <2>1, <2>2
<1>4. T * N < n + T /\ n <= T * N
  <2> DEFINE p == T * N
             r == x % T
  <2>1. p \in Int /\ n + T - 1 = p + r /\ r \in 0 .. T - 1
    BY <1>1, <1>3
  <2> HIDE DEF p, r
  <2>2. p < n + T /\ n <= p
    BY <1>1, <2>1
  <2> QED
    BY <2>2 DEF p
<1> HIDE DEF N
<1>5. ASSUME NEW k \in 0 .. N - 1
      PROVE  /\ k * T \in Nat /\ (k + 1) * T = k * T + T
             /\ k * T < n
             /\ k * T + T > n => n - k * T = n % T
  <2>1. k * T \in Nat /\ (k + 1) * T = k * T + T
    BY <1>1, <1>3
  <2>2. T * (k + 1) <= T * N
    BY <1>1, <1>3
  <2>3. T * N \in Int /\ T * (k + 1) = k * T + T
    BY <1>1, <1>3
  <2>4. k * T < n
    BY <1>1, <1>4, <2>1, <2>2, <2>3
  <2>5. ASSUME k * T + T > n PROVE n - k * T = n % T
    <3> DEFINE r == n - k * T
    <3>1. r \in 0 .. T - 1 /\ n = k * T + r /\ k * T = T * k
      BY <1>1, <1>3, <2>1, <2>4, <2>5
    <3> HIDE DEF r
    <3>2. (T * k + r) % T = r
      <4>1. k \in Nat /\ r \in 0 .. T - 1
        BY <1>3, <3>1
      <4> QED
        BY <1>1, <4>1, Division
    <3> QED
      BY <3>1, <3>2 DEF r
  <2> QED
    BY <2>1, <2>4, <2>5
<1>6. ASSUME NEW a \in 0 .. n - 1
      PROVE  \E k \in 0 .. N - 1 : a \in k * T .. Min2((k + 1) * T, n) - 1
  <2> DEFINE k == a \div T
  <2>1. a = T * k + (a % T) /\ k \in Nat /\ a % T \in 0 .. T - 1
    <3>1. a \in Nat
      OBVIOUS
    <3> QED
      BY <1>1, <3>1, Divided
  <2> HIDE DEF k
  <2>2. T * k \in Nat /\ T * k <= a /\ a < T * k + T
    BY <1>1, <2>1
  <2>3. k < N
    <3> SUFFICES ASSUME N <= k PROVE FALSE
      BY <1>3, <2>1
    <3>1. T * N <= T * k
      BY <1>1, <1>3, <2>1
    <3>2. T * N \in Int
      BY <1>1, <1>3
    <3> QED
      BY <1>4, <2>2, <3>1, <3>2
  <2>4. k \in 0 .. N - 1 /\ k * T = T * k /\ (k + 1) * T = T * k + T
    BY <1>1, <1>3, <2>1, <2>3
  <2>5. a \in k * T .. Min2((k + 1) * T, n) - 1
    BY <1>1, <2>2, <2>4 DEF Min2
  <2> QED
    BY <2>4, <2>5
<1> QED
  BY <1>3, <1>5, <1>6 DEF N, T

\* The calls for a buffer of another alignment: every byte is in the call of one turn.
LEMMA SlowCalls ==
  ASSUME NEW B, NEW src \in Seq(B), src # <<>>, NEW dst \in Int, NEW want,
         Meant(src, dst, want), Len(src) % TmpSize \notin 1 .. StartDelta(dst) - 1
  PROVE  Exact(SlowPieces(dst, src), dst, Len(src), want)
<1> DEFINE n == Len(src)
           T == TmpSize
           N == Turns(n)
           From(k) == k * T
           To(k) == Min2((k + 1) * T, n)
           Turn(k) == SlowFlashWrite(dst + From(k), SubSeq(src, From(k) + 1, To(k)))
           calls == SlowPieces(dst, src)
<1>1. n \in Nat \ {0}
  OBVIOUS
<1>2. T \in Nat /\ T >= 4 /\ T % 4 = 0
  BY TmpSizeOfWords
<1>3. /\ N \in Nat
      /\ \A k \in 0 .. N - 1 :
           /\ From(k) \in Nat /\ (k + 1) * T = From(k) + T /\ From(k) < n
           /\ From(k) + T > n => n - From(k) = n % T
      /\ \A a \in 0 .. n - 1 : \E k \in 0 .. N - 1 : a \in From(k) .. To(k) - 1
  BY <1>1, TurnNumbers
<1>4. calls = [i \in 1 .. 3 * N |-> Turn((i - 1) \div 3)[((i - 1) % 3) + 1]]
  BY DEF SlowPieces, Turns
<1>5. StartDelta(dst) \in 0 .. 3 /\ n % T \notin 1 .. StartDelta(dst) - 1
  BY Words
<1>6. ASSUME NEW k \in 0 .. N - 1
      PROVE  /\ From(k) < To(k) /\ To(k) <= n /\ To(k) \in Nat /\ From(k) \in Nat
             /\ Len(Turn(k)) = 3
             /\ Exact(Turn(k), dst + From(k), To(k) - From(k), want)
  <2> DEFINE lo == From(k)
             hi == To(k)
             part == SubSeq(src, lo + 1, hi)
  <2>1. lo \in Nat /\ lo < n /\ (lo + T > n => n - lo = n % T) /\ hi = Min2(lo + T, n)
    BY <1>3
  <2>2. StartDelta(dst + lo) = StartDelta(dst)
    BY SameInWord
  <2> HIDE DEF lo, hi, n
  <2>3. hi \in Nat /\ lo < hi /\ hi <= n
    BY <1>1, <1>2, <2>1 DEF Min2
  <2>4. StartDelta(dst) <= hi - lo
    <3>1. CASE lo + T > n
      <4> DEFINE r == n % T
      <4>1. hi - lo = r /\ r > 0
        BY <1>1, <1>2, <2>1, <3>1 DEF Min2
      <4>2. r \notin 1 .. StartDelta(dst) - 1
        BY <1>5
      <4> HIDE DEF r
      <4> QED
        BY <1>5, <2>1, <2>3, <4>1, <4>2
    <3>2. CASE ~(lo + T > n)
      BY <1>1, <1>2, <1>5, <2>1, <3>2 DEF Min2
    <3> QED
      BY <3>1, <3>2
  <2>5. part \in Seq(B) /\ Len(part) = hi - lo
        /\ \A i \in 1 .. hi - lo : part[i] = src[lo + i]
    BY <2>1, <2>3 DEF n
  <2> HIDE DEF part
  <2>6. Meant(part, dst + lo, want)
    <3> SUFFICES ASSUME NEW i \in 1 .. hi - lo PROVE part[i] = want[dst + lo + i - 1]
      BY <2>5 DEF Meant
    <3>1. lo + i \in 1 .. Len(src) /\ dst + (lo + i) - 1 = dst + lo + i - 1
      BY <2>1, <2>3 DEF n
    <3> QED
      BY <2>5, <3>1 DEF Meant
  <2>7. /\ Len(SlowFlashWrite(dst + lo, part)) = 3
        /\ Exact(SlowFlashWrite(dst + lo, part), dst + lo, hi - lo, want)
    <3>1. dst + lo \in Int /\ StartDelta(dst + lo) <= Len(part)
      BY <2>1, <2>2, <2>4, <2>5
    <3> QED
      BY <2>5, <2>6, <3>1, TurnCalls
  <2> QED
    BY <2>1, <2>3, <2>7 DEF lo, hi, part
<1> HIDE DEF n, N, From, To, Turn, calls
<1>7. Len(calls) = 3 * N /\ 3 * N \in Nat
  BY <1>3, <1>4
<1>8. ASSUME NEW i \in 1 .. 3 * N
      PROVE  /\ (i - 1) \div 3 \in 0 .. N - 1 /\ ((i - 1) % 3) + 1 \in 1 .. 3
             /\ calls[i] = Turn((i - 1) \div 3)[((i - 1) % 3) + 1]
  BY <1>3, <1>4
<1>9. ASSUME NEW i \in 1 .. 3 * N
      PROVE  Right(calls[i], want) /\ \A a \in Int : Covers(calls[i], a) => a \in dst .. dst + n - 1
  <2>1. PICK k \in 0 .. N - 1, j \in 1 .. 3 : calls[i] = Turn(k)[j]
    BY <1>8
  <2>2. /\ Right(calls[i], want)
        /\ \A a \in Int : Covers(calls[i], a) =>
             a \in dst + From(k) .. dst + From(k) + (To(k) - From(k)) - 1
    BY <1>6, <2>1 DEF Exact
  <2>3. \A a \in dst + From(k) .. dst + From(k) + (To(k) - From(k)) - 1 : a \in dst .. dst + n - 1
    BY <1>1, <1>6
  <2> QED
    BY <2>2, <2>3
<1>10. ASSUME NEW a \in dst .. dst + n - 1
       PROVE  \E i \in 1 .. 3 * N : Covers(calls[i], a)
  <2>1. a - dst \in 0 .. n - 1
    BY <1>1
  <2>2. PICK k \in 0 .. N - 1 : a - dst \in From(k) .. To(k) - 1
    BY <1>3, <2>1
  <2>3. a \in dst + From(k) .. dst + From(k) + (To(k) - From(k)) - 1
    BY <1>6, <2>2
  <2>4. PICK j \in 1 .. 3 : Covers(Turn(k)[j], a)
    BY <1>6, <2>3 DEF Exact
  <2>5. /\ 3 * k + j \in 1 .. 3 * N /\ (3 * k + j - 1) \div 3 = k
        /\ ((3 * k + j - 1) % 3) + 1 = j
    BY <1>3
  <2> QED
    BY <1>8, <2>4, <2>5
<1>11. Exact(calls, dst, n, want)
  BY <1>7, <1>9, <1>10 DEF Exact
<1> QED
  BY <1>11 DEF calls, n

\* What _flash_write() does to the flash, but for equally unaligned addresses.
LEMMA WriteCalls ==
  ASSUME NEW B, NEW src \in Seq(B), src # <<>>, NEW dst \in Int, NEW want, NEW d,
         NEW align \in 0 .. 3, Meant(src, dst, want),
         ~EquallyUnaligned(dst, align), ~WriteCrashes(dst, align, Len(src))
  PROVE  Exact(FlashWrite(d, dst, align, src), dst, Len(src), want)
<1>1. CASE align = dst % 4
  BY <1>1, AlignedCalls DEF FlashWrite
<1>2. CASE align # dst % 4
  <2>1. Len(src) % TmpSize \notin 1 .. StartDelta(dst) - 1
    BY <1>2 DEF WriteCrashes
  <2>2. FlashWrite(d, dst, align, src) = SlowPieces(dst, src)
    BY <1>2 DEF FlashWrite
  <2> QED
    BY <2>1, <2>2, SlowCalls
<1> QED
  BY <1>1, <1>2

-----------------------------------------------------------------------------
(* Parts of a file *)

\* The place in a file of byte a of its i-th sector.
Place(i, a) == (i - 1) * DataSize + a

\* Part g of sz bytes from ptr is in the j-th of their sectors.
IsPart(g, j, ptr, sz) ==
  /\ g.index = (ptr \div DataSize) + j /\ g.index \in Nat \ {0}
  /\ g.at \in Nat /\ g.sz \in Nat \ {0} /\ g.at + g.sz <= DataSize
  /\ g.from \in Nat /\ g.from + g.sz <= sz
  /\ Place(g.index, g.at) = ptr + g.from

\* Part g has byte a of the i-th sector.
HasPlace(g, i, a) == g.index = i /\ a \in g.at .. g.at + g.sz - 1

\* The part of each sector in sz bytes from ptr: one for each sector, and every byte
\* is in one.
LEMMA SegmentParts ==
  ASSUME NEW ptr \in Nat, NEW sz \in Nat \ {0}
  PROVE  LET segs == Segments(ptr, sz)
         IN  /\ Len(segs) \in Nat /\ DOMAIN segs = 1 .. Len(segs)
             /\ \A j \in 1 .. Len(segs) : IsPart(segs[j], j, ptr, sz)
             /\ \A j, k \in 1 .. Len(segs) : segs[j].index = segs[k].index => j = k
             /\ \A i \in Nat \ {0}, a \in 0 .. DataSize - 1 :
                  Place(i, a) \in ptr .. ptr + sz - 1 =>
                    \E j \in 1 .. Len(segs) : HasPlace(segs[j], i, a)
<1> DEFINE D == DataSize
           first == ptr \div D
           past  == (ptr + sz - 1) \div D
           segs  == Segments(ptr, sz)
           start(j) == (first + j - 1) * D
           lo(j) == Max2(ptr, start(j))
           hi(j) == Min2(ptr + sz, start(j) + D)
<1>1. D \in Nat \ {0}
  BY FlashConstants
<1> HIDE DEF D
<1>2. /\ first \in Nat /\ past \in Nat
      /\ first * D \in Nat /\ first * D <= ptr /\ ptr < first * D + D
      /\ past * D \in Nat /\ past * D <= ptr + sz - 1 /\ ptr + sz - 1 < past * D + D
  <2>1. ptr = D * first + (ptr % D) /\ first \in Nat /\ ptr % D \in 0 .. D - 1
    BY <1>1, Divided
  <2> DEFINE x == ptr + sz - 1
  <2>2. x \in Nat
    OBVIOUS
  <2> HIDE DEF x
  <2>3. x = D * (x \div D) + (x % D) /\ x \div D \in Nat /\ x % D \in 0 .. D - 1
    BY <1>1, <2>2, Divided
  <2>4. past = x \div D
    BY DEF x
  <2> HIDE DEF first, past
  <2>5. first * D = D * first /\ past * D = D * past /\ first * D \in Nat /\ past * D \in Nat
    BY <1>1, <2>1, <2>3, <2>4
  <2>6. x = ptr + sz - 1
    BY DEF x
  <2> DEFINE p == first * D
             q == past * D
  <2>7. p \in Nat /\ q \in Nat /\ ptr = p + (ptr % D) /\ x = q + (x % D)
    BY <2>1, <2>3, <2>4, <2>5
  <2> HIDE DEF p, q
  <2>8. p <= ptr /\ ptr < p + D /\ q <= x /\ x < q + D
    BY <1>1, <2>1, <2>2, <2>3, <2>7
  <2> QED
    BY <2>1, <2>3, <2>4, <2>5, <2>6, <2>8 DEF p, q
<1>3. segs = [j \in 1 .. past - first + 1 |->
                [index |-> first + j, at |-> lo(j) - start(j), from |-> lo(j) - ptr,
                 sz |-> hi(j) - lo(j)]]
  BY DEF Segments, D
<1> HIDE DEF first, past, segs
<1>4. first <= past
  <2> SUFFICES ASSUME past + 1 <= first PROVE FALSE
    BY <1>2
  <2>1. (past + 1) * D <= first * D /\ (past + 1) * D = past * D + D
    BY <1>1, <1>2
  <2> QED
    BY <1>1, <1>2, <2>1
<1>5. Len(segs) = past - first + 1 /\ Len(segs) \in Nat /\ DOMAIN segs = 1 .. Len(segs)
  BY <1>2, <1>3, <1>4
<1>6. ASSUME NEW j \in 1 .. past - first + 1
      PROVE  start(j) \in Nat /\ start(j) <= ptr + sz - 1 /\ ptr < start(j) + D
  <2> DEFINE q == first + j - 1
  <2>1. q \in Nat /\ first <= q /\ q <= past
    BY <1>2, <1>4
  <2> HIDE DEF q
  <2>2. q * D \in Nat /\ first * D <= q * D /\ q * D <= past * D
    BY <1>1, <1>2, <2>1
  <2> DEFINE p == q * D
  <2>3. start(j) = p
    BY DEF q
  <2> HIDE DEF p, start
  <2>4. p \in Nat /\ first * D <= p /\ p <= past * D
    BY <2>2 DEF p
  <2> DEFINE u == first * D
             v == past * D
  <2>5. u \in Nat /\ v \in Nat /\ u <= p /\ p <= v /\ ptr < u + D /\ v <= ptr + sz - 1
    BY <1>2, <2>4
  <2> HIDE DEF u, v
  <2> QED
    BY <1>1, <2>3, <2>4, <2>5
<1>7. ASSUME NEW j \in 1 .. Len(segs) PROVE IsPart(segs[j], j, ptr, sz)
  <2>1. /\ segs[j].index = first + j /\ segs[j].at = lo(j) - start(j)
        /\ segs[j].from = lo(j) - ptr /\ segs[j].sz = hi(j) - lo(j)
    BY <1>3, <1>5
  <2>2. start(j) \in Nat /\ start(j) <= ptr + sz - 1 /\ ptr < start(j) + D
    BY <1>5, <1>6
  <2>3. segs[j].index - 1 = first + j - 1 /\ segs[j].index \in Nat \ {0}
    BY <1>2, <2>1
  <2>4. (segs[j].index - 1) * D = start(j)
    BY <2>3
  <2> HIDE DEF start
  <2>5. /\ lo(j) \in Nat /\ lo(j) >= ptr /\ lo(j) >= start(j) /\ hi(j) \in Nat
        /\ lo(j) < hi(j) /\ hi(j) <= ptr + sz /\ hi(j) <= start(j) + D
    BY <1>1, <2>2 DEF Max2, Min2
  <2> HIDE DEF lo, hi
  <2>6. /\ segs[j].at \in Nat /\ segs[j].sz \in Nat \ {0}
        /\ segs[j].at + segs[j].sz <= D
        /\ segs[j].from \in Nat /\ segs[j].from + segs[j].sz <= sz
        /\ start(j) + segs[j].at = ptr + segs[j].from
    BY <1>1, <2>1, <2>2, <2>5
  <2> QED
    BY <2>1, <2>3, <2>4, <2>6 DEF IsPart, Place, D, first
<1>8. ASSUME NEW i \in Nat \ {0}, NEW a \in 0 .. D - 1,
             Place(i, a) \in ptr .. ptr + sz - 1
      PROVE  \E j \in 1 .. Len(segs) : HasPlace(segs[j], i, a)
  <2> DEFINE j == i - first
             p == (i - 1) * D
  <2>1. i - 1 \in Nat /\ p \in Nat /\ p + a \in ptr .. ptr + sz - 1
    BY <1>1, <1>8 DEF Place, D
  <2>2. first <= i - 1
    <3> SUFFICES ASSUME i <= first PROVE FALSE
      BY <1>2
    <3>1. i * D <= first * D /\ i * D = p + D
      BY <1>1, <1>2
    <3> HIDE DEF p
    <3> QED
      BY <1>1, <1>2, <2>1, <3>1
  <2>3. i - 1 <= past
    <3> SUFFICES ASSUME past + 1 <= i - 1 PROVE FALSE
      BY <1>2
    <3>1. (past + 1) * D <= p /\ (past + 1) * D = past * D + D
      BY <1>1, <1>2, <2>1
    <3> HIDE DEF p
    <3> QED
      BY <1>1, <1>2, <2>1, <3>1
  <2>4. j \in 1 .. past - first + 1 /\ first + j = i /\ first + j - 1 = i - 1
    BY <1>2, <2>2, <2>3
  <2>5. start(j) = p
    BY <2>4
  <2> HIDE DEF j, p, start
  <2>6. /\ segs[j].index = i /\ segs[j].at = lo(j) - p /\ segs[j].sz = hi(j) - lo(j)
    BY <1>3, <2>4, <2>5
  <2>7. lo(j) <= p + a /\ p + a < hi(j) /\ lo(j) \in Int /\ hi(j) \in Int
    BY <1>1, <2>1, <2>5 DEF Max2, Min2
  <2> HIDE DEF lo, hi
  <2>8. a \in segs[j].at .. segs[j].at + segs[j].sz - 1
    BY <1>1, <2>1, <2>6, <2>7
  <2> QED
    BY <1>5, <2>4, <2>6, <2>8 DEF HasPlace
<1>9. \A j, k \in 1 .. Len(segs) : segs[j].index = segs[k].index => j = k
  <2>1. \A j \in 1 .. Len(segs) : segs[j].index = first + j
    <3> HIDE DEF lo, hi, start
    <3> QED
      BY <1>3, <1>5
  <2> QED
    BY <1>2, <1>5, <2>1
<1> QED
  BY <1>5, <1>7, <1>8, <1>9 DEF D, segs

-----------------------------------------------------------------------------
(* The contents of the files *)

\* A file has room for its bytes, and a number that is not that of erased ones.
Lengths(e) ==
  /\ spifiles[e].written \in Nat /\ spifiles[e].max_size \in Nat
  /\ spifiles[e].written <= spifiles[e].max_size
  /\ spifiles[e].max_size <= Len(Owned(e)) * DataSize
  /\ spifiles[e].number \in Nat
  /\ spifiles[e].sound => spifiles[e].number > 0

\* A descriptor is not past the end of its file.
FdLength(f) ==
  files[f].state = "open" =>
    files[f].fileptr \in Nat /\ files[f].fileptr <= spifiles[files[f].entry].written

\* The data of a sector.
DataType == \A s \in Sectors : DOMAIN data[s] = 0 .. DataSize - 1

\* A file has room for sz bytes from ptr.
InFile(e, ptr, sz) == ptr + sz <= Len(Owned(e)) * DataSize

\* A byte of a file is as it was erased or as the file has it, and as the file has it
\* where the file was written: a write that is repeated finds it so.
Contents(e) ==
  spifiles[e].sound =>
    \A i \in DOMAIN Owned(e), a \in 0 .. DataSize - 1 :
      LET byte == data[Owned(e)[i]][a]
          want == Data(spifiles[e].number, Place(i, a))
      IN  byte \in {Erased, want} /\ (Place(i, a) < spifiles[e].written => byte = want)

\* The calls are a sequence.
LEMMA CallsAreSeq ==
  ASSUME NEW d, NEW dst, NEW align, NEW src, Len(src) \in Nat
  PROVE  LET calls == FlashWrite(d, dst, align, src)
         IN  /\ Len(calls) \in Nat
             /\ calls \in Seq({calls[i] : i \in 1 .. Len(calls)})
<1>1. \A n \in Nat : \A f : f = [i \in 1 .. n |-> f[i]] =>
        Len(f) = n /\ f \in Seq({f[i] : i \in 1 .. n})
  <2> SUFFICES ASSUME NEW n \in Nat, NEW f, f = [i \in 1 .. n |-> f[i]]
               PROVE  Len(f) = n /\ f \in Seq({f[i] : i \in 1 .. n})
    OBVIOUS
  <2> DEFINE S == {f[i] : i \in 1 .. n}
  <2>1. \A i \in 1 .. n : f[i] \in S
    OBVIOUS
  <2> HIDE DEF S
  <2>2. f \in [1 .. n -> S]
    BY <2>1
  <2> QED
    BY <2>2 DEF S
<1>2. CASE EquallyUnaligned(dst, align)
  <2>1. \E x, y : EquallyUnalignedWrite(d, dst, src) = <<x, y>>
    BY DEF EquallyUnalignedWrite
  <2>2. \A x, y : <<x, y>> = [i \in 1 .. 2 |-> <<x, y>>[i]]
    OBVIOUS
  <2> QED
    BY <1>1, <1>2, <2>1, <2>2 DEF FlashWrite
<1>3. CASE ~EquallyUnaligned(dst, align) /\ align = dst % 4
  <2>1. \E x, y : AlignedWrite(dst, src) = <<x, y>>
    BY DEF AlignedWrite
  <2>2. \A x, y : <<x, y>> = [i \in 1 .. 2 |-> <<x, y>>[i]]
    OBVIOUS
  <2> QED
    BY <1>1, <1>3, <2>1, <2>2 DEF FlashWrite
<1>4. CASE ~EquallyUnaligned(dst, align) /\ align # dst % 4
  <2> DEFINE n == 3 * Turns(Len(src))
             calls == SlowPieces(dst, src)
  <2>1. n \in Nat
    <3>1. TmpSize \in Nat \ {0}
      BY TmpSizeOfWords
    <3> DEFINE x == Len(src) + TmpSize - 1
    <3>2. x \in Nat
      BY <3>1
    <3> HIDE DEF x
    <3>3. x \div TmpSize \in Nat
      BY <3>1, <3>2, Divided
    <3> QED
      BY <3>3 DEF Turns, x
  <2>2. calls = [i \in 1 .. n |-> calls[i]]
    <3>1. \E g : calls = [i \in 1 .. n |-> g[(i - 1) \div 3][((i - 1) % 3) + 1]]
      <4> DEFINE Turn(k) == SlowFlashWrite(dst + k * TmpSize,
                              SubSeq(src, k * TmpSize + 1, Min2((k + 1) * TmpSize, Len(src))))
                 g == [k \in {(i - 1) \div 3 : i \in 1 .. n} |-> Turn(k)]
      <4>1. calls = [i \in 1 .. n |-> Turn((i - 1) \div 3)[((i - 1) % 3) + 1]]
        BY DEF SlowPieces, Turns
      <4>2. \A i \in 1 .. n : g[(i - 1) \div 3] = Turn((i - 1) \div 3)
        OBVIOUS
      <4> HIDE DEF g, Turn, n, calls
      <4> QED
        BY <4>1, <4>2
    <3> HIDE DEF n, calls
    <3> QED
      BY <3>1
  <2>3. FlashWrite(d, dst, align, src) = calls
    BY <1>4 DEF FlashWrite
  <2> HIDE DEF n, calls
  <2> QED
    BY <1>1, <2>1, <2>2, <2>3
<1> QED
  BY <1>2, <1>3, <1>4

\* What is done of a segment: all of its calls, none of them, or the first j.
Prefix(calls, x, c, j) ==
  IF x < c THEN calls ELSE IF x = c /\ j > 0 THEN SubSeq(calls, 1, j) ELSE <<>>

\* Its calls are calls of the segment.
LEMMA PrefixOf ==
  ASSUME NEW S, NEW calls \in Seq(S), NEW x \in Int, NEW c \in Int, NEW j \in Nat,
         x = c => j <= Len(calls)
  PROVE  LET done == Prefix(calls, x, c, j)
         IN  /\ Len(done) \in Nat /\ Len(done) <= Len(calls)
             /\ \A y \in 1 .. Len(done) : done[y] = calls[y]
             /\ x < c => done = calls
             /\ x > c => Len(done) = 0
<1>1. CASE x < c
  BY <1>1 DEF Prefix
<1>2. CASE x = c /\ j > 0
  <2> DEFINE p == SubSeq(calls, 1, j)
  <2>1. Len(p) = j /\ \A y \in 1 .. j : p[y] = calls[y]
    BY <1>2
  <2>2. Prefix(calls, x, c, j) = p
    BY <1>2 DEF Prefix
  <2> HIDE DEF p
  <2> QED
    BY <1>2, <2>1, <2>2
<1>3. CASE ~(x < c) /\ ~(x = c /\ j > 0)
  BY <1>3 DEF Prefix
<1> QED
  BY <1>1, <1>2, <1>3

\* A segment lies in the sectors of the file.
LEMMA SegmentInFile ==
  ASSUME NEW ptr \in Nat, NEW sz \in Nat \ {0}, NEW n \in Nat, ptr + sz <= n * DataSize,
         NEW x \in 1 .. Len(Segments(ptr, sz))
  PROVE  Segments(ptr, sz)[x].index \in 1 .. n
<1> DEFINE segs == Segments(ptr, sz)
           g == segs[x]
<1>1. DataSize \in Nat \ {0}
  BY FlashConstants
<1>2. \A y \in 1 .. Len(segs) : IsPart(segs[y], y, ptr, sz)
  BY SegmentParts
<1> HIDE DEF segs
<1>3. x \in 1 .. Len(segs)
  BY DEF segs
<1>4. g.index - 1 < n
  <2> DEFINE i == g.index
             p == (i - 1) * DataSize
             q == n * DataSize
  <2>1. /\ i \in Nat \ {0} /\ g.at \in Nat /\ g.sz \in Nat \ {0} /\ g.from \in Nat
        /\ g.from + g.sz <= sz /\ p + g.at = ptr + g.from
    BY <1>2, <1>3 DEF IsPart, Place
  <2> HIDE DEF g, i
  <2> SUFFICES ASSUME n <= i - 1 PROVE FALSE
    BY <2>1 DEF i
  <2>2. q <= p /\ q \in Nat /\ p \in Nat
    BY <1>1, <2>1
  <2> HIDE DEF p, q
  <2>3. ptr + sz <= q
    BY DEF q
  <2> QED
    BY <2>1, <2>2, <2>3
<1>5. g.index \in Nat \ {0}
  BY <1>2, <1>3 DEF IsPart
<1> QED
  BY <1>4, <1>5 DEF g, segs

\* The parts of a write are in the sectors of its file.
LEMMA PartsInFile ==
  ASSUME IInv, NEW e \in Entries, NEW ptr \in Nat, NEW sz \in Nat \ {0},
         InFile(e, ptr, sz)
  PROVE  \A x \in 1 .. Len(Segments(ptr, sz)) : Segments(ptr, sz)[x].index \in DOMAIN Owned(e)
<1>1. Owned(e) \in Seq(Sectors)
  BY DEF IInv, TypeInv
<1>2. Len(Owned(e)) \in Nat /\ DOMAIN Owned(e) = 1 .. Len(Owned(e))
  BY <1>1
<1> QED
  BY <1>2, SegmentInFile DEF InFile

\* The flash stops after j of the calls for part c, if not after all of them.
Stops(e, ptr, sz, align, c, j) ==
  \A x \in 1 .. Len(Segments(ptr, sz)) :
    x = c => j <= Len(CallsOf(spifiles[e], ptr, align, Segments(ptr, sz)[x]))

\* A sector after a write: as it was, or after calls for the part that is in it.
SectorAfter(e, ptr, sz, align, c, j, s) ==
  \/ /\ data'[s] = data[s]
     /\ \A x \in 1 .. Len(Segments(ptr, sz)) : Owned(e)[Segments(ptr, sz)[x].index] # s
  \/ \E x \in 1 .. Len(Segments(ptr, sz)) :
       /\ Owned(e)[Segments(ptr, sz)[x].index] = s
       /\ data'[s] = After(data[s], Prefix(CallsOf(spifiles[e], ptr, align, Segments(ptr, sz)[x]),
                                           x, c, j))

\* What a write does to a sector: nothing if no part of it is there, and else the
\* calls for that part, the first of them, or none.
LEMMA StoredSector ==
  ASSUME IInv, NEW e \in Entries, NEW ptr \in Nat, NEW sz \in Nat \ {0}, NEW align,
         InFile(e, ptr, sz), NEW c \in Int, NEW j \in Nat,
         Stored(spifiles[e], ptr, sz, align, c, j), NEW s \in Sectors
  PROVE  SectorAfter(e, ptr, sz, align, c, j, s)
<1> DEFINE segs == Segments(ptr, sz)
           Hit == {i \in DOMAIN segs : spifiles[e].sectors[segs[i].index] = s}
           calls(x) == CallsOf(spifiles[e], ptr, align, segs[x])
<1>1. /\ Len(segs) \in Nat /\ DOMAIN segs = 1 .. Len(segs)
      /\ \A x \in 1 .. Len(segs) : IsPart(segs[x], x, ptr, sz)
  BY SegmentParts
<1>2. data'[s] = IF Hit = {} THEN data[s]
                 ELSE After(data[s], Prefix(calls(Least(Hit)), Least(Hit), c, j))
  BY DEF Stored, Prefix
<1> HIDE DEF segs, calls
<1>3. CASE Hit = {}
  BY <1>1, <1>2, <1>3 DEF Owned, segs, SectorAfter
<1>4. CASE Hit # {}
  <2>1. Hit \in SUBSET Nat
    BY <1>1
  <2>2. Least(Hit) \in Hit
    BY <1>4, <2>1, LeastIsOne
  <2> DEFINE x == Least(Hit)
  <2>3. x \in 1 .. Len(segs) /\ Owned(e)[segs[x].index] = s
        /\ data'[s] = After(data[s], Prefix(calls(x), x, c, j))
    BY <1>1, <1>2, <1>4, <2>2 DEF Owned
  <2> HIDE DEF x
  <2> QED
    BY <2>3 DEF segs, calls, SectorAfter
<1> QED
  BY <1>3, <1>4

\* The calls for a part are a sequence.
LEMMA CallsOfPart ==
  ASSUME NEW e \in Entries, NEW ptr \in Nat, NEW sz \in Nat \ {0}, NEW align,
         NEW x \in 1 .. Len(Segments(ptr, sz))
  PROVE  LET g == Segments(ptr, sz)[x]
             calls == CallsOf(spifiles[e], ptr, align, g)
         IN  /\ Len(calls) \in Nat
             /\ \E S : calls \in Seq(S)
             /\ Len(Source(spifiles[e], ptr, g)) = g.sz
<1> DEFINE g == Segments(ptr, sz)[x]
           src == Source(spifiles[e], ptr, g)
<1>1. g.sz \in Nat
  BY SegmentParts DEF IsPart
<1> HIDE DEF g
<1>2. Len(src) = g.sz
  BY <1>1 DEF Source
<1> HIDE DEF src
<1>3. Len(src) \in Nat
  BY <1>1, <1>2
<1>4. LET calls == FlashWrite(data[spifiles[e].sectors[g.index]], g.at,
                              (align + g.from) % 4, src)
      IN  Len(calls) \in Nat /\ calls \in Seq({calls[i] : i \in 1 .. Len(calls)})
  BY <1>3, CallsAreSeq
<1>5. CallsOf(spifiles[e], ptr, align, g)
        = FlashWrite(data[spifiles[e].sectors[g.index]], g.at, (align + g.from) % 4, src)
  BY DEF CallsOf, src
<1> QED
  BY <1>2, <1>4, <1>5 DEF g, src

\* A write keeps the addresses of a sector, and the sectors of other files.
LEMMA StoredData ==
  ASSUME IInv, DataType, NEW e \in Entries, NEW ptr \in Nat, NEW sz \in Nat \ {0}, NEW align,
         InFile(e, ptr, sz), NEW c \in Int, NEW j \in Nat,
         Stored(spifiles[e], ptr, sz, align, c, j), Stops(e, ptr, sz, align, c, j)
  PROVE  /\ DataType'
         /\ \A s \in Sectors : (\A i \in DOMAIN Owned(e) : Owned(e)[i] # s) => data'[s] = data[s]
<1> DEFINE segs == Segments(ptr, sz)
<1>1. \A x \in 1 .. Len(segs) : segs[x].index \in DOMAIN Owned(e)
  BY PartsInFile
<1>2. ASSUME NEW s \in Sectors
      PROVE  /\ DOMAIN data'[s] = 0 .. DataSize - 1
             /\ (\A i \in DOMAIN Owned(e) : Owned(e)[i] # s) => data'[s] = data[s]
  <2>1. CASE data'[s] = data[s]
    BY <2>1 DEF DataType
  <2>2. ASSUME NEW x \in 1 .. Len(segs), Owned(e)[segs[x].index] = s,
               data'[s] = After(data[s],
                                Prefix(CallsOf(spifiles[e], ptr, align, segs[x]), x, c, j))
        PROVE  DOMAIN data'[s] = 0 .. DataSize - 1
    <3> DEFINE calls == CallsOf(spifiles[e], ptr, align, segs[x])
    <3>1. PICK S : calls \in Seq(S)
      BY CallsOfPart
    <3>2. x = c => j <= Len(calls)
      BY DEF Stops
    <3> DEFINE done == Prefix(calls, x, c, j)
    <3> HIDE DEF calls
    <3>3. Len(done) \in Nat
      <4>1. x \in Int
        OBVIOUS
      <4> QED
        BY <3>1, <3>2, <4>1, PrefixOf
    <3>4. DOMAIN data[s] = 0 .. DataSize - 1 /\ 0 \in DOMAIN data[s]
      BY FlashConstants DEF DataType
    <3> HIDE DEF done
    <3>5. DOMAIN After(data[s], done) = DOMAIN data[s]
      BY <3>3, <3>4, AfterCalls
    <3> QED
      BY <2>2, <3>4, <3>5 DEF calls, done
  <2>3. SectorAfter(e, ptr, sz, align, c, j, s)
    BY StoredSector
  <2> QED
    BY <1>1, <2>1, <2>2, <2>3 DEF SectorAfter
<1> QED
  BY <1>2 DEF DataType

\* A write that does not fault before the flash stops, and one that is not misplaced.
Writes(e, ptr, sz, align, c, j) ==
  /\ Stored(spifiles[e], ptr, sz, align, c, j) /\ Stops(e, ptr, sz, align, c, j)
  /\ \A x \in 1 .. Len(Segments(ptr, sz)) :
       x <= c => ~SegmentCrashes(align, Segments(ptr, sz)[x])
Straight(ptr, sz, align) ==
  \A x \in 1 .. Len(Segments(ptr, sz)) : ~SegmentMisplaced(align, Segments(ptr, sz)[x])

\* Byte a of the i-th sector of the file.
Want(e, i, a) == Data(spifiles[e].number, Place(i, a))
Fits(e, i, a) == data[Owned(e)[i]][a] \in {Erased, Want(e, i, a)}
BytesStored(e, ptr, sz, c, i, a) ==
  LET byte == data'[Owned(e)[i]][a]
  IN  /\ byte \in {Erased, Want(e, i, a)}
      /\ data[Owned(e)[i]][a] = Want(e, i, a) => byte = Want(e, i, a)
      /\ Place(i, a) \in ptr .. ptr + sz - 1 /\ c > Len(Segments(ptr, sz))
           => byte = Want(e, i, a)

\* What a write that is not misplaced leaves at a place of its file.
LEMMA StoredBytes ==
  ASSUME IInv, DataType, NEW e \in Entries, NEW ptr \in Nat, NEW sz \in Nat \ {0},
         NEW align \in Nat,
         InFile(e, ptr, sz), NEW c \in Int, NEW j \in Nat,
         Writes(e, ptr, sz, align, c, j), Straight(ptr, sz, align),
         NEW i \in DOMAIN Owned(e), NEW a \in 0 .. DataSize - 1, Fits(e, i, a)
  PROVE  BytesStored(e, ptr, sz, c, i, a)
<1> DEFINE segs == Segments(ptr, sz)
           s == Owned(e)[i]
           n == spifiles[e].number
           want == [b \in Int |-> Data(n, Place(i, b))]
           file == spifiles[e]
<1>1. Owned(e) \in Seq(Sectors) /\ Len(Owned(e)) \in Nat /\ DOMAIN Owned(e) = 1 .. Len(Owned(e))
      /\ i \in Nat \ {0} /\ s \in Sectors
  BY DEF IInv, TypeInv
<1>2. \A x \in 1 .. Len(segs) : segs[x].index \in DOMAIN Owned(e)
  BY PartsInFile
<1>3. /\ Len(segs) \in Nat
      /\ \A x \in 1 .. Len(segs) : IsPart(segs[x], x, ptr, sz)
      /\ Place(i, a) \in ptr .. ptr + sz - 1 =>
           \E x \in 1 .. Len(segs) : HasPlace(segs[x], i, a)
      /\ \A x, y \in 1 .. Len(segs) : segs[x].index = segs[y].index => x = y
  BY <1>1, SegmentParts
<1>4. /\ want[a] = Data(n, Place(i, a)) /\ data[s][a] \in {Erased, want[a]}
      /\ a \in Int /\ a \in DOMAIN data[s]
  <2>1. a \in Int
    BY FlashConstants
  <2>2. want[a] = Data(n, Place(i, a))
    BY <2>1
  <2>3. a \in DOMAIN data[s]
    BY <1>1 DEF DataType
  <2>4. Fits(e, i, a) <=> data[s][a] \in {Erased, want[a]}
    BY <2>2 DEF Fits, Want
  <2> HIDE DEF want
  <2> QED
    BY <2>1, <2>2, <2>3, <2>4
<1>5. SectorAfter(e, ptr, sz, align, c, j, s)
  BY <1>1, StoredSector DEF Writes
<1>6. \A x \in 1 .. Len(segs) : Owned(e)[segs[x].index] = s => segs[x].index = i
  BY <1>2 DEF IInv, OwnedDiffers
<1>8. ASSUME NEW x \in 1 .. Len(segs), Owned(e)[segs[x].index] = s,
             data'[s] = After(data[s], Prefix(CallsOf(file, ptr, align, segs[x]), x, c, j))
      PROVE  /\ data'[s][a] \in {Erased, want[a]}
             /\ data[s][a] = want[a] => data'[s][a] = want[a]
             /\ Place(i, a) \in ptr .. ptr + sz - 1 /\ c > Len(segs) => data'[s][a] = want[a]
  <2> DEFINE g == segs[x]
             calls == CallsOf(file, ptr, align, g)
             done == Prefix(calls, x, c, j)
             src == Source(file, ptr, g)
  <2>1. IsPart(g, x, ptr, sz) /\ g.index = i
    BY <1>3, <1>6, <1>8
  <2>2. (\E S : calls \in Seq(S)) /\ Len(calls) \in Nat /\ Len(src) = g.sz
    BY CallsOfPart
  <2>3. /\ x = c => j <= Len(calls)
        /\ x <= c => ~SegmentCrashes(align, g)
        /\ ~SegmentMisplaced(align, g)
    BY DEF Writes, Stops, Straight
  <2>4. data'[s] = After(data[s], done)
    BY <1>8
  <2>5. calls = FlashWrite(data[s], g.at, (align + g.from) % 4, src)
    BY <1>8 DEF CallsOf, Owned
  <2>6. \A y \in 1 .. Len(segs) : segs[y].index = i => y = x
    BY <1>3, <2>1
  <2>7. /\ \E S : src \in Seq(S)
        /\ \A q \in 1 .. g.sz : src[q] = Data(n, ptr + g.from + q - 1)
    <3> DEFINE m == g.sz
               S == {Data(n, ptr + g.from + q - 1) : q \in 1 .. m}
    <3>1. src = [q \in 1 .. m |-> Data(n, ptr + g.from + q - 1)] /\ m \in Nat
      BY <2>1 DEF Source, IsPart
    <3>2. \A q \in 1 .. m : Data(n, ptr + g.from + q - 1) \in S
      OBVIOUS
    <3> HIDE DEF S, m, g, src
    <3>3. src \in [1 .. m -> S] /\ m \in Nat
      BY <3>1, <3>2
    <3>4. src \in Seq(S)
      BY <3>3
    <3> QED
      BY <3>1, <3>4 DEF m
  <2> HIDE DEF segs, calls, src, g, done
  <2>8. Meant(src, g.at, want)
    <3> SUFFICES ASSUME NEW q \in 1 .. g.sz PROVE src[q] = want[g.at + q - 1]
      BY <2>2 DEF Meant
    <3> DEFINE p == (i - 1) * DataSize
    <3>1. p \in Int
      BY <1>1, FlashConstants
    <3>2. p + g.at = ptr + g.from /\ g.at \in Nat /\ g.from \in Nat /\ g.sz \in Nat
      BY <2>1 DEF IsPart, Place
    <3>3. \A b \in Int : want[b] = Data(n, p + b)
      BY DEF Place
    <3> HIDE DEF p, want
    <3>4. p + (g.at + q - 1) = ptr + g.from + q - 1 /\ g.at + q - 1 \in Int
      BY <3>1, <3>2
    <3> QED
      BY <2>7, <3>3, <3>4
  <2>9. ASSUME x <= c
        PROVE  Exact(calls, g.at, g.sz, want)
    <3>1. ~WriteCrashes(g.at, (align + g.from) % 4, Len(src))
          /\ ~EquallyUnaligned(g.at, (align + g.from) % 4)
      BY <2>2, <2>3, <2>9 DEF SegmentCrashes, SegmentMisplaced
    <3>2. (align + g.from) % 4 \in 0 .. 3 /\ g.at \in Int /\ src # <<>>
      <4>1. g.from \in Nat /\ g.at \in Int /\ g.sz # 0
        BY <2>1 DEF IsPart
      <4>2. (align + g.from) % 4 \in 0 .. 3
        <5> DEFINE m == align + g.from
        <5>1. m \in Nat
          BY <4>1
        <5> HIDE DEF m
        <5>2. m % 4 \in 0 .. 3
          BY <5>1
        <5> QED
          BY <5>2 DEF m
      <4>3. src # <<>>
        BY <2>2, <4>1
      <4> QED
        BY <4>1, <4>2, <4>3
    <3> HIDE DEF want
    <3>3. Exact(FlashWrite(data[s], g.at, (align + g.from) % 4, src), g.at, Len(src), want)
      <4>1. PICK S : src \in Seq(S)
        BY <2>7
      <4> QED
        BY <2>8, <3>1, <3>2, <4>1, WriteCalls
    <3> QED
      BY <2>2, <2>5, <3>3
  <2>10. /\ Len(done) \in Nat /\ Len(done) <= Len(calls)
         /\ \A y \in 1 .. Len(done) : done[y] = calls[y]
         /\ x < c => done = calls
         /\ x > c => Len(done) = 0
    <3>1. PICK S : calls \in Seq(S)
      BY <2>2
    <3>2. x \in Int
      BY <1>3
    <3> QED
      BY <2>3, <3>1, <3>2, PrefixOf DEF done
  <2>11. \A y \in 1 .. Len(done) : Right(done[y], want)
    <3>1. CASE x <= c
      BY <2>2, <2>9, <2>10, <3>1 DEF Exact
    <3>2. CASE x > c
      BY <2>10, <3>2
    <3> QED
      BY <1>3, <3>1, <3>2
  <2>12. IF \E y \in 1 .. Len(done) : Covers(done[y], a)
         THEN After(data[s], done)[a] = want[a]
         ELSE After(data[s], done)[a] = data[s][a]
    <3> HIDE DEF want, s
    <3>1. a \in DOMAIN data[s] /\ Len(done) \in Nat
      BY <1>4, <2>10
    <3>2. (\A y \in 1 .. Len(done) : Right(done[y], want)) =>
            IF \E y \in 1 .. Len(done) : Covers(done[y], a)
            THEN data[s][a] \in {Erased, want[a]} => After(data[s], done)[a] = want[a]
            ELSE After(data[s], done)[a] = data[s][a]
      BY <3>1, AfterCalls
    <3> QED
      BY <1>4, <2>11, <3>2
  <2>13. ASSUME Place(i, a) \in ptr .. ptr + sz - 1, c > Len(segs)
         PROVE  \E y \in 1 .. Len(done) : Covers(done[y], a)
    <3>1. a \in g.at .. g.at + g.sz - 1
      BY <1>3, <2>6, <2>13 DEF g, HasPlace
    <3>2. x < c /\ x <= c
      BY <1>3, <2>13
    <3> QED
      BY <2>9, <2>10, <3>1, <3>2 DEF Exact
  <2> HIDE DEF want
  <2> QED
    BY <1>4, <2>4, <2>12, <2>13
<1> HIDE DEF want
<1>9. ASSUME data'[s] = data[s], \A x \in 1 .. Len(segs) : Owned(e)[segs[x].index] # s
      PROVE  Place(i, a) \notin ptr .. ptr + sz - 1
  BY <1>3, <1>9 DEF HasPlace
<1> HIDE DEF want
<1> QED
  BY <1>4, <1>5, <1>8, <1>9 DEF SectorAfter, BytesStored, Want

\* The contents of the files.
FileInv ==
  /\ created \in Nat /\ DataType
  /\ \A e \in Entries : Lengths(e) /\ Contents(e)
  /\ \A f \in Fds : FdLength(f)

\* A file that is given none of another keeps its lengths and contents.
LEMMA FileStays ==
  ASSUME NEW e \in Entries, Lengths(e), Contents(e),
         spifiles'[e].sectors = spifiles[e].sectors,
         spifiles'[e].written = spifiles[e].written,
         spifiles'[e].max_size = spifiles[e].max_size,
         spifiles'[e].number = spifiles[e].number,
         spifiles'[e].sound => spifiles[e].sound,
         \A i \in DOMAIN Owned(e) : data'[Owned(e)[i]] = data[Owned(e)[i]]
  PROVE  Lengths(e)' /\ Contents(e)'
<1>1. Owned(e)' = Owned(e)
  BY DEF Owned
<1>2. Lengths(e)'
  BY <1>1 DEF Lengths
<1>3. Contents(e)'
  BY <1>1 DEF Contents
<1> QED
  BY <1>2, <1>3

\* The same of steps that change no data.
LEMMA FilesStay ==
  ASSUME FileInv, created' = created, data' = data,
         \A e \in Entries :
           /\ spifiles'[e].sectors = spifiles[e].sectors
           /\ spifiles'[e].written = spifiles[e].written
           /\ spifiles'[e].max_size = spifiles[e].max_size
           /\ spifiles'[e].number = spifiles[e].number
           /\ spifiles'[e].sound => spifiles[e].sound,
         \A f \in Fds : FdLength(f)'
  PROVE  FileInv'
<1>1. DataType' /\ created' \in Nat
  BY DEF FileInv, DataType
<1>2. \A e \in Entries : Lengths(e)' /\ Contents(e)'
  BY FileStays DEF FileInv
<1> QED
  BY <1>1, <1>2 DEF FileInv

\* An entry without a file.
LEMMA NoFileInv ==
  ASSUME NEW e, spifiles'[e] = NoFile
  PROVE  Lengths(e)' /\ Contents(e)'
<1>1. Owned(e)' = <<>> /\ Len(<<>>) = 0 /\ 0 * DataSize = 0
  BY FlashConstants DEF Owned, NoFile
<1> QED
  BY <1>1 DEF Lengths, Contents, NoFile

\* There are no files at first.
LEMMA FilesInit == Init => FileInv
<1> SUFFICES ASSUME Init PROVE FileInv
  OBVIOUS
<1>1. created \in Nat /\ DataType
  BY DEF Init, DataType
<1>2. ASSUME NEW e \in Entries PROVE Lengths(e) /\ Contents(e)
  <2>1. spifiles[e] = NoFile
    BY DEF Init
  <2>2. Owned(e) = <<>> /\ Len(<<>>) = 0 /\ 0 * DataSize = 0
    BY <2>1, FlashConstants DEF Owned, NoFile
  <2> QED
    BY <2>1, <2>2 DEF Lengths, Contents, NoFile
<1>3. \A f \in Fds : FdLength(f)
  BY DEF Init, FdLength, FreeFd
<1> QED
  BY <1>1, <1>2, <1>3 DEF FileInv

\* A reset forgets the files.
LEMMA FilesRestart ==
  ASSUME FileInv, Restarted, DataType'
  PROVE  FileInv'
<1>1. created' \in Nat
  BY DEF FileInv, Restarted
<1>2. \A e \in Entries : Lengths(e)' /\ Contents(e)'
  BY NoFileInv DEF Restarted
<1>3. \A f \in Fds : FdLength(f)'
  BY DEF Restarted, FdLength, FreeFd
<1> QED
  BY <1>1, <1>2, <1>3 DEF FileInv

\* A file that is removed is nobody's.
LEMMA FilesRemove ==
  ASSUME IInv, NameInv, FileInv, NEW n \in Names, NEW e \in Entries,
         ClosedByCaller(e), RemoveFile(n, e)
  PROVE  FileInv'
<1>1. /\ spifiles' = [spifiles EXCEPT ![e] = NoFile]
      /\ \A f \in Fds : files[f].state = "open" => files[f].entry # e
      /\ UNCHANGED <<files, data, created>>
  BY DEF RemoveFile, ClosedByCaller
<1>2. DOMAIN spifiles = Entries
  BY DEF IInv, TypeInv
<1>3. spifiles'[e] = NoFile /\ \A d \in Entries : d # e => spifiles'[d] = spifiles[d]
  BY <1>1, <1>2
<1>4. created' \in Nat /\ DataType'
  BY <1>1 DEF FileInv, DataType
<1>5. ASSUME NEW d \in Entries PROVE Lengths(d)' /\ Contents(d)'
  <2>1. CASE d = e
    BY <1>3, <2>1, NoFileInv
  <2>2. CASE d # e
    BY <1>1, <1>3, <2>2, FileStays DEF FileInv
  <2> QED
    BY <2>1, <2>2
<1>6. ASSUME NEW f \in Fds PROVE FdLength(f)'
  <2> SUFFICES ASSUME files[f].state = "open" PROVE FdLength(f)'
    BY <1>1 DEF FdLength
  <2>1. files[f].entry \in Entries /\ files[f].entry # e
    BY <1>1 DEF NameInv, NamedFd
  <2> QED
    BY <1>1, <1>3, <2>1 DEF FileInv, FdLength
<1> QED
  BY <1>4, <1>5, <1>6 DEF FileInv

\* A file is given the sectors its data needs.
LEMMA WantedIsEnough ==
  ASSUME NEW m \in Nat
  PROVE  Wanted(m) \in Nat /\ m <= Wanted(m) * DataSize
<1> DEFINE x == m + DataSize - 1
           w == x \div DataSize
<1>1. DataSize \in Nat \ {0}
  BY FlashConstants
<1>2. x \in Nat
  BY <1>1
<1> HIDE DEF x
<1>3. x = DataSize * w + (x % DataSize) /\ w \in Nat /\ x % DataSize \in 0 .. DataSize - 1
  BY <1>1, <1>2, Divided
<1> HIDE DEF w
<1>4. w * DataSize = DataSize * w /\ w * DataSize \in Nat
  BY <1>1, <1>3
<1> DEFINE p == w * DataSize
<1>5. p \in Nat /\ x = p + (x % DataSize)
  BY <1>3, <1>4
<1> HIDE DEF p
<1>6. m <= p
  BY <1>1, <1>3, <1>5 DEF x
<1>7. Wanted(m) = w
  BY DEF Wanted, UpDiv, w, x
<1> QED
  BY <1>3, <1>6, <1>7 DEF p

\* A new file has erased sectors, or the flash stopped.
LEMMA FilesNew ==
  ASSUME IInv, NameInv, FileInv, NEW n \in Names, NEW m \in MaxSizes, OpenNew(n, m)
  PROVE  FileInv'
<1> DEFINE num     == Wanted(m)
           sectors == Taken(num)
<1>1. PICK e \in Minimal(FreeEntries), k \in 0 .. num, erased \in 0 .. 1 :
        /\ k + erased <= num
        /\ Allocated(sectors, k, erased, n)
        /\ spifiles' = [spifiles EXCEPT ![e] =
             [sectors |-> sectors, written |-> 0, max_size |-> m, name |-> n,
              number |-> created + 1, sound |-> k = num, closed |-> FALSE]]
        /\ files' = Opened(n, e)
  BY DEF OpenNew
<1>2. /\ FreeFds # {} /\ num <= Len(free) /\ created' = created + 1
  BY DEF OpenNew
<1>3. e \in Entries /\ ~Used(e)
  BY DEF Minimal, FreeEntries
<1>4. m \in Nat /\ num \in Nat /\ m <= num * DataSize
  <2>1. m \in Nat
    BY FlashConstants
  <2> QED
    BY <2>1, WantedIsEnough
<1>5. free \in Seq(Sectors) /\ Len(free) \in Nat
  BY DEF IInv, TypeInv
<1> HIDE DEF num
<1>6. /\ sectors \in Seq(Sectors) /\ Len(sectors) = num
      /\ \A i \in 1 .. num : sectors[i] = free[num - i + 1] /\ num - i + 1 \in DOMAIN free
  <2> DEFINE s == SubSeq(free, 1, num)
  <2>1. s \in Seq(Sectors) /\ Len(s) = num /\ \A i \in 1 .. num : s[i] = free[i]
    BY <1>2, <1>4, <1>5
  <2>2. sectors = Reverse(s)
    BY DEF Taken
  <2> HIDE DEF s
  <2>3. /\ Reverse(s) \in Seq(Sectors) /\ Len(Reverse(s)) = num
        /\ \A i \in 1 .. num : Reverse(s)[i] = s[num - i + 1]
    BY <2>1, Reversed
  <2>4. \A i \in 1 .. num : num - i + 1 \in 1 .. num /\ num - i + 1 \in DOMAIN free
    BY <1>2, <1>4, <1>5
  <2> QED
    BY <2>1, <2>2, <2>3, <2>4
<1> HIDE DEF sectors
<1> DEFINE whole == k = num
           gone == {sectors[i] : i \in 1 .. k}
           all  == gone \cup {sectors[i] : i \in k + 1 .. k + erased}
           blank == [a \in 0 .. DataSize - 1 |-> Erased]
<1>7. data' = [s \in Sectors |-> IF s \in all THEN blank ELSE data[s]]
  BY <1>1 DEF Allocated
<1>8. \A s \in all : \E i \in 1 .. num : s = sectors[i]
  BY <1>1, <1>4
<1>9. whole => \A i \in 1 .. num : sectors[i] \in all
  OBVIOUS
<1>10. DOMAIN spifiles = Entries /\ created \in Nat
  BY DEF IInv, TypeInv, FileInv
<1>11. /\ spifiles'[e] =
            [sectors |-> sectors, written |-> 0, max_size |-> m, name |-> n,
             number |-> created + 1, sound |-> whole, closed |-> FALSE]
       /\ \A d \in Entries : d # e => spifiles'[d] = spifiles[d]
  BY <1>1, <1>3, <1>10
<1> HIDE DEF whole, all, gone
<1>12. /\ spifiles'[e].sectors = sectors /\ spifiles'[e].written = 0
       /\ spifiles'[e].max_size = m /\ spifiles'[e].number = created + 1
       /\ spifiles'[e].sound = whole /\ Owned(e)' = sectors
  BY <1>11 DEF Owned
<1>13. DataType'
  <2>1. DOMAIN blank = 0 .. DataSize - 1
    OBVIOUS
  <2> HIDE DEF blank
  <2> QED
    BY <1>7, <2>1 DEF FileInv, DataType
<1>14. ASSUME NEW d \in Entries PROVE Lengths(d)' /\ Contents(d)'
  <2>1. CASE d = e
    <3>1. Lengths(d)'
      BY <1>4, <1>6, <1>10, <1>12, <2>1 DEF Lengths
    <3>2. Contents(d)'
      <4> SUFFICES ASSUME whole, NEW i \in DOMAIN sectors, NEW a \in 0 .. DataSize - 1
                   PROVE  data'[sectors[i]][a] = Erased /\ ~(Place(i, a) < 0)
        BY <1>12, <2>1 DEF Contents
      <4>1. i \in 1 .. num /\ sectors[i] \in Sectors
        BY <1>6
      <4>2. data'[sectors[i]] = blank
        BY <1>7, <1>9, <4>1
      <4>3. Place(i, a) \in Nat
        <5>1. (i - 1) * DataSize \in Nat
          BY <4>1, FlashConstants
        <5> QED
          BY <5>1 DEF Place
      <4> QED
        BY <4>2, <4>3
    <3> QED
      BY <3>1, <3>2
  <2>2. CASE d # e
    <3>1. ASSUME NEW i \in DOMAIN Owned(d) PROVE data'[Owned(d)[i]] = data[Owned(d)[i]]
      <4>1. Owned(d)[i] \in Sectors
        BY DEF IInv, TypeInv
      <4>2. Owned(d)[i] \notin all
        BY <1>6, <1>8 DEF IInv, FreeNotOwned
      <4> QED
        BY <1>7, <4>1, <4>2
    <3> QED
      BY <1>11, <2>2, <3>1, FileStays DEF FileInv
  <2> QED
    BY <2>1, <2>2
<1>15. ASSUME NEW f \in Fds PROVE FdLength(f)'
  <2>1. Slot \in Fds
    <3>1. FreeFds \in SUBSET Nat
      BY DEF FreeFds, Fds
    <3> QED
      BY <1>2, <3>1, LeastIsOne DEF Slot, FreeFds
  <2>2. /\ files'[Slot] = [state |-> "open", path |-> n, entry |-> e, fileptr |-> 0]
        /\ \A g \in Fds : g # Slot => files'[g] = files[g]
    BY <1>1, <2>1 DEF Opened, NameInv, Records
  <2>3. CASE f = Slot
    BY <1>12, <2>2, <2>3 DEF FdLength
  <2>4. CASE f # Slot
    <3> SUFFICES ASSUME files[f].state = "open" PROVE FdLength(f)'
      BY <2>2, <2>4 DEF FdLength
    <3>1. files[f].entry \in Entries /\ files[f].entry # e
      BY <1>3 DEF NameInv, NamedFd
    <3> QED
      BY <1>11, <2>2, <2>4, <3>1 DEF FileInv, FdLength
  <2> QED
    BY <2>3, <2>4
<1> QED
  BY <1>2, <1>10, <1>13, <1>14, <1>15 DEF FileInv

\* What a write sets in the record of a file.
LEMMA WrittenLengths ==
  ASSUME NEW h \in FileRecord, NEW n \in Int, NEW b \in BOOLEAN
  PROVE  LET r == [h EXCEPT !.written = n, !.closed = FALSE, !.sound = @ /\ b]
         IN  /\ r.sectors = h.sectors /\ r.max_size = h.max_size /\ r.number = h.number
             /\ r.written = n /\ (r.sound => h.sound /\ b)
<1> DEFINE g == [h EXCEPT !.written = n, !.closed = FALSE]
           r == [g EXCEPT !.sound = @ /\ b]
           q == [h EXCEPT !.written = n, !.closed = FALSE, !.sound = @ /\ b]
<1>1. g \in FileRecord /\ g.sectors = h.sectors /\ g.max_size = h.max_size
      /\ g.number = h.number /\ g.written = n /\ g.sound = h.sound
  BY DEF FileRecord
<1>2. q = r
  OBVIOUS
<1> HIDE DEF g, q
<1>3. /\ r.sectors = g.sectors /\ r.max_size = g.max_size /\ r.number = g.number
      /\ r.written = g.written /\ (r.sound => g.sound /\ b)
  BY <1>1 DEF FileRecord
<1> HIDE DEF r
<1>4. /\ q.sectors = h.sectors /\ q.max_size = h.max_size /\ q.number = h.number
      /\ q.written = n /\ (q.sound => h.sound /\ b)
  BY <1>1, <1>2, <1>3
<1> QED
  BY <1>4 DEF q

\* What a write that fails sets in the record of a file.
LEMMA FailedLengths ==
  ASSUME NEW h \in FileRecord, NEW b \in BOOLEAN
  PROVE  LET r == [h EXCEPT !.sound = @ /\ b]
         IN  /\ r.sectors = h.sectors /\ r.max_size = h.max_size /\ r.number = h.number
             /\ r.written = h.written /\ (r.sound => h.sound /\ b)
BY DEF FileRecord

\* Where an accepted write goes.
LEMMA AcceptedWrite ==
  ASSUME IInv, NameInv, FileInv, NEW f \in Fds, NEW sz \in Sizes, Accepted(f, sz)
  PROVE  LET e == files[f].entry
         IN  /\ e \in Entries /\ sz \in Nat \ {0}
             /\ files[f].fileptr \in Nat /\ files[f].fileptr = spifiles[e].written
             /\ spifiles[e].written + sz <= spifiles[e].max_size
             /\ InFile(e, files[f].fileptr, sz)
<1> DEFINE e == files[f].entry
<1>1. /\ files[f].state = "open" /\ files[f].fileptr >= spifiles[e].written
      /\ spifiles[e].written + sz <= spifiles[e].max_size
  BY DEF Accepted
<1>2. e \in Entries /\ sz \in Nat \ {0}
  BY <1>1, FlashConstants DEF NameInv, NamedFd
<1>3. files[f].fileptr \in Nat /\ files[f].fileptr <= spifiles[e].written
  BY <1>1 DEF FileInv, FdLength
<1>4. /\ spifiles[e].written \in Nat /\ spifiles[e].max_size \in Nat
      /\ spifiles[e].max_size <= Len(Owned(e)) * DataSize
  BY <1>2 DEF FileInv, Lengths
<1>5. Len(Owned(e)) * DataSize \in Nat
  <2>1. Owned(e) \in Seq(Sectors)
    BY <1>2 DEF IInv, TypeInv
  <2>2. Len(Owned(e)) \in Nat
    BY <2>1
  <2> QED
    BY <2>2, FlashConstants
<1> DEFINE room == Len(Owned(e)) * DataSize
<1> HIDE DEF e, room
<1>6. files[f].fileptr = spifiles[e].written
  BY <1>1, <1>3, <1>4
<1>7. files[f].fileptr + sz <= room
  BY <1>1, <1>2, <1>4, <1>5, <1>6 DEF room
<1> QED
  BY <1>1, <1>2, <1>3, <1>6, <1>7 DEF e, room, InFile

\* A place is a number.
LEMMA PlaceNat ==
  ASSUME NEW i \in Nat \ {0}, NEW a \in Nat
  PROVE  Place(i, a) \in Nat
<1>1. (i - 1) * DataSize \in Nat
  BY FlashConstants
<1> QED
  BY <1>1 DEF Place

\* The file that is written, whether or not to the end.
LEMMA FileWritten ==
  ASSUME IInv, FileInv, NEW e \in Entries, NEW ptr \in Nat, NEW sz \in Nat \ {0},
         NEW align \in Aligns, InFile(e, ptr, sz), NEW c \in Int, NEW j \in Nat,
         Writes(e, ptr, sz, align, c, j), ptr = spifiles[e].written,
         spifiles'[e].sectors = spifiles[e].sectors,
         spifiles'[e].max_size = spifiles[e].max_size,
         spifiles'[e].number = spifiles[e].number,
         spifiles'[e].written \in {ptr, ptr + sz},
         spifiles'[e].written <= spifiles[e].max_size,
         spifiles'[e].written = ptr + sz => c > Len(Segments(ptr, sz)),
         spifiles'[e].sound => spifiles[e].sound /\ Straight(ptr, sz, align)
  PROVE  Lengths(e)' /\ Contents(e)'
<1>1. Owned(e)' = Owned(e)
  BY DEF Owned
<1>2. Lengths(e) /\ Contents(e) /\ DataType
  BY DEF FileInv
<1>3. Lengths(e)'
  BY <1>1, <1>2 DEF Lengths
<1>4. Contents(e)'
  <2> SUFFICES ASSUME spifiles'[e].sound, NEW i \in DOMAIN Owned(e), NEW a \in 0 .. DataSize - 1
               PROVE  /\ data'[Owned(e)[i]][a] \in {Erased, Want(e, i, a)}
                      /\ Place(i, a) < spifiles'[e].written =>
                           data'[Owned(e)[i]][a] = Want(e, i, a)
    BY <1>1 DEF Contents, Want
  <2>1. /\ Fits(e, i, a)
        /\ Place(i, a) < spifiles[e].written => data[Owned(e)[i]][a] = Want(e, i, a)
    BY <1>2 DEF Contents, Want, Fits
  <2>2. align \in Nat
    BY FlashConstants
  <2>3. BytesStored(e, ptr, sz, c, i, a)
    BY <1>2, <2>1, <2>2, StoredBytes
  <2>4. Place(i, a) \in Nat
    <3>1. i \in Nat \ {0}
      BY DEF IInv, TypeInv
    <3>2. a \in Nat
      OBVIOUS
    <3> QED
      BY <3>1, <3>2, PlaceNat
  <2>5. ASSUME Place(i, a) < spifiles'[e].written
        PROVE  data'[Owned(e)[i]][a] = Want(e, i, a)
    <3>1. CASE Place(i, a) < ptr
      BY <2>1, <2>3, <3>1 DEF BytesStored
    <3>2. CASE ~(Place(i, a) < ptr)
      <4>1. spifiles'[e].written = ptr + sz
        BY <2>4, <2>5, <3>2
      <4>2. Place(i, a) \in ptr .. ptr + sz - 1
        BY <2>4, <2>5, <3>2, <4>1
      <4> QED
        BY <2>3, <4>1, <4>2 DEF BytesStored
    <3> QED
      BY <3>1, <3>2
  <2> QED
    BY <2>3, <2>5 DEF BytesStored
<1> QED
  BY <1>3, <1>4

\* The other files.
LEMMA OthersKept ==
  ASSUME IInv, FileInv, NEW e \in Entries, NEW ptr \in Nat, NEW sz \in Nat \ {0},
         NEW align, InFile(e, ptr, sz), NEW c \in Int, NEW j \in Nat,
         Stored(spifiles[e], ptr, sz, align, c, j), Stops(e, ptr, sz, align, c, j),
         NEW d \in Entries, d # e, spifiles'[d] = spifiles[d]
  PROVE  Lengths(d)' /\ Contents(d)'
<1>1. \A s \in Sectors : (\A i \in DOMAIN Owned(e) : Owned(e)[i] # s) => data'[s] = data[s]
  BY StoredData DEF FileInv
<1>2. ASSUME NEW i \in DOMAIN Owned(d) PROVE data'[Owned(d)[i]] = data[Owned(d)[i]]
  <2>1. Owned(d)[i] \in Sectors
    BY DEF IInv, TypeInv
  <2>2. \A k \in DOMAIN Owned(e) : Owned(e)[k] # Owned(d)[i]
    BY DEF IInv, OwnedDiffers
  <2> QED
    BY <1>1, <2>1, <2>2
<1> QED
  BY <1>2, FileStays DEF FileInv

\* The entry of a file after a write of which n bytes of it are known.
Recorded(e, ptr, sz, align, n) ==
  /\ spifiles'[e].sectors = spifiles[e].sectors
  /\ spifiles'[e].max_size = spifiles[e].max_size
  /\ spifiles'[e].number = spifiles[e].number
  /\ spifiles'[e].written = n
  /\ spifiles'[e].sound => spifiles[e].sound /\ Straight(ptr, sz, align)

\* An advanced descriptor.
LEMMA AdvancedFd ==
  ASSUME NameInv, NEW f \in Fds, NEW done \in Int, files' = Advanced(f, done), NEW g \in Fds
  PROVE  /\ files'[g].state = files[g].state /\ files'[g].entry = files[g].entry
         /\ files'[g].fileptr = IF g = f THEN files[g].fileptr + done ELSE files[g].fileptr
<1>1. files \in [Fds -> FdRecord]
  BY DEF NameInv, Records
<1> DEFINE r == [files[f] EXCEPT !.fileptr = @ + done]
<1>2. /\ r.state = files[f].state /\ r.entry = files[f].entry
      /\ r.fileptr = files[f].fileptr + done
  BY <1>1 DEF FdRecord
<1>3. files' = [files EXCEPT ![f] = r]
  BY DEF Advanced
<1> HIDE DEF r
<1>4. files'[g] = IF g = f THEN r ELSE files[g]
  BY <1>1, <1>3
<1> QED
  BY <1>2, <1>4

\* A write, to its end or until the flash stops, of which the file has its length.
LEMMA FilesWrite ==
  ASSUME IInv, NameInv, FileInv, NEW f \in Fds, NEW sz \in Nat \ {0}, NEW align \in Aligns,
         NEW e \in Entries, NEW ptr \in Nat, InFile(e, ptr, sz),
         files[f].entry = e, files[f].fileptr = ptr, spifiles[e].written = ptr,
         NEW c \in Int, NEW j \in Nat, Writes(e, ptr, sz, align, c, j),
         NEW n \in {ptr, ptr + sz}, n <= spifiles[e].max_size,
         n = ptr + sz => c > Len(Segments(ptr, sz)),
         \A d \in Entries : d # e => spifiles'[d] = spifiles[d],
         Recorded(e, ptr, sz, align, n),
         files' = Advanced(f, n - ptr), created' = created
  PROVE  FileInv'
<1>1. Stored(spifiles[e], ptr, sz, align, c, j) /\ Stops(e, ptr, sz, align, c, j)
  BY DEF Writes
<1>2. DataType' /\ created' \in Nat
  BY <1>1, StoredData DEF FileInv
<1>3. Lengths(e)' /\ Contents(e)'
  <2>1. /\ spifiles'[e].sectors = spifiles[e].sectors
        /\ spifiles'[e].max_size = spifiles[e].max_size
        /\ spifiles'[e].number = spifiles[e].number
        /\ spifiles'[e].written \in {ptr, ptr + sz}
        /\ spifiles'[e].written <= spifiles[e].max_size
        /\ spifiles'[e].written = ptr + sz => c > Len(Segments(ptr, sz))
        /\ spifiles'[e].sound => spifiles[e].sound /\ Straight(ptr, sz, align)
    BY DEF Recorded
  <2> QED
    BY <2>1, FileWritten
<1>4. \A d \in Entries : d # e => Lengths(d)' /\ Contents(d)'
  BY <1>1, OthersKept
<1>5. \A d \in Entries : Lengths(d)' /\ Contents(d)'
  BY <1>3, <1>4, Zenon
<1>6. ASSUME NEW g \in Fds PROVE FdLength(g)'
  <2>1. n - ptr \in Int
    OBVIOUS
  <2>2. /\ files'[g].state = files[g].state /\ files'[g].entry = files[g].entry
        /\ files'[g].fileptr = IF g = f THEN files[g].fileptr + (n - ptr) ELSE files[g].fileptr
    BY <2>1, AdvancedFd
  <2> SUFFICES ASSUME files[g].state = "open"
               PROVE  files'[g].fileptr \in Nat
                      /\ files'[g].fileptr <= spifiles'[files[g].entry].written
    BY <2>2 DEF FdLength
  <2>3. /\ files[g].entry \in Entries /\ files[g].fileptr \in Nat
        /\ files[g].fileptr <= spifiles[files[g].entry].written
    BY DEF NameInv, NamedFd, FileInv, FdLength
  <2>4. spifiles'[e].written = n /\ ptr <= n
    BY DEF Recorded
  <2>5. CASE g = f
    BY <2>2, <2>4, <2>5
  <2>6. CASE g # f /\ files[g].entry = e
    BY <2>2, <2>3, <2>4, <2>6
  <2>7. CASE g # f /\ files[g].entry # e
    BY <2>2, <2>3, <2>7
  <2> QED
    BY <2>5, <2>6, <2>7
<1> QED
  BY <1>2, <1>5, <1>6 DEF FileInv

\* A write that is misplaced is known to be.
LEMMA StraightIs ==
  ASSUME NEW f, NEW sz, NEW align, files[f].fileptr \in Nat, sz \in Nat \ {0},
         ~Misplaced(f, sz, align)
  PROVE  Straight(files[f].fileptr, sz, align)
<1>1. DOMAIN Segments(files[f].fileptr, sz) = 1 .. Len(Segments(files[f].fileptr, sz))
  BY SegmentParts
<1> QED
  BY <1>1 DEF Misplaced, Straight

\* A write that succeeds.
LEMMA FilesWriteWhole ==
  ASSUME IInv, NameInv, FileInv, NEW f \in Fds, NEW sz \in Sizes, NEW align \in Aligns,
         Write(f, sz, align)
  PROVE  FileInv'
<1> DEFINE e   == files[f].entry
           ptr == files[f].fileptr
           b   == ~Misplaced(f, sz, align)
           segs == Segments(ptr, sz)
<1>1. /\ Accepted(f, sz)
      /\ \A i \in DOMAIN segs : ~SegmentCrashes(align, segs[i])
      /\ Stored(spifiles[e], ptr, sz, align, Len(segs) + 1, 0)
      /\ spifiles' = [spifiles EXCEPT
           ![e].written = @ + sz, ![e].closed = FALSE, ![e].sound = @ /\ b]
      /\ files' = Advanced(f, sz) /\ created' = created
  BY DEF Write
<1>2. /\ e \in Entries /\ sz \in Nat \ {0} /\ ptr \in Nat /\ ptr = spifiles[e].written
  BY <1>1, AcceptedWrite
<1>3. spifiles \in [Entries -> FileRecord] /\ spifiles[e] \in FileRecord
  BY <1>2 DEF NameInv, Records
<1> DEFINE n == spifiles[e].written + sz
<1>4. spifiles' = [spifiles EXCEPT ![e] =
        [spifiles[e] EXCEPT !.written = n, !.closed = FALSE, !.sound = @ /\ b]]
  BY <1>1, <1>2, <1>3
<1>5. n \in Int /\ n - spifiles[e].written = sz
  BY <1>2
<1>6. b \in BOOLEAN
  OBVIOUS
<1> HIDE DEF b, n
<1>7. b => Straight(ptr, sz, align)
  BY <1>2, StraightIs DEF b
<1>8. (\A d \in Entries : d # e => spifiles'[d] = spifiles[d]) /\ Recorded(e, ptr, sz, align, n)
  <2> DEFINE r == [spifiles[e] EXCEPT !.written = n, !.closed = FALSE, !.sound = @ /\ b]
  <2>1. /\ r.sectors = spifiles[e].sectors /\ r.max_size = spifiles[e].max_size
        /\ r.number = spifiles[e].number
        /\ r.written = n /\ (r.sound => spifiles[e].sound /\ b)
    BY <1>3, <1>5, <1>6, WrittenLengths
  <2>2. spifiles' = [spifiles EXCEPT ![e] = r]
    BY <1>4
  <2> HIDE DEF r
  <2>3. spifiles'[e] = r /\ \A d \in Entries : d # e => spifiles'[d] = spifiles[d]
    BY <1>2, <1>3, <2>2
  <2>4. spifiles'[e].sound => spifiles[e].sound /\ b
    BY <2>1, <2>3, Zenon
  <2>5. /\ spifiles'[e].sectors = spifiles[e].sectors
        /\ spifiles'[e].max_size = spifiles[e].max_size
        /\ spifiles'[e].number = spifiles[e].number /\ spifiles'[e].written = n
    BY <2>1, <2>3
  <2> QED
    BY <1>7, <2>3, <2>4, <2>5, Zenon DEF Recorded
<1>9. Writes(e, ptr, sz, align, Len(segs) + 1, 0) /\ Len(segs) \in Nat
  <2>1. Len(segs) \in Nat /\ DOMAIN segs = 1 .. Len(segs)
    BY <1>2, SegmentParts
  <2>2. Stops(e, ptr, sz, align, Len(segs) + 1, 0)
    BY <2>1 DEF Stops
  <2> QED
    BY <1>1, <2>1, <2>2 DEF Writes
<1>10. /\ n \in {ptr, ptr + sz} /\ n <= spifiles[e].max_size /\ n - ptr = sz
       /\ InFile(e, ptr, sz)
  BY <1>1, <1>2, <1>5, AcceptedWrite DEF n
<1>11. Len(segs) + 1 \in Int /\ 0 \in Nat /\ Len(segs) + 1 > Len(segs)
  BY <1>9
<1>12. files' = Advanced(f, n - ptr) /\ created' = created
  BY <1>1, <1>10
<1> HIDE DEF segs
<1> QED
  <2>1. Len(Segments(files[f].fileptr, sz)) = Len(segs)
    BY DEF segs
  <2> QED
    BY <1>2, <1>8, <1>9, <1>10, <1>11, <1>12, <2>1, FilesWrite

\* A write after some of whose calls the flash refuses one.
LEMMA FilesWriteFails ==
  ASSUME IInv, NameInv, FileInv, NEW f \in Fds, NEW sz \in Sizes, NEW align \in Aligns,
         WriteFails(f, sz, align)
  PROVE  FileInv'
<1> DEFINE e   == files[f].entry
           ptr == files[f].fileptr
           b   == ~Misplaced(f, sz, align)
           segs == Segments(ptr, sz)
<1>1. /\ Accepted(f, sz)
      /\ spifiles' = [spifiles EXCEPT ![e].sound = @ /\ b]
      /\ files' = files /\ created' = created
  BY DEF WriteFails
<1>2. PICK c \in DOMAIN segs :
        /\ \A i \in 1 .. c : ~SegmentCrashes(align, segs[i])
        /\ \E j \in 0 .. Len(CallsOf(spifiles[e], ptr, align, segs[c])) - 1 :
             Stored(spifiles[e], ptr, sz, align, c, j)
  BY DEF WriteFails
<1>3. PICK j \in 0 .. Len(CallsOf(spifiles[e], ptr, align, segs[c])) - 1 :
        Stored(spifiles[e], ptr, sz, align, c, j)
  BY <1>2
<1>4. /\ e \in Entries /\ sz \in Nat \ {0} /\ ptr \in Nat /\ ptr = spifiles[e].written
  BY <1>1, AcceptedWrite
<1>5. spifiles \in [Entries -> FileRecord] /\ spifiles[e] \in FileRecord
      /\ files \in [Fds -> FdRecord]
  BY <1>4 DEF NameInv, Records
<1>6. b \in BOOLEAN /\ (b => Straight(ptr, sz, align))
  BY <1>4, StraightIs
<1>7. Len(segs) \in Nat /\ c \in 1 .. Len(segs)
  BY <1>4, SegmentParts
<1>8. Len(CallsOf(spifiles[e], ptr, align, segs[c])) \in Nat
  BY <1>4, <1>7, CallsOfPart
<1> HIDE DEF segs, b
<1>9. Writes(e, ptr, sz, align, c, j)
  <2>1. Stops(e, ptr, sz, align, c, j)
    BY <1>3, <1>8 DEF Stops, segs
  <2>2. \A x \in 1 .. Len(Segments(ptr, sz)) :
          x <= c => ~SegmentCrashes(align, Segments(ptr, sz)[x])
    <3>1. \A x \in 1 .. Len(segs) : x <= c => x \in 1 .. c
      BY <1>7
    <3> QED
      BY <1>2, <3>1 DEF segs
  <2> QED
    BY <1>3, <2>1, <2>2 DEF Writes
<1>10. (\A d \in Entries : d # e => spifiles'[d] = spifiles[d]) /\ Recorded(e, ptr, sz, align, ptr)
  <2> DEFINE r == [spifiles[e] EXCEPT !.sound = @ /\ b]
  <2>1. /\ r.sectors = spifiles[e].sectors /\ r.max_size = spifiles[e].max_size
        /\ r.number = spifiles[e].number
        /\ r.written = spifiles[e].written /\ (r.sound => spifiles[e].sound /\ b)
    BY <1>5, <1>6, FailedLengths
  <2>2. spifiles' = [spifiles EXCEPT ![e] = r]
    BY <1>1
  <2> HIDE DEF r
  <2>3. spifiles'[e] = r /\ \A d \in Entries : d # e => spifiles'[d] = spifiles[d]
    BY <1>4, <1>5, <2>2
  <2>4. spifiles'[e].sound => spifiles[e].sound /\ b
    BY <2>1, <2>3, Zenon
  <2>5. /\ spifiles'[e].sectors = spifiles[e].sectors
        /\ spifiles'[e].max_size = spifiles[e].max_size
        /\ spifiles'[e].number = spifiles[e].number /\ spifiles'[e].written = ptr
    BY <1>4, <2>1, <2>3
  <2> QED
    BY <1>4, <1>6, <2>3, <2>4, <2>5, Zenon DEF Recorded
<1>11. files' = Advanced(f, 0)
  <2>1. \A h \in FdRecord : [h EXCEPT !.fileptr = @ + 0] = h
    BY DEF FdRecord
  <2> QED
    BY <1>1, <1>5, <2>1 DEF Advanced
<1>12. j \in Nat /\ c \in Int
  BY <1>7, <1>8
<1>13. /\ ptr - ptr = 0 /\ ptr # ptr + sz /\ ptr <= spifiles[e].max_size
       /\ InFile(e, ptr, sz) /\ ptr \in {ptr, ptr + sz}
  <2>1. spifiles[e].max_size \in Nat
    BY <1>4 DEF FileInv, Lengths
  <2>2. ptr + sz <= spifiles[e].max_size /\ InFile(e, ptr, sz)
    BY <1>1, <1>4, AcceptedWrite
  <2> QED
    BY <1>4, <2>1, <2>2
<1>14. files' = Advanced(f, ptr - ptr) /\ created' = created
  BY <1>1, <1>11, <1>13
<1> QED
  BY <1>4, <1>9, <1>10, <1>12, <1>13, <1>14, FilesWrite

\* A write in the middle of which the processor faults.
LEMMA FilesWriteFaults ==
  ASSUME IInv, NameInv, FileInv, NEW f \in Fds, NEW sz \in Sizes, NEW align \in Aligns,
         WriteFaults(f, sz, align)
  PROVE  FileInv'
<1> DEFINE e   == files[f].entry
           ptr == files[f].fileptr
           segs == Segments(ptr, sz)
           bad == {i \in DOMAIN segs : SegmentCrashes(align, segs[i])}
<1>1. /\ Accepted(f, sz) /\ bad # {} /\ Restarted
      /\ Stored(spifiles[e], ptr, sz, align, Least(bad), 0)
  BY DEF WriteFaults
<1>2. e \in Entries /\ sz \in Nat \ {0} /\ ptr \in Nat /\ InFile(e, ptr, sz)
  BY <1>1, AcceptedWrite
<1>3. Len(segs) \in Nat /\ DOMAIN segs = 1 .. Len(segs)
  BY <1>2, SegmentParts
<1>4. Least(bad) \in 1 .. Len(segs)
  <2>1. bad \in SUBSET Nat
    BY <1>3
  <2>2. Least(bad) \in bad
    BY <1>1, <2>1, LeastIsOne
  <2> QED
    BY <1>3, <2>2
<1> DEFINE c == Least(bad)
<1> HIDE DEF bad, c
<1>5. Stops(e, ptr, sz, align, c, 0)
  <2>1. \A x \in 1 .. Len(Segments(ptr, sz)) :
          0 <= Len(CallsOf(spifiles[e], ptr, align, Segments(ptr, sz)[x]))
    <3> SUFFICES ASSUME NEW x \in 1 .. Len(Segments(ptr, sz))
                 PROVE  0 <= Len(CallsOf(spifiles[e], ptr, align, Segments(ptr, sz)[x]))
      OBVIOUS
    <3>1. Len(CallsOf(spifiles[e], ptr, align, Segments(ptr, sz)[x])) \in Nat
      BY <1>2, CallsOfPart
    <3> QED
      BY <3>1
  <2> QED
    BY <2>1 DEF Stops
<1>6. DataType'
  <2>1. Stored(spifiles[e], ptr, sz, align, c, 0) /\ c \in Int /\ 0 \in Nat
    BY <1>1, <1>4 DEF c
  <2> QED
    BY <1>2, <1>5, <2>1, StoredData DEF FileInv
<1> QED
  BY <1>1, <1>6, FilesRestart

\* A descriptor that is opened is at the start of its file.
LEMMA FilesOpensExisting ==
  ASSUME NameInv, FileInv, NEW n \in Names, OpenExisting(n)
  PROVE  FileInv'
<1>1. PICK blind \in SUBSET Entries :
        /\ FreeFds # {} /\ Found(n, blind) # {}
        /\ files' = Opened(n, Least(Found(n, blind)))
        /\ UNCHANGED <<spifiles, data, created>>
  BY DEF OpenExisting
<1> DEFINE e == Least(Found(n, blind))
<1>2. e \in Entries
  <2>1. Found(n, blind) \in SUBSET Nat
    BY DEF Found, Entries
  <2>2. e \in Found(n, blind)
    BY <1>1, <2>1, LeastIsOne
  <2> QED
    BY <2>2 DEF Found
<1>3. Slot \in Fds
  <2>1. FreeFds \in SUBSET Nat
    BY DEF FreeFds, Fds
  <2> QED
    BY <1>1, <2>1, LeastIsOne DEF Slot, FreeFds
<1> HIDE DEF e
<1>4. /\ files'[Slot] = [state |-> "open", path |-> n, entry |-> e, fileptr |-> 0]
      /\ \A f \in Fds : f # Slot => files'[f] = files[f]
  BY <1>1, <1>3 DEF Opened, e, NameInv, Records
<1>5. ASSUME NEW f \in Fds PROVE FdLength(f)'
  <2>1. CASE f = Slot
    <3>1. spifiles[e].written \in Nat
      BY <1>2 DEF FileInv, Lengths
    <3> QED
      BY <1>1, <1>4, <2>1, <3>1 DEF FdLength
  <2>2. CASE f # Slot
    BY <1>1, <1>4, <2>2 DEF FileInv, FdLength
  <2> QED
    BY <2>1, <2>2
<1> QED
  BY <1>1, <1>5, FilesStay

\* A descriptor that is closed, or lost.
LEMMA FilesClose ==
  ASSUME NameInv, FileInv, NEW f \in Fds, Close(f) \/ CloseFails(f)
  PROVE  FileInv'
<1>1. spifiles \in [Entries -> FileRecord] /\ files \in [Fds -> FdRecord]
      /\ data' = data /\ created' = created
  BY DEF NameInv, Records, Close, CloseFails
<1>2. \/ spifiles' = spifiles
      \/ spifiles' = [spifiles EXCEPT ![files[f].entry].closed = TRUE]
  BY DEF Close, CloseFails
<1>3. \A e \in Entries :
        /\ spifiles'[e].sectors = spifiles[e].sectors
        /\ spifiles'[e].written = spifiles[e].written
        /\ spifiles'[e].max_size = spifiles[e].max_size
        /\ spifiles'[e].number = spifiles[e].number
        /\ spifiles'[e].sound = spifiles[e].sound
  <2>1. \A h \in FileRecord : LET r == [h EXCEPT !.closed = TRUE]
                              IN  /\ r.sectors = h.sectors /\ r.written = h.written
                                  /\ r.max_size = h.max_size /\ r.number = h.number
                                  /\ r.sound = h.sound
    BY DEF FileRecord
  <2>2. ASSUME NEW d, spifiles' = [spifiles EXCEPT ![d].closed = TRUE], NEW e \in Entries
        PROVE  spifiles'[e] = spifiles[e] \/ spifiles'[e] = [spifiles[e] EXCEPT !.closed = TRUE]
    BY <1>1, <2>2
  <2>3. ASSUME NEW e \in Entries
        PROVE  spifiles'[e] = spifiles[e] \/ spifiles'[e] = [spifiles[e] EXCEPT !.closed = TRUE]
    BY <1>2, <2>2
  <2>4. \A e \in Entries : spifiles[e] \in FileRecord
    BY <1>1
  <2> QED
    BY <2>1, <2>3, <2>4
<1>4. ASSUME NEW g \in Fds PROVE FdLength(g)'
  <2>1. files'[g] = files[g] \/ files'[g].state # "open"
    <3>1. CASE Close(f)
      <4>1. files' = [files EXCEPT ![f] = FreeFd] /\ FreeFd.state # "open"
        <5>1. files' = [files EXCEPT ![f] = FreeFd]
          BY <3>1 DEF Close
        <5>2. FreeFd.state # "open"
          BY DEF FreeFd
        <5> QED
          BY <5>1, <5>2
      <4> QED
        BY <1>1, <4>1
    <3>2. CASE CloseFails(f)
      <4>1. \A h \in FdRecord : [h EXCEPT !.state = "lost"].state = "lost"
        BY DEF FdRecord
      <4> QED
        BY <1>1, <3>2, <4>1 DEF CloseFails
    <3> QED
      BY <3>1, <3>2
  <2>2. CASE files'[g].state # "open"
    BY <2>2 DEF FdLength
  <2>3. CASE files'[g] = files[g]
    <3>1. files[g].state = "open" => files[g].entry \in Entries
      BY DEF NameInv, NamedFd
    <3> QED
      BY <1>3, <2>3, <3>1 DEF FileInv, FdLength
  <2> QED
    BY <2>1, <2>2, <2>3
<1> QED
  BY <1>1, <1>3, <1>4, FilesStay

\* What can be read of a file was written.
LEMMA ReadWritten ==
  ASSUME NameInv, FileInv, NEW f \in Fds, NEW sz \in Sizes, NEW align,
         ReadSucceeds(f, sz, align)
  PROVE  LET e == files[f].entry
         IN  /\ e \in Entries /\ files[f].fileptr \in Nat
             /\ Readable(f, sz) \in Nat \ {0}
             /\ files[f].fileptr + Readable(f, sz) <= spifiles[e].written
<1> DEFINE e == files[f].entry
<1>1. files[f].state = "open" /\ Readable(f, sz) > 0
  BY DEF ReadSucceeds
<1>2. e \in Entries /\ sz \in Nat
  BY <1>1, FlashConstants DEF NameInv, NamedFd
<1>3. files[f].fileptr \in Nat /\ spifiles[e].written \in Nat
  BY <1>1, <1>2 DEF FileInv, FdLength, Lengths
<1> QED
  BY <1>1, <1>2, <1>3 DEF Readable, Min2

\* A read moves the descriptor, to the end of the file at most.
LEMMA FilesRead ==
  ASSUME NameInv, FileInv, NEW f \in Fds, NEW sz \in Sizes, NEW align, Read(f, sz, align)
  PROVE  FileInv'
<1> DEFINE done == Readable(f, sz)
<1>1. /\ ReadSucceeds(f, sz, align) /\ files' = Advanced(f, done)
      /\ UNCHANGED <<spifiles, data, created>>
  BY DEF Read
<1>2. /\ files[f].fileptr \in Nat /\ done \in Nat
      /\ files[f].fileptr + done <= spifiles[files[f].entry].written
  BY <1>1, ReadWritten
<1> HIDE DEF done
<1>3. ASSUME NEW g \in Fds PROVE FdLength(g)'
  <2>1. /\ files'[g].state = files[g].state /\ files'[g].entry = files[g].entry
        /\ files'[g].fileptr = IF g = f THEN files[g].fileptr + done ELSE files[g].fileptr
    BY <1>1, <1>2, AdvancedFd
  <2> SUFFICES ASSUME files[g].state = "open"
               PROVE  files'[g].fileptr \in Nat
                      /\ files'[g].fileptr <= spifiles[files[g].entry].written
    BY <1>1, <2>1 DEF FdLength
  <2>2. files[g].fileptr \in Nat /\ files[g].fileptr <= spifiles[files[g].entry].written
    BY DEF FileInv, FdLength
  <2>3. CASE g = f
    BY <1>2, <2>1, <2>3
  <2>4. CASE g # f
    BY <2>1, <2>2, <2>4
  <2> QED
    BY <2>3, <2>4
<1> QED
  BY <1>1, <1>3, FilesStay

\* Every step keeps the files.
LEMMA FilesStep ==
  ASSUME IInv, NameInv, FileInv, [Next]_vars
  PROVE  FileInv'
<1>1. CASE UNCHANGED vars
  <2>1. \A f \in Fds : FdLength(f)'
    BY <1>1 DEF vars, FileInv, FdLength
  <2> QED
    BY <1>1, <2>1, FilesStay DEF vars
<1>2. ASSUME NEW n \in Names, OpenExisting(n) PROVE FileInv'
  BY <1>2, FilesOpensExisting
<1>3. ASSUME NEW n \in Names, NEW m \in MaxSizes, OpenNew(n, m) PROVE FileInv'
  BY <1>3, FilesNew
<1>4. ASSUME NEW n \in Names, NEW e \in Entries, ClosedByCaller(e), RemoveFile(n, e)
      PROVE  FileInv'
  BY <1>4, FilesRemove
<1>5. ASSUME NEW f \in Fds, Close(f) \/ CloseFails(f) PROVE FileInv'
  BY <1>5, FilesClose
<1>6. ASSUME NEW f \in Fds, NEW sz \in Sizes, NEW align \in Aligns,
             \/ Write(f, sz, align) \/ WriteFails(f, sz, align)
             \/ WriteFaults(f, sz, align) \/ Read(f, sz, align)
      PROVE  FileInv'
  <2>1. CASE Write(f, sz, align)
    BY <2>1, FilesWriteWhole
  <2>2. CASE WriteFails(f, sz, align)
    BY <2>2, FilesWriteFails
  <2>3. CASE WriteFaults(f, sz, align)
    BY <2>3, FilesWriteFaults
  <2>4. CASE Read(f, sz, align)
    BY <2>4, FilesRead
  <2> QED
    BY <1>6, <2>1, <2>2, <2>3, <2>4
<1>7. CASE Restart
  <2>1. Restarted /\ DataType'
    BY <1>7 DEF Restart, FileInv, DataType
  <2> QED
    BY <2>1, FilesRestart
<1> QED
  BY <1>1, <1>2, <1>3, <1>4, <1>5, <1>6, <1>7 DEF Next

\* A byte that was written is in its sector.
LEMMA WrittenByte ==
  ASSUME IInv, FileInv, NEW e \in Entries, spifiles[e].sound,
         NEW k \in 0 .. spifiles[e].written - 1
  PROVE  Byte(spifiles[e], k) = Data(spifiles[e].number, k)
<1> DEFINE i == k \div DataSize + 1
           a == k % DataSize
<1>1. DataSize \in Nat \ {0} /\ k \in Nat
  BY FlashConstants
<1>2. /\ spifiles[e].written \in Nat /\ spifiles[e].written <= spifiles[e].max_size
      /\ spifiles[e].max_size \in Nat /\ spifiles[e].max_size <= Len(Owned(e)) * DataSize
  BY DEF FileInv, Lengths
<1>3. Len(Owned(e)) \in Nat /\ DOMAIN Owned(e) = 1 .. Len(Owned(e))
  <2>1. Owned(e) \in Seq(Sectors)
    BY DEF IInv, TypeInv
  <2> QED
    BY <2>1
<1>4. /\ k = DataSize * (k \div DataSize) + a /\ k \div DataSize \in Nat
      /\ a \in 0 .. DataSize - 1
  BY <1>1, Divided
<1> DEFINE q == k \div DataSize
<1> HIDE DEF q, a
<1>5. q \in Nat /\ k = q * DataSize + a /\ i = q + 1 /\ q * DataSize \in Nat
  <2>1. q \in Nat /\ q = k \div DataSize
    BY <1>4 DEF q
  <2>2. k = DataSize * q + a
    BY <1>4, <2>1
  <2> QED
    BY <1>1, <1>4, <2>1, <2>2
<1> HIDE DEF i
<1>6. i \in DOMAIN Owned(e)
  <2> DEFINE n == Len(Owned(e))
             room == n * DataSize
             low == q * DataSize
  <2>1. room \in Nat /\ low \in Nat /\ low <= k /\ k < room
    <3>1. room \in Nat
      BY <1>1, <1>3
    <3>2. low \in Nat /\ k = low + a
      BY <1>5
    <3>3. spifiles[e].max_size <= room
      BY <1>2
    <3> HIDE DEF room, low
    <3> QED
      BY <1>1, <1>2, <1>4, <3>1, <3>2, <3>3
  <2>2. q < n
    <3> SUFFICES ASSUME n <= q PROVE FALSE
      BY <1>3, <1>5
    <3>1. room <= low
      BY <1>1, <1>3, <1>5
    <3> HIDE DEF room, low
    <3> QED
      BY <2>1, <3>1
  <2> QED
    BY <1>3, <1>5, <2>2
<1>7. Place(i, a) = k
  <2>1. i - 1 = q
    BY <1>5
  <2> QED
    BY <1>5, <2>1 DEF Place
<1>8. Contents(e)
  BY DEF FileInv
<1>9. data[Owned(e)[i]][a] = Data(spifiles[e].number, k)
  <2>1. k < spifiles[e].written
    BY <1>1, <1>2
  <2> QED
    BY <1>4, <1>6, <1>7, <1>8, <2>1 DEF Contents
<1> QED
  BY <1>9 DEF Byte, Owned, i, a

-----------------------------------------------------------------------------
(* Reading *)

\* What a read copies that fetches the word of its last byte.
LEMMA FetchedBytes ==
  ASSUME NEW d, NEW at \in Nat, NEW al, NEW n \in Nat,
         al = at % 4 \/ (at + n - 1) % 4 # 0, NEW m \in 1 .. n
  PROVE  FlashRead(d, at, al, n)[m] = d[at + m - 1]
<1>1. CASE al = at % 4
  BY <1>1 DEF FlashRead
<1>2. CASE al # at % 4
  <2>1. at + m - 1 < AlignNext(at + n - 1)
    <3> DEFINE x == at + n - 1
    <3>1. x \in Nat /\ at + m - 1 <= x
      OBVIOUS
    <3>2. x % 4 # 0
      BY <1>2
    <3> HIDE DEF x
    <3>3. x < AlignNext(x) /\ AlignNext(x) \in Int
      BY <3>1, <3>2 DEF AlignNext, AlignPrev
    <3> QED
      BY <3>1, <3>3 DEF x
  <2>2. FlashRead(d, at, al, n) = SlowFlashRead(d, at, n)
    BY <1>2 DEF FlashRead
  <2>3. SlowFlashRead(d, at, n)[m] = d[at + m - 1]
    BY <2>1 DEF SlowFlashRead
  <2> QED
    BY <2>2, <2>3
<1> QED
  BY <1>1, <1>2

\* Every byte that is read is of a part.
LEMMA ByteHasPart ==
  ASSUME NEW ptr \in Nat, NEW n \in Nat \ {0}, NEW i \in 1 .. n
  PROVE  \E j \in 1 .. Len(Segments(ptr, n)) :
           i \in Segments(ptr, n)[j].from + 1 .. Segments(ptr, n)[j].from + Segments(ptr, n)[j].sz
<1> DEFINE k == ptr + i - 1
           q == k \div DataSize
           a == k % DataSize
           segs == Segments(ptr, n)
<1>1. DataSize \in Nat \ {0} /\ k \in Nat
  BY FlashConstants
<1> HIDE DEF k
<1>2. k = DataSize * q + a /\ q \in Nat /\ a \in 0 .. DataSize - 1
  BY <1>1, Divided
<1> HIDE DEF q, a
<1>3. Place(q + 1, a) = k /\ q + 1 \in Nat \ {0}
  <2>1. q + 1 - 1 = q /\ DataSize * q = q * DataSize
    BY <1>1, <1>2
  <2> QED
    BY <1>2, <2>1 DEF Place
<1>4. k \in ptr .. ptr + n - 1
  BY DEF k
<1>5. PICK j \in 1 .. Len(segs) : HasPlace(segs[j], q + 1, a)
  <2>1. \A x \in Nat \ {0}, b \in 0 .. DataSize - 1 :
          Place(x, b) \in ptr .. ptr + n - 1 =>
            \E j \in 1 .. Len(segs) : HasPlace(segs[j], x, b)
    BY SegmentParts
  <2> HIDE DEF segs
  <2> QED
    BY <1>2, <1>3, <1>4, <2>1
<1>6. IsPart(segs[j], j, ptr, n)
  BY SegmentParts
<1> DEFINE g == segs[j]
<1> HIDE DEF segs, g
<1>7. /\ g.index = q + 1 /\ a \in g.at .. g.at + g.sz - 1
      /\ g.at \in Nat /\ g.sz \in Nat /\ g.from \in Nat
      /\ Place(q + 1, g.at) = ptr + g.from
  BY <1>5, <1>6 DEF HasPlace, IsPart, g
<1> DEFINE p == q + 1
           low == (p - 1) * DataSize
<1>8. low + g.at = ptr + g.from /\ low + a = k /\ low \in Int
  <2>1. p \in Int
    BY <1>2
  <2>2. Place(p, a) = k /\ Place(p, g.at) = ptr + g.from
    BY <1>3, <1>7
  <2> HIDE DEF p
  <2>3. low \in Int
    BY <1>1, <2>1
  <2> QED
    BY <2>2, <2>3 DEF Place
<1> HIDE DEF low, p
<1>9. i \in g.from + 1 .. g.from + g.sz
  <2>1. k = ptr + (i - 1)
    BY DEF k
  <2>2. a \in Int /\ g.at <= a /\ a <= g.at + g.sz - 1
    BY <1>1, <1>2, <1>7
  <2>3. g.at \in Nat /\ g.sz \in Nat /\ g.from \in Nat
    BY <1>7
  <2>4. a - g.at = i - 1 - g.from
    BY <1>8, <2>1, <2>2, <2>3
  <2> QED
    BY <2>2, <2>3, <2>4
<1> QED
  BY <1>5, <1>9 DEF g, segs

\* Places in a sector follow its bytes.
LEMMA PlaceMoves ==
  ASSUME NEW i \in Nat, NEW a \in Int, NEW b \in Int
  PROVE  Place(i, b) = Place(i, a) + (b - a)
<1>1. (i - 1) * DataSize \in Int
  BY FlashConstants
<1> QED
  BY <1>1 DEF Place

\* A read copies what was written.
LEMMA ReadCopies ==
  ASSUME IInv, NameInv, FileInv, NEW f \in Fds, NEW sz \in Sizes, NEW align \in Aligns,
         ReadSucceeds(f, sz, align), ReadFetches(f, sz, align),
         spifiles[files[f].entry].sound
  PROVE  ReadBytes(f, sz, align) =
           [i \in 1 .. Readable(f, sz) |->
              Data(spifiles[files[f].entry].number, files[f].fileptr + i - 1)]
<1> DEFINE e == files[f].entry
           ptr == files[f].fileptr
           n == Readable(f, sz)
           segs == Segments(ptr, n)
           Has(g, i) == i \in g.from + 1 .. g.from + g.sz
           Part(g) == FlashRead(data[spifiles[e].sectors[g.index]], g.at,
                                (align + g.from) % 4, g.sz)
           The(i) == CHOOSE g \in {segs[j] : j \in DOMAIN segs} : Has(g, i)
<1>1. /\ e \in Entries /\ ptr \in Nat /\ n \in Nat \ {0}
      /\ ptr + n <= spifiles[e].written
  BY ReadWritten
<1>2. ReadBytes(f, sz, align) = [i \in 1 .. n |-> Part(The(i))[i - The(i).from]]
  BY DEF ReadBytes
<1>3. /\ Len(segs) \in Nat /\ DOMAIN segs = 1 .. Len(segs)
      /\ \A j \in 1 .. Len(segs) : IsPart(segs[j], j, ptr, n)
  BY <1>1, SegmentParts
<1>4. \A j \in 1 .. Len(segs) : \/ (align + segs[j].from) % 4 = segs[j].at % 4
                                \/ (segs[j].at + segs[j].sz - 1) % 4 # 0
  BY <1>3 DEF ReadFetches
<1>5. /\ spifiles[e].written \in Nat /\ spifiles[e].max_size \in Nat
      /\ spifiles[e].written <= spifiles[e].max_size
      /\ spifiles[e].max_size <= Len(Owned(e)) * DataSize /\ Contents(e)
  BY <1>1 DEF FileInv, Lengths
<1>6. InFile(e, ptr, n)
  <2>1. Len(Owned(e)) \in Nat
    <3>1. Owned(e) \in Seq(Sectors)
      BY <1>1 DEF IInv, TypeInv
    <3> QED
      BY <3>1
  <2> DEFINE room == Len(Owned(e)) * DataSize
  <2>2. room \in Nat
    BY <2>1, FlashConstants
  <2>3. spifiles[e].max_size <= room
    BY <1>5
  <2> HIDE DEF room
  <2>4. ptr + n <= room
    BY <1>1, <1>5, <2>2, <2>3
  <2> QED
    BY <2>4 DEF InFile, room
<1>7. \A j \in 1 .. Len(segs) : segs[j].index \in DOMAIN Owned(e)
  BY <1>1, <1>6, PartsInFile
<1>8. \A i \in 1 .. n : \E j \in 1 .. Len(segs) : Has(segs[j], i)
  BY <1>1, ByteHasPart
<1> HIDE DEF segs, n, e, ptr
<1>9. ASSUME NEW i \in 1 .. n
      PROVE  Part(The(i))[i - The(i).from] = Data(spifiles[e].number, ptr + i - 1)
  <2> DEFINE g == The(i)
  <2>1. \E h \in {segs[j] : j \in DOMAIN segs} : Has(h, i)
    BY <1>3, <1>8
  <2>2. g \in {segs[j] : j \in DOMAIN segs} /\ Has(g, i)
    BY <2>1
  <2>3. PICK j \in 1 .. Len(segs) : g = segs[j]
    BY <1>3, <2>2
  <2> HIDE DEF g, The
  <2>4. /\ g.index \in DOMAIN Owned(e) /\ g.index \in Nat \ {0}
        /\ g.at \in Nat /\ g.sz \in Nat \ {0} /\ g.at + g.sz <= DataSize
        /\ g.from \in Nat /\ Place(g.index, g.at) = ptr + g.from
        /\ \/ (align + g.from) % 4 = g.at % 4
           \/ (g.at + g.sz - 1) % 4 # 0
    BY <1>3, <1>4, <1>7, <2>3 DEF IsPart
  <2> DEFINE m == i - g.from
             a == g.at + m - 1
             d == data[spifiles[e].sectors[g.index]]
  <2>5. m \in 1 .. g.sz
    BY <2>2, <2>4
  <2>6. Part(g)[m] = d[a]
    <3> DEFINE at == g.at
               l  == g.sz
               al == (align + g.from) % 4
    <3>1. at \in Nat /\ l \in Nat /\ m \in 1 .. l
      BY <2>4, <2>5
    <3>2. al = at % 4 \/ (at + l - 1) % 4 # 0
      BY <2>4
    <3> HIDE DEF m, d, at, l, al
    <3>3. FlashRead(d, at, al, l)[m] = d[at + m - 1]
      BY <3>1, <3>2, FetchedBytes
    <3> QED
      BY <3>3 DEF d, at, al, l
  <2>7. a \in 0 .. DataSize - 1 /\ a = g.at + (m - 1)
    <3>1. m \in 1 .. g.sz /\ a = g.at + m - 1 /\ DataSize \in Nat
      BY <2>5, FlashConstants
    <3> HIDE DEF m, a
    <3> QED
      BY <2>4, <3>1
  <2>8. Place(g.index, a) = ptr + i - 1
    <3>1. a = g.at + (m - 1) /\ m = i - g.from /\ g.at \in Nat /\ g.from \in Nat /\ i \in Int
      BY <1>1, <2>4, <2>7
    <3> HIDE DEF a, m
    <3>2. a \in Int /\ m - 1 \in Int /\ a - g.at = m - 1
      BY <3>1
    <3>3. Place(g.index, a) = Place(g.index, g.at) + (a - g.at)
      <4>1. g.index \in Nat /\ g.at \in Int
        BY <2>4
      <4>2. a \in Int
        BY <3>2
      <4> QED
        BY <4>1, <4>2, PlaceMoves
    <3>4. ptr \in Nat
      BY <1>1
    <3> QED
      BY <2>4, <3>1, <3>2, <3>3, <3>4
  <2>9. Place(g.index, a) < spifiles[e].written
    BY <1>1, <1>5, <2>8
  <2> HIDE DEF a, m
  <2>10. data[Owned(e)[g.index]][a] = Data(spifiles[e].number, Place(g.index, a))
    BY <1>5, <2>4, <2>7, <2>9 DEF Contents, e
  <2>11. Part(g)[m] = Data(spifiles[e].number, ptr + i - 1)
    BY <2>6, <2>8, <2>10 DEF Owned
  <2> QED
    BY <2>11 DEF g, m
<1> HIDE DEF Part, The
<1>10. ReadBytes(f, sz, align) = [i \in 1 .. n |-> Data(spifiles[e].number, ptr + i - 1)]
  BY <1>2, <1>9
<1> QED
  BY <1>10 DEF e, ptr, n

\* It is what the properties say.
LEMMA FilesSay == IInv /\ NameInv /\ FileInv => FileIntact /\ ReadsRight
<1> SUFFICES ASSUME IInv, NameInv, FileInv PROVE FileIntact /\ ReadsRight
  OBVIOUS
<1>1. FileIntact
  BY WrittenByte DEF FileIntact, Stands
<1>2. ReadsRight
  BY ReadCopies DEF ReadsRight
<1> QED
  BY <1>1, <1>2

\* The three invariants hold.
LEMMA FilesHold == Spec => [](IInv /\ NameInv /\ FileInv)
<1>1. Init => IInv /\ NameInv /\ FileInv
  BY InitInv, NameInit, FilesInit
<1>2. IInv /\ NameInv /\ FileInv /\ [Next]_vars => (IInv /\ NameInv /\ FileInv)'
  BY StepInv, NameStep, FilesStep
<1> QED
  BY <1>1, <1>2, PTL DEF Spec

-----------------------------------------------------------------------------

\* Every sector is in the free list or belongs to one file, in one place
\* (sector_add(), sector_del(), _get_sectors(), spi_flash_fc_remove()): no
\* sector is shared or lost.
THEOREM SectorsNeverShared == Spec => []NoSharedSector
<1>1. Init => IInv
  BY InitInv
<1>2. IInv /\ [Next]_vars => IInv'
  BY StepInv
<1>3. IInv => NoSharedSector
  BY InvSays
<1> QED
  BY <1>1, <1>2, <1>3, PTL DEF Spec

\* A descriptor leads to the file of its name, although the flash keeps the
\* names of files of before a reset and a refused call may leave some sectors of
\* a file without one: _find_file() looks only at the first sector of the files
\* in spifiles[], and that sector was erased and named when the file was made.
THEOREM DescriptorHasItsFile == Spec => []OpenedIsNamed
<1>1. Init => IInv /\ NameInv
  BY InitInv, NameInit
<1>2. IInv /\ NameInv /\ [Next]_vars => (IInv /\ NameInv)'
  BY StepInv, NameStep
<1>3. NameInv => OpenedIsNamed
  BY DEF NameInv, NamedFd, OpenedIsNamed
<1> QED
  BY <1>1, <1>2, <1>3, PTL DEF Spec

\* What was written to a file is in its sectors, at its place
\* (_spi_flash_file_wrrd(), _aligned_flash_write(), _slow_flash_write()): for any
\* size and alignment of the buffers, any size of the temporary one, whatever the
\* flash refuses and whenever the processor is reset, as long as no write of the
\* file was misplaced by _equally_unaligned_flash_write().
THEOREM FilesKeepTheirBytes == Spec => []FileIntact
  BY FilesHold, FilesSay, PTL

\* A read that succeeds copies what was written at the place of the file pointer,
\* across the sectors and the words (_spi_flash_file_wrrd(), _slow_flash_read()),
\* when it fetches the word of the last byte.
THEOREM ReadsWhatWasWritten == Spec => []ReadsRight
  BY FilesHold, FilesSay, PTL
=============================================================================
