----------------------- MODULE ContentNetwork_proofs -----------------------
(***************************************************************************)
(* Theorems about the archives and the content protocol (ContentNetwork).  *)
(* First the number of bytes in a set of files, which archive.go adds up   *)
(* one file after the other: that the recursion has one solution, and that *)
(* any file may be taken out of the sum. Then the archive's account of     *)
(* itself, and at last what peers answer.                                  *)
(***************************************************************************)
EXTENDS ContentNetwork, FiniteSetTheorems, WellFoundedInduction, TLAPS

Choice(D) == CHOOSE x \in D : TRUE

BytesIn(files, D) == MapThenSumSet(LAMBDA k : Len(files[k]), D)

\* f adds up the lengths of the files in every subset of D.
Sums(f, files, D) ==
  f = [s \in SUBSET D |->
         IF s = {} THEN 0 ELSE Len(files[Choice(s)]) + f[s \ {Choice(s)}]]

(* Of finite sets, one has none of the others as a proper subset.          *)
LEMMA SmallestSet ==
  ASSUME NEW F, F # {}, \A D \in F : IsFiniteSet(D)
  PROVE  \E D \in F : \A E \in F : E \subseteq D => E = D
<1>1. F \subseteq FiniteSubsetsOf(UNION F)
  BY DEF FiniteSubsetsOf
<1>2. PICK D \in F : \A E \in F : <<E, D>> \notin StrictSubsetOrdering(UNION F)
  BY <1>1, FS_StrictSubsetOrderingWellFounded, WFMin
<1> QED
  BY <1>2 DEF StrictSubsetOrdering

(* Two solutions agree on the sets they have in common.                    *)
LEMMA OneSum ==
  ASSUME NEW files, NEW A, NEW B, NEW f, NEW g, Sums(f, files, A), Sums(g, files, B),
         NEW C, IsFiniteSet(C), C \subseteq A, C \subseteq B
  PROVE  f[C] = g[C]
<1> DEFINE F == {D \in SUBSET C : f[D] # g[D]}
<1> SUFFICES ASSUME F # {} PROVE FALSE
  OBVIOUS
<1>1. \A D \in F : IsFiniteSet(D)
  BY FS_Subset
<1>2. PICK D \in F : \A E \in F : E \subseteq D => E = D
  <2> HIDE DEF F
  <2> QED
    BY <1>1, SmallestSet
<1>3. /\ f[D] = IF D = {} THEN 0 ELSE Len(files[Choice(D)]) + f[D \ {Choice(D)}]
      /\ g[D] = IF D = {} THEN 0 ELSE Len(files[Choice(D)]) + g[D \ {Choice(D)}]
  <2>1. D \in SUBSET A /\ D \in SUBSET B
    OBVIOUS
  <2> QED
    BY <2>1 DEF Sums
<1>4. D # {}
  BY <1>3
<1>5. Choice(D) \in D
  BY <1>4 DEF Choice
<1>6. D \ {Choice(D)} \notin F
  BY <1>2, <1>5
<1>7. f[D \ {Choice(D)}] = g[D \ {Choice(D)}]
  BY <1>6
<1> QED
  BY <1>3, <1>7

(* The recursion has a solution on the subsets of every finite set.        *)
LEMMA ASum ==
  ASSUME NEW files, NEW C, IsFiniteSet(C)
  PROVE  \E f : Sums(f, files, C)
<1> DEFINE F == {D \in SUBSET C : ~ \E f : Sums(f, files, D)}
<1> SUFFICES ASSUME F # {} PROVE FALSE
  OBVIOUS
<1>1. \A D \in F : IsFiniteSet(D)
  BY FS_Subset
<1>2. PICK D \in F : \A E \in F : E \subseteq D => E = D
  <2> HIDE DEF F
  <2> QED
    BY <1>1, SmallestSet
<1> DEFINE part(s) == CHOOSE f : Sums(f, files, s)
           whole == [s \in SUBSET D |->
                       IF s = {} THEN 0
                       ELSE Len(files[Choice(s)])
                              + part(s \ {Choice(s)})[s \ {Choice(s)}]]
<1>3. \A s \in SUBSET D : s # D => Sums(part(s), files, s)
  <2> TAKE s \in SUBSET D
  <2> SUFFICES ASSUME s # D PROVE Sums(part(s), files, s)
    OBVIOUS
  <2>1. s \in SUBSET C /\ s \notin F
    BY <1>2
  <2>2. \E f : Sums(f, files, s)
    BY <2>1
  <2> QED
    BY <2>2
<1> HIDE DEF part
<1>4. ASSUME NEW s \in SUBSET D, s # {}
      PROVE  part(s \ {Choice(s)})[s \ {Choice(s)}] = whole[s \ {Choice(s)}]
  <2> DEFINE r == s \ {Choice(s)}
  <2>1. r \in SUBSET D /\ r # D
    BY <1>4 DEF Choice
  <2> HIDE DEF r
  <2>2. Sums(part(r), files, r)
    BY <1>3, <2>1
  <2>3. part(r)[r] = IF r = {} THEN 0
                     ELSE Len(files[Choice(r)]) + part(r)[r \ {Choice(r)}]
    BY <2>2 DEF Sums
  <2>4. whole[r] = IF r = {} THEN 0
                   ELSE Len(files[Choice(r)]) + part(r \ {Choice(r)})[r \ {Choice(r)}]
    BY <2>1
  <2>5. ASSUME r # {} PROVE part(r)[r \ {Choice(r)}] = part(r \ {Choice(r)})[r \ {Choice(r)}]
    <3> DEFINE q == r \ {Choice(r)}
    <3>1. q \subseteq r /\ q \in SUBSET D /\ q # D /\ q \subseteq C
      BY <2>1, <2>5 DEF Choice
    <3> HIDE DEF q
    <3>2. IsFiniteSet(q)
      BY <3>1, FS_Subset
    <3>3. Sums(part(q), files, q)
      BY <1>3, <3>1
    <3> QED
      BY <2>2, <3>1, <3>2, <3>3, OneSum DEF q
  <2>6. part(r)[r] = whole[r]
    BY <2>3, <2>4, <2>5
  <2> QED
    BY <2>6 DEF r
<1>5. whole = [s \in SUBSET D |->
                 IF s = {} THEN 0 ELSE Len(files[Choice(s)]) + whole[s \ {Choice(s)}]]
  <2>1. \A s \in SUBSET D :
          whole[s] = IF s = {} THEN 0 ELSE Len(files[Choice(s)]) + whole[s \ {Choice(s)}]
    BY <1>4
  <2>2. whole = [s \in SUBSET D |-> whole[s]]
    OBVIOUS
  <2> HIDE DEF whole
  <2> QED
    BY <2>1, <2>2
<1>6. Sums(whole, files, D)
  BY <1>5 DEF Sums
<1> QED
  BY <1>6

(* The bytes in a set of files, one file after the other.                  *)
LEMMA BytesOneByOne ==
  ASSUME NEW files, NEW D, IsFiniteSet(D)
  PROVE  BytesIn(files, D) =
           IF D = {} THEN 0 ELSE Len(files[Choice(D)]) + BytesIn(files, D \ {Choice(D)})
<1> DEFINE sum(s) == CHOOSE f : Sums(f, files, s)
<1>1. \A s : BytesIn(files, s) = sum(s)[s]
  BY DEF BytesIn, MapThenSumSet, MapThenFoldSet, Sums, Choice
<1> DEFINE r == D \ {Choice(D)}
<1>2. Sums(sum(D), files, D)
  BY ASum
<1>3. IsFiniteSet(r) /\ r \subseteq D
  BY FS_Subset
<1>4. Sums(sum(r), files, r)
  BY <1>3, ASum
<1> HIDE DEF sum
<1>5. sum(D)[r] = sum(r)[r]
  BY <1>2, <1>3, <1>4, OneSum
<1>6. sum(D)[D] = IF D = {} THEN 0 ELSE Len(files[Choice(D)]) + sum(D)[D \ {Choice(D)}]
  BY <1>2 DEF Sums
<1> QED
  BY <1>1, <1>5, <1>6

(* It is a number, the same for equal files.                               *)
LEMMA BytesAreCounted ==
  ASSUME NEW files, NEW D, IsFiniteSet(D), \A k \in D : Len(files[k]) \in Nat
  PROVE  BytesIn(files, D) \in Nat
<1> DEFINE F == {E \in SUBSET D : BytesIn(files, E) \notin Nat}
<1> SUFFICES ASSUME F # {} PROVE FALSE
  OBVIOUS
<1>1. \A E \in F : IsFiniteSet(E)
  BY FS_Subset
<1>2. PICK E \in F : \A G \in F : G \subseteq E => G = E
  <2> HIDE DEF F
  <2> QED
    BY <1>1, SmallestSet
<1>3. BytesIn(files, E) =
        IF E = {} THEN 0 ELSE Len(files[Choice(E)]) + BytesIn(files, E \ {Choice(E)})
  BY <1>1, BytesOneByOne
<1>4. E # {} /\ Choice(E) \in E
  BY <1>3 DEF Choice
<1>5. BytesIn(files, E \ {Choice(E)}) \in Nat
  BY <1>2, <1>4
<1>6. Len(files[Choice(E)]) \in Nat
  BY <1>4
<1>7. BytesIn(files, E) \in Nat
  BY <1>3, <1>4, <1>5, <1>6
<1> QED
  BY <1>7

(* Files of the same lengths have the same bytes.                          *)
LEMMA SameLengths ==
  ASSUME NEW files, NEW others, NEW D, IsFiniteSet(D),
         \A k \in D : Len(files[k]) = Len(others[k])
  PROVE  BytesIn(files, D) = BytesIn(others, D)
<1> DEFINE F == {E \in SUBSET D : BytesIn(files, E) # BytesIn(others, E)}
<1> SUFFICES ASSUME F # {} PROVE FALSE
  OBVIOUS
<1>1. \A E \in F : IsFiniteSet(E)
  BY FS_Subset
<1>2. PICK E \in F : \A G \in F : G \subseteq E => G = E
  <2> HIDE DEF F
  <2> QED
    BY <1>1, SmallestSet
<1>3. BytesIn(files, E) =
        IF E = {} THEN 0 ELSE Len(files[Choice(E)]) + BytesIn(files, E \ {Choice(E)})
  BY <1>1, BytesOneByOne
<1>4. BytesIn(others, E) =
        IF E = {} THEN 0 ELSE Len(others[Choice(E)]) + BytesIn(others, E \ {Choice(E)})
  BY <1>1, BytesOneByOne
<1>5. E # {} /\ Choice(E) \in E
  BY <1>3, <1>4 DEF Choice
<1>6. BytesIn(files, E \ {Choice(E)}) = BytesIn(others, E \ {Choice(E)})
  BY <1>2, <1>5
<1>7. Len(files[Choice(E)]) = Len(others[Choice(E)])
  BY <1>5
<1> QED
  BY <1>3, <1>4, <1>5, <1>6, <1>7

(* Any file may be taken out of the sum.                                   *)
LEMMA BytesWithout ==
  ASSUME NEW files, NEW D, IsFiniteSet(D), \A k \in D : Len(files[k]) \in Nat, NEW x \in D
  PROVE  BytesIn(files, D) = Len(files[x]) + BytesIn(files, D \ {x})
<1> DEFINE Out(E, y) == BytesIn(files, E) = Len(files[y]) + BytesIn(files, E \ {y})
           F == {E \in SUBSET D : \E y \in E : ~ Out(E, y)}
<1> SUFFICES ASSUME F # {} PROVE FALSE
  OBVIOUS
<1>1. \A E \in F : IsFiniteSet(E)
  BY FS_Subset
<1>2. PICK E \in F : \A G \in F : G \subseteq E => G = E
  <2> HIDE DEF F
  <2> QED
    BY <1>1, SmallestSet
<1>3. PICK y \in E : ~ Out(E, y)
  OBVIOUS
<1> DEFINE c == Choice(E)
<1>4. c \in E /\ E \in SUBSET D
  BY <1>3 DEF Choice
<1>5. IsFiniteSet(E)
  BY <1>1
<1>6. Out(E, c)
  BY <1>4, <1>5, BytesOneByOne
<1>7. \A G \in SUBSET E : G # E => \A z \in G : Out(G, z)
  BY <1>2, <1>4
<1>8. \A G \in SUBSET E : BytesIn(files, G) \in Nat
  <2> TAKE G \in SUBSET E
  <2>1. IsFiniteSet(G) /\ \A k \in G : Len(files[k]) \in Nat
    BY <1>4, <1>5, FS_Subset
  <2> QED
    BY <2>1, BytesAreCounted
<1> HIDE DEF c
<1>9. y # c
  BY <1>3, <1>6
<1>10. Out(E \ {c}, y) /\ Out(E \ {y}, c)
  BY <1>4, <1>7, <1>9
<1>11. (E \ {c}) \ {y} = E \ {c, y} /\ (E \ {y}) \ {c} = E \ {c, y}
  OBVIOUS
<1>12. /\ BytesIn(files, E \ {c, y}) \in Nat /\ Len(files[c]) \in Nat /\ Len(files[y]) \in Nat
  BY <1>4, <1>8
<1>13. /\ BytesIn(files, E) = Len(files[c]) + BytesIn(files, E \ {c})
       /\ BytesIn(files, E \ {c}) = Len(files[y]) + BytesIn(files, E \ {c, y})
       /\ BytesIn(files, E \ {y}) = Len(files[c]) + BytesIn(files, E \ {c, y})
  BY <1>6, <1>10, <1>11
<1>14. BytesIn(files, E) = Len(files[y]) + BytesIn(files, E \ {y})
  BY ONLY <1>12, <1>13
<1> QED
  BY <1>3, <1>14

-----------------------------------------------------------------------------
Jobs == [kind : {"provide", "get"}, node : Node, track : Track, bytes : Seq(AnyByte),
         prev : Int, newUsed : Int, done : Nat, left : SUBSET Node]

DiskOK ==
  /\ disk = [n \in Node |-> disk[n]]
  /\ \A n \in Node : /\ IsFiniteSet(DOMAIN disk[n])
                     /\ DOMAIN disk[n] \subseteq {Key(t) : t \in Track}
                     /\ \A k \in DOMAIN disk[n] : disk[n][k] \in Seq(AnyByte)

CallsOK ==
  /\ pc \in [Call -> Phases] /\ job \in [Call -> Jobs \cup {NoJob}]
  /\ \A c \in Call : IF pc[c] = "idle" THEN job[c] = NoJob
                     ELSE job[c] \in Jobs /\ job[c].done <= Len(job[c].bytes)
  /\ \A c \in Call : pc[c] \in {"local", "find", "fetch", "store", "open"} => job[c].done = 0

BooksOK ==
  /\ used \in [Node -> Int] /\ count \in [Node -> Nat]
  /\ announced \in [Node -> SUBSET Track]
  /\ made \in 0..MaxCalls /\ restarts \in 0..MaxRestarts
  /\ health \in [Node -> {"calm", "unsettled", "rescanned"}]

CTypes == DiskOK /\ CallsOK /\ BooksOK

Balanced(n) == used[n] = Usage(n) /\ count[n] = Cardinality(DOMAIN disk[n])

Stores(c, n) == pc[c] \in Storing /\ job[c].node = n

\* What a store c of file k at node n relies on, if no other store interferes.
Booked(c, n, k) ==
  /\ job[c].newUsed = BytesIn(disk[n], DOMAIN disk[n] \ {k}) + Len(job[c].bytes)
  /\ Fits(job[c].newUsed, n)
  /\ pc[c] = "open" => Balanced(n) /\ (job[c].prev < 0 <=> k \notin DOMAIN disk[n])
  /\ pc[c] \in {"write", "account"} =>
       /\ k \in DOMAIN disk[n] /\ Len(disk[n][k]) = job[c].done
       /\ \A j \in 1..job[c].done : disk[n][k][j] = job[c].bytes[j]
       /\ count[n] = Cardinality(DOMAIN disk[n]) - (IF job[c].prev < 0 THEN 1 ELSE 0)
  /\ pc[c] = "account" => job[c].done = Len(job[c].bytes)

\* The archive's account of itself at a node that is not unsettled.
Ledger(n) ==
  /\ \A c \in Call, x \in Call : Stores(c, n) /\ Stores(x, n) => c = x
  /\ (\A c \in Call : ~ Stores(c, n)) => Balanced(n)
  /\ \A c \in Call : Stores(c, n) => Booked(c, n, Key(job[c].track))

Ledgers == \A n \in Node : health[n] # "unsettled" => Ledger(n)

\* d is the only encoding of its track.
Sole(d) == \A e \in Data : TrackOf[e] = TrackOf[d] => e = d

Beginning(s, d) == Len(s) <= Size[d] /\ \A j \in 1..Len(s) : s[j] = <<d, j>>

Carrying == {"store", "open", "write", "account", "announce", "served"}

Contents == 
  \A d \in Data : Sole(d) =>
    /\ \A n \in Node : Key(TrackOf[d]) \in DOMAIN disk[n] =>
                         Beginning(disk[n][Key(TrackOf[d])], d)
    /\ \A c \in Call : pc[c] \in Carrying /\ job[c].track = TrackOf[d] =>
                         job[c].bytes # <<>> /\ Beginning(job[c].bytes, d)

\* A call that is past opening its file has one, and so has a provider.
Provided ==
  /\ ProviderHasFile
  /\ \A c \in Call : pc[c] \in {"write", "account", "announce"} =>
                       Key(job[c].track) \in DOMAIN disk[job[c].node]

CNInv == CTypes /\ Ledgers /\ CalmNodeKeepsQuota /\ (Calm => Contents) /\ Provided

USE ContentAssumption

-----------------------------------------------------------------------------
(* The bytes of a file.                                                    *)
LEMMA BytesOf ==
  ASSUME NEW d \in Data
  PROVE  /\ Bytes(d) \in Seq(AnyByte) /\ Len(Bytes(d)) = Size[d] /\ Size[d] \in Nat \ {0}
         /\ \A i \in 1..Size[d] : Bytes(d)[i] = <<d, i>>
         /\ Bytes(d) # <<>>
<1>1. Size[d] \in Nat \ {0}
  BY DEF ContentAssumption
<1>2. \A i \in 1..Size[d] : <<d, i>> \in AnyByte
  <2> TAKE i \in 1..Size[d]
  <2>1. i \in DOMAIN Bytes(d) /\ Bytes(d)[i] = <<d, i>>
    BY DEF Bytes
  <2>2. <<d, i>> \in ToSet(Bytes(d))
    BY <2>1, Zenon DEF ToSet
  <2> QED
    BY <2>2 DEF AnyByte
<1>3. Bytes(d) \in Seq(AnyByte) /\ Len(Bytes(d)) = Size[d]
  BY <1>1, <1>2 DEF Bytes
<1> QED
  BY <1>1, <1>3 DEF Bytes

(* The new file when a byte is written at a place.                         *)
LEMMA ByteWritten ==
  ASSUME NEW file \in Seq(AnyByte), NEW i \in Nat \ {0}, NEW byte \in AnyByte
  PROVE  /\ WriteAt(file, i, byte) \in Seq(AnyByte)
         /\ WriteAt(file, i, byte)[i] = byte
         /\ i = Len(file) + 1 =>
              /\ Len(WriteAt(file, i, byte)) = i
              /\ \A j \in 1..Len(file) : WriteAt(file, i, byte)[j] = file[j]
<1> DEFINE m == Max({i, Len(file)})
<1>1. Len(file) \in Nat /\ \A j \in 1..Len(file) : file[j] \in AnyByte
  OBVIOUS
<1>2. m \in {i, Len(file)} /\ i <= m /\ Len(file) <= m
  BY <1>1 DEF Max
<1> HIDE DEF m
<1>3. WriteAt(file, i, byte) = [j \in 1..m |-> IF j = i THEN byte
                                              ELSE IF j <= Len(file) THEN file[j] ELSE Hole]
  BY DEF WriteAt, m
<1>4. Hole \in AnyByte
  BY DEF AnyByte
<1>5. \A j \in 1..m : (IF j = i THEN byte ELSE IF j <= Len(file) THEN file[j] ELSE Hole) \in AnyByte
  BY <1>1, <1>2, <1>4
<1>6. WriteAt(file, i, byte) \in Seq(AnyByte) /\ Len(WriteAt(file, i, byte)) = m
  BY <1>1, <1>2, <1>3, <1>5
<1> QED
  BY <1>1, <1>2, <1>3, <1>6

(* What storing a file does to the disk and to the number of bytes on it.  *)
LEMMA FileSet ==
  ASSUME DiskOK, NEW n \in Node, NEW t \in Track, NEW bytes \in Seq(AnyByte),
         SetFile(n, Key(t), bytes)
  PROVE  /\ DiskOK'
         /\ \A m \in Node \ {n} : disk'[m] = disk[m]
         /\ DOMAIN disk'[n] = DOMAIN disk[n] \cup {Key(t)}
         /\ disk'[n][Key(t)] = bytes
         /\ \A x \in DOMAIN disk[n] : x # Key(t) => disk'[n][x] = disk[n][x]
         /\ BytesIn(disk'[n], DOMAIN disk'[n] \ {Key(t)})
              = BytesIn(disk[n], DOMAIN disk[n] \ {Key(t)})
         /\ BytesIn(disk[n], DOMAIN disk[n] \ {Key(t)}) \in Nat
         /\ Usage(n)' = Len(bytes) + BytesIn(disk[n], DOMAIN disk[n] \ {Key(t)})
<1> DEFINE k == Key(t)
           new == [x \in DOMAIN disk[n] \cup {k} |-> IF x = k THEN bytes ELSE disk[n][x]]
<1>1. disk' = [disk EXCEPT ![n] = new]
  BY DEF SetFile
<1>2. disk = [m \in Node |-> disk[m]]
  BY DEF DiskOK
<1>3. disk' = [m \in Node |-> disk'[m]] /\ disk'[n] = new /\ \A m \in Node \ {n} : disk'[m] = disk[m]
  BY <1>1, <1>2
<1>4. /\ DOMAIN new = DOMAIN disk[n] \cup {k} /\ new[k] = bytes
      /\ \A x \in DOMAIN disk[n] : x # k => new[x] = disk[n][x]
  OBVIOUS
<1>5. IsFiniteSet(DOMAIN disk[n]) /\ k \in {Key(u) : u \in Track}
  BY DEF DiskOK
<1> HIDE DEF k, new
<1>6. IsFiniteSet(DOMAIN new) /\ IsFiniteSet(DOMAIN new \ {k})
  BY <1>4, <1>5, FS_AddElement, FS_Subset
<1>7. \A x \in DOMAIN new : new[x] \in Seq(AnyByte)
  BY <1>4 DEF DiskOK
<1>8. DOMAIN new \subseteq {Key(u) : u \in Track}
  BY <1>4, <1>5 DEF DiskOK
<1>9. DiskOK'
  BY <1>3, <1>6, <1>7, <1>8 DEF DiskOK
<1>10. DOMAIN new \ {k} = DOMAIN disk[n] \ {k}
  BY <1>4
<1>11. BytesIn(new, DOMAIN new \ {k}) = BytesIn(disk[n], DOMAIN disk[n] \ {k})
  <2>1. \A x \in DOMAIN new \ {k} : Len(new[x]) = Len(disk[n][x])
    BY <1>4
  <2>2. BytesIn(new, DOMAIN new \ {k}) = BytesIn(disk[n], DOMAIN new \ {k})
    BY <1>6, <2>1, SameLengths
  <2> QED
    BY <1>10, <2>2
<1>12. \A x \in DOMAIN new : Len(new[x]) \in Nat
  BY <1>7
<1>13. BytesIn(new, DOMAIN new \ {k}) \in Nat
  <2>1. \A x \in DOMAIN new \ {k} : Len(new[x]) \in Nat
    BY <1>12
  <2> QED
    BY <1>6, <2>1, BytesAreCounted
<1>14. BytesIn(new, DOMAIN new) = Len(new[k]) + BytesIn(new, DOMAIN new \ {k})
  <2>1. k \in DOMAIN new
    BY <1>4
  <2> QED
    BY <1>6, <1>12, <2>1, BytesWithout
<1>15. Usage(n)' = BytesIn(disk'[n], DOMAIN disk'[n])
  BY DEF Usage, BytesIn, MapThenSumSet, MapThenFoldSet
<1> QED
  BY <1>3, <1>4, <1>9, <1>11, <1>13, <1>14, <1>15 DEF k

(* Usage in terms of BytesIn.                                              *)
LEMMA UsageIs ==
  ASSUME NEW n \in Node
  PROVE  /\ Usage(n) = BytesIn(disk[n], DOMAIN disk[n])
         /\ Usage(n)' = BytesIn(disk'[n], DOMAIN disk'[n])
  BY DEF Usage, BytesIn, MapThenSumSet, MapThenFoldSet

(* The usage of a node is a number.                                        *)
LEMMA UsageIsCounted ==
  ASSUME DiskOK, NEW n \in Node
  PROVE  Usage(n) \in Nat
<1>1. IsFiniteSet(DOMAIN disk[n]) /\ \A k \in DOMAIN disk[n] : disk[n][k] \in Seq(AnyByte)
  BY DEF DiskOK
<1>2. \A k \in DOMAIN disk[n] : Len(disk[n][k]) \in Nat
  BY <1>1
<1> QED
  BY <1>1, <1>2, BytesAreCounted, UsageIs

-----------------------------------------------------------------------------
\* Call c goes to phase p, with job j.
Becomes(c, p, j) == pc' = [pc EXCEPT ![c] = p] /\ job' = [job EXCEPT ![c] = j]

GoodJob(p, j) ==
  /\ p \in Phases
  /\ IF p = "idle" THEN j = NoJob ELSE j \in Jobs /\ j.done <= Len(j.bytes)
  /\ p \in {"local", "find", "fetch", "store", "open"} => j.done = 0

(* One call changes and the others stay.                                   *)
LEMMA CallsKeep ==
  ASSUME CallsOK, NEW c \in Call, NEW p, NEW j, GoodJob(p, j), Becomes(c, p, j)
  PROVE  /\ CallsOK' /\ pc'[c] = p /\ job'[c] = j
         /\ \A x \in Call : x # c => pc'[x] = pc[x] /\ job'[x] = job[x]
<1>1. /\ pc'[c] = p /\ job'[c] = j
      /\ \A x \in Call : x # c => pc'[x] = pc[x] /\ job'[x] = job[x]
  BY DEF CallsOK, Becomes
<1>2. j \in Jobs \cup {NoJob} /\ p \in Phases
  BY DEF GoodJob
<1>3. pc' \in [Call -> Phases] /\ job' \in [Call -> Jobs \cup {NoJob}]
  BY <1>2 DEF CallsOK, Becomes
<1>4. \A x \in Call : IF pc'[x] = "idle" THEN job'[x] = NoJob
                       ELSE job'[x] \in Jobs /\ job'[x].done <= Len(job'[x].bytes)
  BY <1>1 DEF GoodJob, CallsOK
<1>5. \A x \in Call : pc'[x] \in {"local", "find", "fetch", "store", "open"} => job'[x].done = 0
  BY <1>1 DEF GoodJob, CallsOK
<1> QED
  BY <1>1, <1>3, <1>4, <1>5 DEF CallsOK

(* A node whose archive and whose stores are left alone keeps its ledger.  *)
LEMMA LedgerUndisturbed ==
  ASSUME NEW n \in Node, Ledger(n),
         disk'[n] = disk[n], used'[n] = used[n], count'[n] = count[n],
         \A x \in Call : Stores(x, n)' <=> Stores(x, n),
         \A x \in Call : Stores(x, n) => pc'[x] = pc[x] /\ job'[x] = job[x]
  PROVE  Ledger(n)'
<1>1. Usage(n)' = Usage(n)
  BY UsageIs
<1>2. Balanced(n) => Balanced(n)'
  BY <1>1 DEF Balanced
<1>3. ASSUME NEW x \in Call, Stores(x, n)' PROVE Booked(x, n, Key(job[x].track))'
  <2>1. Booked(x, n, Key(job[x].track)) /\ pc'[x] = pc[x] /\ job'[x] = job[x]
    BY <1>3 DEF Ledger
  <2>2. BytesIn(disk[n], DOMAIN disk[n] \ {Key(job[x].track)})'
         = BytesIn(disk[n], DOMAIN disk[n] \ {Key(job[x].track)})
    BY <2>1
  <2>3. Fits(job[x].newUsed, n)' <=> Fits(job[x].newUsed, n)
    BY <2>1 DEF Fits
  <2> QED
    BY <1>2, <2>1, <2>2, <2>3 DEF Booked
<1>4. \A c \in Call, x \in Call : Stores(c, n)' /\ Stores(x, n)' => c = x
  BY DEF Ledger
<1>5. (\A c \in Call : ~ Stores(c, n)') => Balanced(n)'
  BY <1>2 DEF Ledger
<1> QED
  BY <1>3, <1>4, <1>5 DEF Ledger

(* The ledger of a node at which c may be the only store.                  *)
LEMMA LedgerOfOne ==
  ASSUME NEW n \in Node, NEW c \in Call, \A x \in Call : Stores(x, n)' => x = c,
         Stores(c, n)' => Booked(c, n, Key(job[c].track))',
         ~ Stores(c, n)' => Balanced(n)'
  PROVE  Ledger(n)'
  BY DEF Ledger

(* Nobody's ledger changes when a call that does not store moves on.       *)
LEMMA Outside ==
  ASSUME CNInv, NEW c \in Call, NEW p \in Phases, NEW j,
         pc[c] \notin Storing, p \notin Storing \cup {"announce"}, GoodJob(p, j), Becomes(c, p, j),
         UNCHANGED <<disk, used, count, health>>, BooksOK', ProviderHasFile',
         Calm /\ p \in Carrying =>
           \A d \in Data : Sole(d) /\ j.track = TrackOf[d] =>
                            j.bytes # <<>> /\ Beginning(j.bytes, d)
  PROVE  CNInv'
<1>1. /\ CallsOK' /\ pc'[c] = p /\ job'[c] = j
      /\ \A x \in Call : x # c => pc'[x] = pc[x] /\ job'[x] = job[x]
  BY CallsKeep DEF CNInv, CTypes
<1>2. CTypes'
  BY <1>1 DEF CNInv, CTypes, DiskOK
<1>3. Ledgers'
  <2> SUFFICES ASSUME NEW n \in Node, health[n] # "unsettled" PROVE Ledger(n)'
    BY DEF Ledgers
  <2>1. \A x \in Call : Stores(x, n)' <=> Stores(x, n)
    BY <1>1 DEF Stores
  <2>2. \A x \in Call : Stores(x, n) => pc'[x] = pc[x] /\ job'[x] = job[x]
    BY <1>1 DEF Stores
  <2>3. Ledger(n)
    BY DEF CNInv, Ledgers
  <2> QED
    BY <2>1, <2>2, <2>3, LedgerUndisturbed
<1>4. CalmNodeKeepsQuota'
  <2>1. \A n \in Node : Usage(n)' = Usage(n)
    BY UsageIs
  <2> QED
    BY <2>1 DEF CNInv, CalmNodeKeepsQuota
<1>5. Calm' => Contents'
  <2> SUFFICES ASSUME Calm PROVE Contents'
    BY DEF Calm
  <2>1. \A x \in Call, d \in Data :
          Sole(d) /\ pc'[x] \in Carrying /\ job'[x].track = TrackOf[d] =>
            job'[x].bytes # <<>> /\ Beginning(job'[x].bytes, d)
    BY <1>1 DEF CNInv, Contents
  <2> QED
    BY <2>1 DEF CNInv, Contents
<1>6. Provided'
  <2>1. \A x \in Call : pc'[x] \in {"write", "account", "announce"} => x # c
    BY <1>1 DEF Storing
  <2> QED
    BY <1>1, <2>1 DEF CNInv, Provided
<1> QED
  BY <1>2, <1>3, <1>4, <1>5, <1>6 DEF CNInv

(* A call begins.                                                          *)
LEMMA BeginKeeps ==
  ASSUME CNInv, NEW c \in Call, NEW n \in Node,
         (\E d \in Data : BeginProvide(c, n, d)) \/ (\E t \in Track : BeginGet(c, n, t))
  PROVE  CNInv'
<1>1. CASE \E d \in Data : BeginProvide(c, n, d)
  <2>1. PICK d \in Data : Begin(c, "store", Providing(n, d))
    BY <1>1 DEF BeginProvide
  <2>2. PICK j : j = Providing(n, d)
    OBVIOUS
  <2>3. /\ j \in Jobs /\ j.done = 0 /\ j.track = TrackOf[d] /\ j.bytes = Bytes(d)
    <3>1. TrackOf[d] \in Track /\ Bytes(d) \in Seq(AnyByte)
      BY BytesOf DEF ContentAssumption
    <3> QED
      BY <2>2, <3>1 DEF Jobs, Providing, Job
  <2>4. GoodJob("store", j)
    BY <2>3 DEF GoodJob, Phases, Storing
  <2>5. /\ pc[c] = "idle" /\ Becomes(c, "store", j)
        /\ UNCHANGED <<disk, used, count, announced, restarts, health>>
        /\ made < MaxCalls /\ made' = made + 1
    BY <2>1, <2>2 DEF Begin, At, Goto, Becomes, archive
  <2>6. BooksOK' /\ ProviderHasFile'
    BY <2>5 DEF CNInv, CTypes, BooksOK, Provided, ProviderHasFile, ContentAssumption
  <2>7. \A e \in Data : Sole(e) /\ j.track = TrackOf[e] => j.bytes # <<>> /\ Beginning(j.bytes, e)
    <3> TAKE e \in Data
    <3> SUFFICES ASSUME Sole(e), j.track = TrackOf[e] PROVE j.bytes # <<>> /\ Beginning(j.bytes, e)
      OBVIOUS
    <3>1. d = e
      BY <2>3 DEF Sole
    <3> QED
      BY <2>3, <3>1, BytesOf DEF Beginning
  <2> QED
    BY <2>4, <2>5, <2>6, <2>7, Outside DEF Phases, Storing
<1>2. CASE \E t \in Track : BeginGet(c, n, t)
  <2>1. PICK t \in Track : Begin(c, "local", Job("get", n, t, <<>>))
    BY <1>2 DEF BeginGet
  <2>2. PICK j : j = Job("get", n, t, <<>>)
    OBVIOUS
  <2>3. j \in Jobs /\ j.done = 0 /\ j.bytes = <<>>
    BY <2>2 DEF Jobs, Job
  <2>4. GoodJob("local", j)
    BY <2>3 DEF GoodJob, Phases, Storing
  <2>5. /\ pc[c] = "idle" /\ Becomes(c, "local", j)
        /\ UNCHANGED <<disk, used, count, announced, restarts, health>>
        /\ made < MaxCalls /\ made' = made + 1
    BY <2>1, <2>2 DEF Begin, At, Goto, Becomes, archive
  <2>6. BooksOK' /\ ProviderHasFile'
    BY <2>5 DEF CNInv, CTypes, BooksOK, Provided, ProviderHasFile, ContentAssumption
  <2> QED
    BY <2>4, <2>5, <2>6, Outside DEF Phases, Storing, Carrying
<1> QED
  BY <1>1, <1>2

(* The track of d at some node, if the network is calm: a beginning of d.  *)
LEMMA HeldIsBeginning ==
  ASSUME CNInv, Calm, NEW n \in Node, NEW t \in Track, Holds(n, t),
         NEW d \in Data, Sole(d), TrackOf[d] = t
  PROVE  disk[n][Key(t)] # <<>> /\ Beginning(disk[n][Key(t)], d)
  BY DEF Holds, CNInv, Contents

(* A call looks for its track, here and elsewhere, and returns.            *)
LEMMA LookingKeeps ==
  ASSUME CNInv, NEW c \in Call,
         \/ LookLocal(c) \/ FindProviders(c) \/ NoProvider(c) \/ Return(c) \/ Announce(c)
         \/ \E n \in Node : FetchContent(c, n)
  PROVE  CNInv'
<1> DEFINE o == job[c]
<1>1. pc[c] # "idle" => /\ o \in Jobs /\ o.done <= Len(o.bytes)
                        /\ pc[c] \in {"local", "find", "fetch"} => o.done = 0
  BY DEF CNInv, CTypes, CallsOK
<1>2. BooksOK
  BY DEF CNInv, CTypes
<1>4. UNCHANGED job => job' = [job EXCEPT ![c] = o]
  BY DEF CNInv, CTypes, CallsOK
<1>5. UNCHANGED pc => pc' = [pc EXCEPT ![c] = pc[c]]
  BY DEF CNInv, CTypes, CallsOK
<1>6. UNCHANGED <<disk, used, count, announced, made, restarts, health>> => BooksOK' /\ ProviderHasFile'
  BY <1>2 DEF BooksOK, CNInv, Provided, ProviderHasFile
<1>7. Calm /\ pc[c] \in Carrying =>
        \A d \in Data : Sole(d) /\ o.track = TrackOf[d] => o.bytes # <<>> /\ Beginning(o.bytes, d)
  BY DEF CNInv, Contents
<1> HIDE DEF o
<1>8. CASE LookLocal(c)
  <2>1. /\ pc[c] = "local" /\ UNCHANGED <<disk, used, count, announced, made, restarts, health>>
        /\ o \in Jobs /\ o.done = 0
    BY <1>1, <1>8 DEF LookLocal, At, archive
  <2>2. CASE ~ Holds(o.node, o.track)
    <3>1. Becomes(c, "find", o)
      BY <1>4, <1>8, <2>2 DEF LookLocal, Becomes, Goto, o
    <3>2. GoodJob("find", o)
      BY <1>1, <2>1 DEF GoodJob, Phases
    <3> QED
      BY <1>6, <2>1, <3>1, <3>2, Outside DEF Phases, Storing, Carrying
  <2>3. CASE Holds(o.node, o.track)
    <3>1. PICK j : j = [o EXCEPT !.bytes = disk[o.node][Key(o.track)]]
      OBVIOUS
    <3>2. o.node \in Node /\ o.track \in Track
      BY <2>1 DEF Jobs
    <3>3. disk[o.node][Key(o.track)] \in Seq(AnyByte)
      BY <2>3, <3>2 DEF Holds, CNInv, CTypes, DiskOK
    <3>4. j \in Jobs /\ j.done = 0 /\ j.bytes = disk[o.node][Key(o.track)] /\ j.track = o.track
      BY <2>1, <3>1, <3>3 DEF Jobs
    <3>5. Becomes(c, "served", j)
      BY <1>8, <2>3, <3>1 DEF LookLocal, Becomes, Goto, o
    <3>6. GoodJob("served", j)
      BY <3>4 DEF GoodJob, Phases, Jobs
    <3>7. Calm => \A d \in Data : Sole(d) /\ j.track = TrackOf[d] =>
                                  j.bytes # <<>> /\ Beginning(j.bytes, d)
      BY <2>3, <3>2, <3>4, HeldIsBeginning
    <3> QED
      BY <1>6, <2>1, <3>5, <3>6, <3>7, Outside DEF Phases, Storing
  <2> QED
    BY <2>2, <2>3
<1>9. CASE FindProviders(c)
  <2>1. /\ pc[c] = "find" /\ UNCHANGED <<disk, used, count, announced, made, restarts, health>>
        /\ o \in Jobs /\ o.done = 0
    BY <1>1, <1>9 DEF FindProviders, At, archive
  <2>2. PICK found \in SUBSET {p \in Node : o.track \in announced[p]} :
          job' = [job EXCEPT ![c].left = found \ {o.node}]
    BY <1>9 DEF FindProviders, o
  <2>3. PICK j : j = [o EXCEPT !.left = found \ {o.node}]
    OBVIOUS
  <2>4. j \in Jobs /\ j.done = 0
    BY <2>1, <2>2, <2>3 DEF Jobs
  <2>5. Becomes(c, "fetch", j)
    BY <1>9, <2>2, <2>3 DEF FindProviders, Becomes, Goto, o
  <2>6. GoodJob("fetch", j)
    BY <2>4 DEF GoodJob, Phases, Jobs
  <2> QED
    BY <1>6, <2>1, <2>5, <2>6, Outside DEF Phases, Storing, Carrying
<1>10. CASE NoProvider(c)
  <2>1. /\ pc[c] = "fetch" /\ UNCHANGED <<disk, used, count, announced, made, restarts, health>>
        /\ o \in Jobs /\ o.done <= Len(o.bytes) /\ UNCHANGED job
    BY <1>1, <1>10 DEF NoProvider, At, archive
  <2>2. Becomes(c, "failed", o) /\ GoodJob("failed", o)
    BY <1>4, <1>10, <2>1 DEF NoProvider, Becomes, Goto, GoodJob, Phases
  <2> QED
    BY <1>6, <2>1, <2>2, Outside DEF Phases, Storing, Carrying
<1>11. CASE Return(c)
  <2>1. /\ pc[c] \in {"served", "failed"}
        /\ UNCHANGED <<disk, used, count, announced, made, restarts, health>>
    BY <1>11 DEF Return, archive
  <2>2. Becomes(c, "idle", NoJob) /\ GoodJob("idle", NoJob)
    BY <1>11 DEF Return, Becomes, Goto, GoodJob, Phases
  <2> QED
    BY <1>6, <2>1, <2>2, Outside DEF Phases, Storing, Carrying
<1>12. CASE Announce(c)
  <2>1. /\ pc[c] = "announce" /\ UNCHANGED <<disk, used, count, made, restarts, health>>
        /\ o \in Jobs /\ o.done <= Len(o.bytes) /\ UNCHANGED job
        /\ o.node \in Node /\ o.track \in Track
    BY <1>1, <1>12 DEF Announce, At, archive, Jobs
  <2>2. BooksOK' /\ ProviderHasFile'
    <3>1. Key(o.track) \in DOMAIN disk[o.node]
      BY <2>1 DEF CNInv, Provided, o
    <3>2. CASE UNCHANGED announced
      BY <1>6, <2>1, <3>2
    <3>3. CASE announced' = [announced EXCEPT ![o.node] = @ \cup {o.track}]
      <4>1. \A n \in Node : announced'[n] = IF n = o.node THEN announced[n] \cup {o.track} ELSE announced[n]
        BY <1>2, <3>3 DEF BooksOK
      <4>2. ProviderHasFile'
        BY <2>1, <3>1, <4>1 DEF CNInv, Provided, ProviderHasFile
      <4>3. announced' \in [Node -> SUBSET Track]
        BY <1>2, <2>1, <3>3 DEF BooksOK
      <4> QED
        BY <1>2, <2>1, <4>2, <4>3 DEF BooksOK
    <3> QED
      BY <1>12, <3>2, <3>3 DEF Announce, o
  <2>3. PICK p \in {"served", "failed"} : Becomes(c, p, o) /\ GoodJob(p, o)
    BY <1>4, <1>12, <2>1 DEF Announce, Becomes, Goto, GoodJob, Phases
  <2>4. Calm /\ p \in Carrying =>
          \A d \in Data : Sole(d) /\ o.track = TrackOf[d] => o.bytes # <<>> /\ Beginning(o.bytes, d)
    BY <1>7, <2>1 DEF Carrying
  <2> QED
    BY <2>1, <2>2, <2>3, <2>4, Outside DEF Phases, Storing
<1>13. CASE \E n \in Node : FetchContent(c, n)
  <2>1. PICK n \in Node : FetchContent(c, n)
    BY <1>13
  <2>2. /\ pc[c] = "fetch" /\ UNCHANGED <<disk, used, count, announced, made, restarts, health>>
        /\ o \in Jobs /\ o.done = 0 /\ o.track \in Track
    BY <1>1, <2>1 DEF FetchContent, At, archive, Jobs
  <2>3. CASE /\ Holds(n, o.track) /\ Goto(c, "store")
             /\ job' = [job EXCEPT ![c].bytes = disk[n][Key(o.track)], ![c].left = {}]
    <3>1. PICK j : j = [o EXCEPT !.bytes = disk[n][Key(o.track)], !.left = {}]
      OBVIOUS
    <3>2. disk[n][Key(o.track)] \in Seq(AnyByte)
      BY <2>2, <2>3 DEF Holds, CNInv, CTypes, DiskOK
    <3>3. j \in Jobs /\ j.done = 0 /\ j.bytes = disk[n][Key(o.track)] /\ j.track = o.track
      BY <2>2, <3>1, <3>2 DEF Jobs
    <3>4. Becomes(c, "store", j)
      BY <2>3, <3>1 DEF Becomes, Goto, o
    <3>5. GoodJob("store", j)
      BY <3>3 DEF GoodJob, Phases, Jobs, Storing
    <3>6. Calm => \A d \in Data : Sole(d) /\ j.track = TrackOf[d] =>
                                  j.bytes # <<>> /\ Beginning(j.bytes, d)
      BY <2>2, <2>3, <3>3, HeldIsBeginning
    <3> QED
      BY <1>6, <2>2, <3>4, <3>5, <3>6, Outside DEF Phases, Storing
  <2>4. CASE job' = [job EXCEPT ![c].left = @ \ {n}] /\ UNCHANGED pc
    <3>1. PICK j : j = [o EXCEPT !.left = @ \ {n}]
      OBVIOUS
    <3>2. j \in Jobs /\ j.done = 0
      BY <2>2, <3>1 DEF Jobs
    <3>3. Becomes(c, "fetch", j)
      BY <1>5, <2>2, <2>4, <3>1 DEF Becomes, o
    <3>4. GoodJob("fetch", j)
      BY <3>2 DEF GoodJob, Phases, Jobs
    <3> QED
      BY <1>6, <2>2, <3>3, <3>4, Outside DEF Phases, Storing, Carrying
  <2> QED
    BY <2>1, <2>3, <2>4 DEF FetchContent, o
<1> QED
  BY <1>8, <1>9, <1>10, <1>11, <1>12, <1>13

-----------------------------------------------------------------------------
(* A store moves on at its node.                                           *)
LEMMA Inside ==
  ASSUME CNInv, NEW c \in Call, NEW p \in Phases, NEW j, NEW n \in Node, NEW t \in Track,
         pc[c] \in Storing \cup {"store"}, p # "idle", GoodJob(p, j), Becomes(c, p, j),
         job[c].node = n, job[c].track = t,
         j.node = n, j.track = t, j.bytes = job[c].bytes,
         DiskOK', BooksOK', UNCHANGED announced,
         \A m \in Node \ {n} : /\ disk'[m] = disk[m] /\ used'[m] = used[m]
                               /\ count'[m] = count[m] /\ health'[m] = health[m],
         health'[n] = "calm" => health[n] = "calm",
         \A k \in DOMAIN disk[n] : k \in DOMAIN disk'[n] /\ (k # Key(t) => disk'[n][k] = disk[n][k]),
         \A k \in DOMAIN disk'[n] : k # Key(t) => k \in DOMAIN disk[n],
         p \in {"write", "account", "announce"} => Key(t) \in DOMAIN disk'[n],
         health'[n] # "unsettled" => Ledger(n)',
         health'[n] = "calm" /\ Quota > 0 => Usage(n)' <= Quota,
         Calm' /\ Key(t) \in DOMAIN disk'[n] =>
           \A d \in Data : Sole(d) /\ TrackOf[d] = t => Beginning(disk'[n][Key(t)], d)
  PROVE  CNInv'
<1>1. /\ CallsOK' /\ pc'[c] = p /\ job'[c] = j
      /\ \A x \in Call : x # c => pc'[x] = pc[x] /\ job'[x] = job[x]
  BY CallsKeep DEF CNInv, CTypes
<1>2. CTypes'
  BY <1>1 DEF CTypes
<1>3. Ledgers'
  <2> SUFFICES ASSUME NEW m \in Node, m # n, health[m] # "unsettled" PROVE Ledger(m)'
    BY DEF Ledgers
  <2>1. \A x \in Call : Stores(x, m)' <=> Stores(x, m)
    BY <1>1 DEF Stores
  <2>2. \A x \in Call : Stores(x, m) => pc'[x] = pc[x] /\ job'[x] = job[x]
    BY <1>1 DEF Stores
  <2>3. Ledger(m)
    BY DEF CNInv, Ledgers
  <2> QED
    BY <2>1, <2>2, <2>3, LedgerUndisturbed
<1>4. CalmNodeKeepsQuota'
  <2>1. \A m \in Node : m # n => Usage(m)' = Usage(m)
    BY UsageIs
  <2>2. \A m \in Node : m # n /\ Quota > 0 /\ health'[m] = "calm" => Usage(m)' <= Quota
    BY <2>1 DEF CNInv, CalmNodeKeepsQuota
  <2> QED
    BY <2>2 DEF CalmNodeKeepsQuota
<1>5. Calm' => Contents'
  <2> SUFFICES ASSUME Calm' PROVE Contents'
    OBVIOUS
  <2>1. Calm /\ Contents
    BY DEF Calm, CNInv
  <2>2. ASSUME NEW d \in Data, Sole(d), NEW m \in Node, Key(TrackOf[d]) \in DOMAIN disk'[m]
        PROVE  Beginning(disk'[m][Key(TrackOf[d])], d)
    <3>1. CASE m = n /\ TrackOf[d] = t
      BY <2>2, <3>1
    <3>2. CASE m = n /\ TrackOf[d] # t
      <4>1. Key(TrackOf[d]) # Key(t)
        BY <3>2 DEF Key
      <4>2. Key(TrackOf[d]) \in DOMAIN disk[n] /\ disk'[n][Key(TrackOf[d])] = disk[n][Key(TrackOf[d])]
        BY <2>2, <3>2, <4>1
      <4> QED
        BY <2>1, <2>2, <3>2, <4>2 DEF Contents
    <3>3. CASE m # n
      BY <2>1, <2>2, <3>3 DEF Contents
    <3> QED
      BY <3>1, <3>2, <3>3
  <2>3. ASSUME NEW d \in Data, Sole(d), NEW x \in Call, pc'[x] \in Carrying,
               job'[x].track = TrackOf[d]
        PROVE  job'[x].bytes # <<>> /\ Beginning(job'[x].bytes, d)
    <3>1. pc[c] \in Carrying
      BY DEF Carrying, Storing
    <3>2. pc[x] \in Carrying /\ job[x].track = TrackOf[d] /\ job'[x].bytes = job[x].bytes
      BY <1>1, <2>3, <3>1
    <3> QED
      BY <2>1, <2>3, <3>2 DEF Contents
  <2> QED
    BY <2>2, <2>3 DEF Contents, Sole, Beginning
<1>6. Provided'
  <2>1. \A m \in Node : \A k : k \in DOMAIN disk[m] => k \in DOMAIN disk'[m]
    OBVIOUS
  <2>2. ProviderHasFile'
    BY <2>1 DEF CNInv, Provided, ProviderHasFile
  <2>3. ASSUME NEW x \in Call, pc'[x] \in {"write", "account", "announce"}
        PROVE  Key(job'[x].track) \in DOMAIN disk'[job'[x].node]
    <3>1. CASE x = c
      BY <1>1, <2>3, <3>1
    <3>2. CASE x # c
      <4>1. job[x].node \in Node
        BY <1>1, <2>3, <3>2 DEF CNInv, CTypes, CallsOK, Jobs
      <4> QED
        BY <1>1, <2>1, <2>3, <3>2, <4>1 DEF CNInv, Provided
    <3> QED
      BY <3>1, <3>2
  <2> QED
    BY <2>2, <2>3 DEF Provided
<1> QED
  BY <1>2, <1>3, <1>4, <1>5, <1>6 DEF CNInv

(* What is known of a store.                                               *)
LEMMA StoreKnown ==
  ASSUME CNInv, NEW c \in Call, pc[c] \in Storing \cup {"store"}
  PROVE  /\ job[c] \in Jobs /\ job[c].node \in Node /\ job[c].track \in Track
         /\ job[c].bytes \in Seq(AnyByte) /\ Len(job[c].bytes) \in Nat
         /\ job[c].done \in Nat /\ job[c].done <= Len(job[c].bytes)
         /\ pc[c] \in {"store", "open"} => job[c].done = 0
         /\ job = [job EXCEPT ![c] = job[c]] /\ pc = [pc EXCEPT ![c] = pc[c]]
         /\ StoreFailed(c) \in {"failed", "served"}
         /\ pc[c] \in {"write", "account"} => Key(job[c].track) \in DOMAIN disk[job[c].node]
<1>1. job[c] \in Jobs /\ job[c].done <= Len(job[c].bytes)
      /\ (pc[c] \in {"store", "open"} => job[c].done = 0)
  BY DEF CNInv, CTypes, CallsOK, Storing
<1>2. job = [job EXCEPT ![c] = job[c]] /\ pc = [pc EXCEPT ![c] = pc[c]]
  BY DEF CNInv, CTypes, CallsOK
<1>3. pc[c] \in {"write", "account"} => Key(job[c].track) \in DOMAIN disk[job[c].node]
  BY DEF CNInv, Provided
<1>4. /\ job[c].node \in Node /\ job[c].track \in Track /\ job[c].bytes \in Seq(AnyByte)
      /\ job[c].done \in Nat
  BY <1>1 DEF Jobs
<1> QED
  BY <1>1, <1>2, <1>3, <1>4 DEF StoreFailed

(* The ledger of a node at which c is the only store.                      *)
LEMMA OwnLedger ==
  ASSUME CNInv, NEW c \in Call, NEW n \in Node, NEW p, NEW j, GoodJob(p, j), Becomes(c, p, j),
         \A x \in Call : Stores(x, n) => x = c, j.node = n,
         p \in Storing => Booked(c, n, Key(job[c].track))',
         p \notin Storing => Balanced(n)'
  PROVE  Ledger(n)'
<1>1. /\ pc'[c] = p /\ job'[c] = j
      /\ \A x \in Call : x # c => pc'[x] = pc[x] /\ job'[x] = job[x]
  BY CallsKeep DEF CNInv, CTypes
<1>2. \A x \in Call : Stores(x, n)' => x = c
  BY <1>1 DEF Stores
<1>3. Stores(c, n)' <=> p \in Storing
  BY <1>1 DEF Stores
<1> QED
  BY <1>2, <1>3, LedgerOfOne

(* The usage of a node, with one of its files taken out.                   *)
LEMMA UsageSplit ==
  ASSUME DiskOK, NEW n \in Node, NEW k
  PROVE  /\ BytesIn(disk[n], DOMAIN disk[n] \ {k}) \in Nat
         /\ k \in DOMAIN disk[n] => Len(disk[n][k]) \in Nat
         /\ Usage(n) = (IF k \in DOMAIN disk[n] THEN Len(disk[n][k]) ELSE 0)
                          + BytesIn(disk[n], DOMAIN disk[n] \ {k})
<1>1. IsFiniteSet(DOMAIN disk[n]) /\ \A x \in DOMAIN disk[n] : Len(disk[n][x]) \in Nat
  <2>1. \A x \in DOMAIN disk[n] : disk[n][x] \in Seq(AnyByte)
    BY DEF DiskOK
  <2> QED
    BY <2>1 DEF DiskOK
<1>2. BytesIn(disk[n], DOMAIN disk[n] \ {k}) \in Nat
  <2>1. IsFiniteSet(DOMAIN disk[n] \ {k}) /\ \A x \in DOMAIN disk[n] \ {k} : Len(disk[n][x]) \in Nat
    BY <1>1, FS_Subset
  <2> QED
    BY <2>1, BytesAreCounted
<1>3. CASE k \in DOMAIN disk[n]
  BY <1>1, <1>2, <1>3, BytesWithout, UsageIs
<1>4. CASE k \notin DOMAIN disk[n]
  <2>1. DOMAIN disk[n] \ {k} = DOMAIN disk[n]
    BY <1>4
  <2>2. Usage(n) = BytesIn(disk[n], DOMAIN disk[n] \ {k})
    BY <2>1, UsageIs
  <2>3. Usage(n) = 0 + BytesIn(disk[n], DOMAIN disk[n] \ {k})
    BY ONLY <1>2, <2>2
  <2> QED
    BY <1>2, <1>4, <2>3
<1> QED
  BY <1>3, <1>4

(* archive.go Store: the quota is checked.                                 *)
LEMMA CheckQuotaKeeps ==
  ASSUME CNInv, NEW c \in Call, CheckQuota(c)
  PROVE  CNInv'
<1>1. PICK o \in Jobs, n \in Node, t \in Track : o = job[c] /\ n = job[c].node /\ t = job[c].track
  BY StoreKnown DEF CheckQuota, At
<1>2. /\ o \in Jobs /\ o.node = n /\ o.track = t /\ o.bytes \in Seq(AnyByte) /\ Len(o.bytes) \in Nat
      /\ o.done = 0 /\ pc[c] = "store" /\ StoreFailed(c) \in {"failed", "served"}
  BY <1>1, StoreKnown DEF CheckQuota, At
<1>3. DiskOK /\ BooksOK
  BY DEF CNInv, CTypes
<1>4. PICK prev : prev = IF Key(t) \in DOMAIN disk[n] THEN Len(disk[n][Key(t)]) ELSE -1
  OBVIOUS
<1>5. prev \in Int /\ (prev >= 0 <=> Key(t) \in DOMAIN disk[n])
      /\ (prev >= 0 => prev = Len(disk[n][Key(t)])) /\ used[n] \in Int
  BY <1>3, <1>4, UsageSplit DEF BooksOK
<1>6. PICK newUsed \in Int :
        newUsed = used[n] + Len(o.bytes) - (IF prev >= 0 THEN prev ELSE 0)
  <2>1. PICK length \in Nat : length = Len(o.bytes)
    BY <1>2, Zenon
  <2>2. used[n] \in Int /\ prev \in Int
    BY <1>5, Zenon
  <2>3. used[n] + length - (IF prev >= 0 THEN prev ELSE 0) \in Int
    BY <2>2
  <2> QED
    BY <2>1, <2>3, Zenon
<1>7. newUsed = NewUsed(c, prev)
  BY <1>1, <1>6 DEF NewUsed
<1>8. PICK j : j = [o EXCEPT !.prev = prev, !.newUsed = newUsed]
  OBVIOUS
<1>9. /\ j \in Jobs /\ j.node = n /\ j.track = t /\ j.bytes = o.bytes /\ j.done = 0
      /\ j.prev = prev /\ j.newUsed = newUsed
  BY <1>2, <1>5, <1>6, <1>8 DEF Jobs
<1>10. PICK p : p = IF Fits(newUsed, n) THEN "open" ELSE StoreFailed(c)
  OBVIOUS
<1>11. p \in {"open", "failed", "served"} /\ (p = "open" => Fits(newUsed, n))
  BY <1>2, <1>10
<1>12. GoodJob(p, j)
  BY <1>2, <1>9, <1>11 DEF GoodJob, Phases, Storing
<1>13. /\ Becomes(c, p, j) /\ UNCHANGED <<disk, used, count, announced, made, restarts>>
       /\ IF \E x \in Call : pc[x] \in Storing /\ job[x].node = n
          THEN Unsettle(n) ELSE UNCHANGED health
  <2>1. job' = [job EXCEPT ![c].prev = prev, ![c].newUsed = newUsed]
    BY <1>1, <1>4, <1>7 DEF CheckQuota
  <2>2. job' = [job EXCEPT ![c] = j]
    BY <1>1, <1>8, <2>1
  <2>3. pc' = [pc EXCEPT ![c] = p]
    BY <1>1, <1>4, <1>7, <1>10 DEF CheckQuota, Goto
  <2>4. /\ UNCHANGED <<disk, used, count, announced, made, restarts>>
        /\ IF \E x \in Call : pc[x] \in Storing /\ job[x].node = n
           THEN Unsettle(n) ELSE UNCHANGED health
    BY <1>1 DEF CheckQuota, archive
  <2> QED
    BY <2>2, <2>3, <2>4 DEF Becomes
<1>14. /\ \A m \in Node \ {n} : health'[m] = health[m]
       /\ health'[n] # "unsettled" => health' = health /\ \A x \in Call : ~ Stores(x, n)
       /\ health' \in [Node -> {"calm", "unsettled", "rescanned"}]
  BY <1>3, <1>13 DEF Unsettle, BooksOK, Stores
<1>15. DiskOK' /\ BooksOK'
  BY <1>3, <1>13, <1>14 DEF DiskOK, BooksOK
<1>16. ASSUME health'[n] # "unsettled" PROVE Ledger(n)'
  <2>1. Balanced(n)
    BY <1>14, <1>16 DEF CNInv, Ledgers, Ledger
  <2>2. Balanced(n)'
    BY <1>13, <2>1, UsageIs DEF Balanced
  <2>3. pc'[c] = p /\ job'[c] = j
    BY <1>12, <1>13, CallsKeep DEF CNInv, CTypes
  <2>4. ASSUME p = "open" PROVE Booked(c, n, Key(t))'
    <3>1. newUsed = BytesIn(disk[n], DOMAIN disk[n] \ {Key(t)}) + Len(o.bytes)
      <4>1. /\ BytesIn(disk[n], DOMAIN disk[n] \ {Key(t)}) \in Nat
            /\ used[n] = (IF Key(t) \in DOMAIN disk[n] THEN Len(disk[n][Key(t)]) ELSE 0)
                           + BytesIn(disk[n], DOMAIN disk[n] \ {Key(t)})
        BY <1>3, <2>1, UsageSplit DEF Balanced
      <4>2. CASE prev >= 0
        BY <1>2, <1>5, <1>6, <4>1, <4>2
      <4>3. CASE ~ (prev >= 0)
        BY <1>2, <1>5, <1>6, <4>1, <4>3
      <4> QED
        BY <4>2, <4>3
    <3>2. prev < 0 <=> Key(t) \notin DOMAIN disk[n]
      BY <1>5
    <3>3. Fits(newUsed, n)
      BY <1>11, <2>4
    <3> QED
      BY <1>9, <1>13, <2>2, <2>3, <2>4, <3>1, <3>2, <3>3 DEF Booked, Fits
  <2>5. Key(job[c].track)' = Key(t)
    BY <1>9, <2>3
  <2>6. p \in Storing => Booked(c, n, Key(job[c].track))'
    BY <1>9, <1>11, <2>3, <2>4 DEF Storing
  <2> QED
    BY <1>9, <1>12, <1>13, <1>14, <1>16, <2>2, <2>6, OwnLedger
<1>17. health'[n] = "calm" => health[n] = "calm"
  BY <1>14
<1>18. health'[n] = "calm" /\ Quota > 0 => Usage(n)' <= Quota
  BY <1>13, <1>17, UsageIs DEF CNInv, CalmNodeKeepsQuota
<1>19. Calm' /\ Key(t) \in DOMAIN disk'[n] =>
         \A d \in Data : Sole(d) /\ TrackOf[d] = t => Beginning(disk'[n][Key(t)], d)
  <2>1. Calm' => Calm
    BY <1>14, <1>17 DEF Calm
  <2> QED
    BY <1>13, <2>1 DEF CNInv, Contents
<1>20. p \in Phases /\ p # "idle" /\ p \notin {"write", "account", "announce"}
  BY <1>11 DEF Phases, Storing
<1> QED
  BY <1>1, <1>2, <1>9, <1>12, <1>13, <1>14, <1>15, <1>16, <1>17, <1>18, <1>19, <1>20, Inside

(* os.WriteFile: the file is opened and is empty now, or cannot be opened. *)
LEMMA OpenKeeps ==
  ASSUME CNInv, NEW c \in Call, OpenTruncated(c)
  PROVE  CNInv'
<1>1. PICK o \in Jobs, n \in Node, t \in Track : o = job[c] /\ n = job[c].node /\ t = job[c].track
  BY StoreKnown DEF OpenTruncated, At, Storing
<1>2. /\ o \in Jobs /\ o.node = n /\ o.track = t /\ o.bytes \in Seq(AnyByte) /\ Len(o.bytes) \in Nat
      /\ o.done = 0 /\ pc[c] = "open" /\ StoreFailed(c) \in {"failed", "served"}
      /\ pc[c] \in Storing /\ Stores(c, n)
  BY <1>1, StoreKnown DEF OpenTruncated, At, Storing, Stores
<1>3. DiskOK /\ BooksOK
  BY DEF CNInv, CTypes
<1>4. /\ UNCHANGED <<used, count, announced, job, made, restarts, health>>
      /\ \/ Goto(c, "write") /\ SetFile(n, Key(t), <<>>)
         \/ Goto(c, StoreFailed(c)) /\ UNCHANGED disk
  BY <1>1 DEF OpenTruncated
<1>5. job' = [job EXCEPT ![c] = o]
  BY <1>1, <1>2, <1>4, StoreKnown
<1>6. BooksOK'
  BY <1>3, <1>4 DEF BooksOK
<1>7. ASSUME health[n] # "unsettled"
      PROVE  /\ \A x \in Call : Stores(x, n) => x = c
             /\ Booked(c, n, Key(t)) /\ Balanced(n)
  BY <1>1, <1>2, <1>7 DEF CNInv, Ledgers, Ledger, Booked
<1>8. CASE Goto(c, StoreFailed(c)) /\ UNCHANGED disk
  <2>1. PICK p \in {"failed", "served"} : p = StoreFailed(c)
    BY <1>2
  <2>2. Becomes(c, p, o) /\ GoodJob(p, o) /\ p \in Phases /\ p \notin Storing
    BY <1>2, <1>5, <1>8, <2>1 DEF Becomes, Goto, GoodJob, Phases, Storing
  <2>3. DiskOK'
    BY <1>3, <1>8 DEF DiskOK
  <2>4. ASSUME health'[n] # "unsettled" PROVE Ledger(n)'
    <3>1. health[n] # "unsettled"
      BY <1>4, <2>4
    <3>2. Balanced(n)'
      BY <1>4, <1>7, <1>8, <3>1, UsageIs DEF Balanced
    <3> QED
      BY <1>2, <1>7, <2>2, <3>1, <3>2, OwnLedger
  <2>5. health'[n] = "calm" /\ Quota > 0 => Usage(n)' <= Quota
    BY <1>4, <1>8, UsageIs DEF CNInv, CalmNodeKeepsQuota
  <2>6. Calm' /\ Key(t) \in DOMAIN disk'[n] =>
          \A d \in Data : Sole(d) /\ TrackOf[d] = t => Beginning(disk'[n][Key(t)], d)
    BY <1>4, <1>8 DEF CNInv, Contents, Calm
  <2>7. p # "idle" /\ p \notin {"write", "account", "announce"}
    BY <2>1
  <2> QED
    BY <1>1, <1>2, <1>4, <1>6, <1>8, <2>2, <2>3, <2>4, <2>5, <2>6, <2>7, Inside
<1>9. CASE Goto(c, "write") /\ SetFile(n, Key(t), <<>>)
  <2>1. Becomes(c, "write", o) /\ GoodJob("write", o) /\ "write" \in Phases /\ "write" \in Storing
    BY <1>2, <1>5, <1>9 DEF Becomes, Goto, GoodJob, Phases, Storing
  <2>2. <<>> \in Seq(AnyByte) /\ Len(<<>>) = 0
    OBVIOUS
  <2>3. /\ DiskOK'
        /\ \A m \in Node \ {n} : disk'[m] = disk[m]
        /\ DOMAIN disk'[n] = DOMAIN disk[n] \cup {Key(t)}
        /\ disk'[n][Key(t)] = <<>>
        /\ \A x \in DOMAIN disk[n] : x # Key(t) => disk'[n][x] = disk[n][x]
        /\ BytesIn(disk'[n], DOMAIN disk'[n] \ {Key(t)})
             = BytesIn(disk[n], DOMAIN disk[n] \ {Key(t)})
        /\ BytesIn(disk[n], DOMAIN disk[n] \ {Key(t)}) \in Nat
        /\ Usage(n)' = Len(<<>>) + BytesIn(disk[n], DOMAIN disk[n] \ {Key(t)})
    BY <1>3, <1>9, <2>2, FileSet
  <2>4. pc'[c] = "write" /\ job'[c] = o
    BY <2>1, CallsKeep DEF CNInv, CTypes
  <2>5. ASSUME health'[n] # "unsettled" PROVE Ledger(n)'
    <3>1. health[n] # "unsettled"
      BY <1>4, <2>5
    <3>2. Booked(c, n, Key(t)) /\ Balanced(n) /\ \A x \in Call : Stores(x, n) => x = c
      BY <1>7, <3>1
    <3>3. count[n] = Cardinality(DOMAIN disk'[n]) - (IF o.prev < 0 THEN 1 ELSE 0)
      <4>1. IsFiniteSet(DOMAIN disk[n]) /\ Cardinality(DOMAIN disk[n]) \in Nat
        BY <1>3, FS_CardinalityType DEF DiskOK
      <4>2. Cardinality(DOMAIN disk'[n]) = IF Key(t) \in DOMAIN disk[n] THEN Cardinality(DOMAIN disk[n])
                                           ELSE Cardinality(DOMAIN disk[n]) + 1
        BY <2>3, <4>1, FS_AddElement
      <4>3. o.prev < 0 <=> Key(t) \notin DOMAIN disk[n]
        BY <1>1, <1>2, <3>2 DEF Booked
      <4>4. count[n] = Cardinality(DOMAIN disk[n])
        BY <3>2 DEF Balanced
      <4> QED
        BY <4>1, <4>2, <4>3, <4>4
    <3>4. /\ o.newUsed = BytesIn(disk[n], DOMAIN disk[n] \ {Key(t)}) + Len(o.bytes)
          /\ Fits(o.newUsed, n)
      BY <1>1, <3>2 DEF Booked
    <3>5. Booked(c, n, Key(t))'
      <4>1. /\ Key(t) \in DOMAIN disk'[n] /\ Len(disk'[n][Key(t)]) = o.done
            /\ \A i \in 1..o.done : disk'[n][Key(t)][i] = o.bytes[i]
        BY <1>2, <2>2, <2>3
      <4>2. count'[n] = Cardinality(DOMAIN disk'[n]) - (IF o.prev < 0 THEN 1 ELSE 0)
        BY <1>4, <3>3
      <4>3. /\ o.newUsed = BytesIn(disk'[n], DOMAIN disk'[n] \ {Key(t)}) + Len(o.bytes)
            /\ Fits(o.newUsed, n)'
        BY <2>3, <3>4 DEF Fits
      <4> QED
        BY <2>4, <4>1, <4>2, <4>3 DEF Booked
    <3>6. Key(job[c].track)' = Key(t)
      BY <1>2, <2>4
    <3>7. Booked(c, n, Key(job[c].track))'
      BY <1>2, <2>4, <3>5
    <3> QED
      BY <1>2, <2>1, <3>2, <3>7, OwnLedger
  <2>6. ASSUME health'[n] = "calm", Quota > 0 PROVE Usage(n)' <= Quota
    <3>1. /\ o.newUsed = BytesIn(disk[n], DOMAIN disk[n] \ {Key(t)}) + Len(o.bytes)
          /\ Fits(o.newUsed, n)
      BY <1>1, <1>4, <1>7, <2>6 DEF Booked
    <3> QED
      BY <1>2, <2>2, <2>3, <2>6, <3>1 DEF Fits, ContentAssumption
  <2>7. \A d \in Data : Sole(d) /\ TrackOf[d] = t => Beginning(disk'[n][Key(t)], d)
    BY <2>2, <2>3, BytesOf DEF Beginning
  <2> QED
    BY <1>1, <1>2, <1>4, <1>6, <2>1, <2>3, <2>5, <2>6, <2>7, Inside
<1> QED
  BY <1>4, <1>8, <1>9

(* os.WriteFile: a byte is written.                                        *)
LEMMA WriteKeeps ==
  ASSUME CNInv, NEW c \in Call, Write(c)
  PROVE  CNInv'
<1>1. PICK o \in Jobs, n \in Node, t \in Track : o = job[c] /\ n = job[c].node /\ t = job[c].track
  BY StoreKnown DEF Write, At, Storing
<1>2. /\ o.node = n /\ o.track = t /\ o.bytes \in Seq(AnyByte) /\ Len(o.bytes) \in Nat
      /\ o.done \in Nat /\ pc[c] = "write" /\ Key(t) \in DOMAIN disk[n]
      /\ pc[c] \in Storing /\ Stores(c, n)
  BY <1>1, StoreKnown DEF Write, At, Storing, Stores
<1>3. DiskOK /\ BooksOK
  BY DEF CNInv, CTypes
<1>4. PICK i \in Nat \ {0} : i = o.done + 1
  BY <1>2
<1>5. PICK j : j = [o EXCEPT !.done = i]
  OBVIOUS
<1>6. /\ i <= Len(o.bytes) /\ SetFile(n, Key(t), WriteAt(disk[n][Key(t)], i, o.bytes[i]))
      /\ job' = [job EXCEPT ![c].done = i]
      /\ IF i = Len(o.bytes) THEN Goto(c, "account") ELSE UNCHANGED pc
      /\ UNCHANGED <<used, count, announced, made, restarts, health>>
  BY <1>1, <1>4 DEF Write
<1>7. /\ j \in Jobs /\ j.node = n /\ j.track = t /\ j.bytes = o.bytes /\ j.done = i
      /\ j.prev = o.prev /\ j.newUsed = o.newUsed
  BY <1>2, <1>5 DEF Jobs
<1>8. job' = [job EXCEPT ![c] = j]
  BY <1>1, <1>5, <1>6
<1>9. PICK p \in {"write", "account"} :
        /\ pc' = [pc EXCEPT ![c] = p]
        /\ p = "account" => i = Len(o.bytes)
  BY <1>2, <1>6, StoreKnown DEF Goto
<1>10. Becomes(c, p, j) /\ GoodJob(p, j) /\ p \in Phases /\ p \in Storing
  BY <1>6, <1>7, <1>8, <1>9 DEF Becomes, GoodJob, Phases, Storing
<1>11. PICK file : file = WriteAt(disk[n][Key(t)], i, o.bytes[i])
  OBVIOUS
<1>12. /\ file \in Seq(AnyByte) /\ file[i] = o.bytes[i]
       /\ i = Len(disk[n][Key(t)]) + 1 =>
              /\ Len(file) = i
              /\ \A x \in 1..Len(disk[n][Key(t)]) : file[x] = disk[n][Key(t)][x]
  <2>1. disk[n][Key(t)] \in Seq(AnyByte)
    BY <1>2, <1>3 DEF DiskOK
  <2>2. o.bytes[i] \in AnyByte
    BY <1>2, <1>4, <1>6
  <2>3. PICK old \in Seq(AnyByte) : old = disk[n][Key(t)]
    BY <2>1
  <2>4. PICK byte \in AnyByte : byte = o.bytes[i]
    BY <2>2
  <2>5. /\ WriteAt(old, i, byte) \in Seq(AnyByte)
        /\ WriteAt(old, i, byte)[i] = byte
        /\ i = Len(old) + 1 =>
             /\ Len(WriteAt(old, i, byte)) = i
             /\ \A x \in 1..Len(old) : WriteAt(old, i, byte)[x] = old[x]
    BY ByteWritten
  <2>6. file = WriteAt(old, i, byte)
    BY <1>11, <2>3, <2>4
  <2> QED
    BY ONLY <2>3, <2>4, <2>5, <2>6
<1>13. /\ DiskOK'
       /\ \A m \in Node \ {n} : disk'[m] = disk[m]
       /\ DOMAIN disk'[n] = DOMAIN disk[n] \cup {Key(t)}
       /\ disk'[n][Key(t)] = file
       /\ \A x \in DOMAIN disk[n] : x # Key(t) => disk'[n][x] = disk[n][x]
       /\ BytesIn(disk'[n], DOMAIN disk'[n] \ {Key(t)})
            = BytesIn(disk[n], DOMAIN disk[n] \ {Key(t)})
       /\ BytesIn(disk[n], DOMAIN disk[n] \ {Key(t)}) \in Nat
       /\ Usage(n)' = Len(file) + BytesIn(disk[n], DOMAIN disk[n] \ {Key(t)})
  <2>1. SetFile(n, Key(t), file)
    BY <1>6, <1>11
  <2> QED
    BY <1>3, <1>12, <2>1, FileSet
<1>14. pc'[c] = p /\ job'[c] = j
  BY <1>10, CallsKeep DEF CNInv, CTypes
<1>15. BooksOK'
  BY <1>3, <1>6 DEF BooksOK
<1>16. ASSUME health[n] # "unsettled"
       PROVE  /\ \A x \in Call : Stores(x, n) => x = c
              /\ o.newUsed = BytesIn(disk[n], DOMAIN disk[n] \ {Key(t)}) + Len(o.bytes)
              /\ Fits(o.newUsed, n)
              /\ Len(disk[n][Key(t)]) = o.done
              /\ \A x \in 1..o.done : disk[n][Key(t)][x] = o.bytes[x]
              /\ count[n] = Cardinality(DOMAIN disk[n]) - (IF o.prev < 0 THEN 1 ELSE 0)
  <2>1. Ledger(n)
    BY <1>16 DEF CNInv, Ledgers
  <2>2. Booked(c, n, Key(t))
    BY <1>1, <1>2, <2>1 DEF Ledger
  <2> QED
    BY <1>1, <1>2, <2>1, <2>2 DEF Ledger, Booked
<1>17. ASSUME health[n] # "unsettled"
       PROVE  /\ Len(file) = i
              /\ \A x \in 1..i : file[x] = o.bytes[x]
  <2>1. /\ Len(disk[n][Key(t)]) = o.done /\ \A x \in 1..o.done : disk[n][Key(t)][x] = o.bytes[x]
    BY <1>16, <1>17
  <2>2. Len(file) = i /\ \A x \in 1..o.done : file[x] = o.bytes[x]
    BY <1>4, <1>12, <2>1
  <2>3. \A x \in 1..i : x \in 1..o.done \/ x = i
    BY <1>2, <1>4
  <2> QED
    BY <1>12, <2>2, <2>3
<1>18. ASSUME health'[n] # "unsettled" PROVE Ledger(n)'
  <2>1. health[n] # "unsettled"
    BY <1>6, <1>18
  <2>2. /\ Key(t) \in DOMAIN disk'[n] /\ Len(disk'[n][Key(t)]) = j.done
        /\ \A x \in 1..j.done : disk'[n][Key(t)][x] = j.bytes[x]
    BY <1>7, <1>13, <1>17, <2>1
  <2>3. count'[n] = Cardinality(DOMAIN disk'[n]) - (IF j.prev < 0 THEN 1 ELSE 0)
    <3>1. DOMAIN disk'[n] = DOMAIN disk[n]
      BY <1>2, <1>13
    <3> QED
      BY <1>6, <1>7, <1>16, <2>1, <3>1
  <2>4. /\ j.newUsed = BytesIn(disk'[n], DOMAIN disk'[n] \ {Key(t)}) + Len(j.bytes)
        /\ Fits(j.newUsed, n)'
    BY <1>7, <1>13, <1>16, <2>1 DEF Fits
  <2>5. p = "account" => j.done = Len(j.bytes)
    BY <1>7, <1>9
  <2>6. Booked(c, n, Key(t))'
    BY <1>9, <1>14, <2>2, <2>3, <2>4, <2>5 DEF Booked
  <2>7. Booked(c, n, Key(job[c].track))'
    BY <1>7, <1>14, <2>6
  <2> QED
    BY <1>7, <1>10, <1>16, <2>1, <2>7, OwnLedger
<1>19. ASSUME health'[n] = "calm", Quota > 0 PROVE Usage(n)' <= Quota
  <2>1. health[n] # "unsettled"
    BY <1>6, <1>19
  <2>2. o.newUsed <= Quota
    BY <1>16, <1>19, <2>1 DEF Fits, ContentAssumption
  <2>3. Usage(n)' = i + BytesIn(disk[n], DOMAIN disk[n] \ {Key(t)})
    BY <1>13, <1>17, <2>1
  <2> QED
    BY <1>2, <1>6, <1>13, <1>16, <2>1, <2>2, <2>3 DEF ContentAssumption
<1>20. ASSUME Calm', NEW d \in Data, Sole(d), TrackOf[d] = t
       PROVE  Beginning(disk'[n][Key(t)], d)
  <2>1. Calm /\ health[n] # "unsettled"
    BY <1>6, <1>20 DEF Calm
  <2>2. Beginning(o.bytes, d)
    BY <1>1, <1>2, <1>20, <2>1 DEF CNInv, Contents, Carrying
  <2>3. Len(o.bytes) <= Size[d] /\ \A x \in 1..Len(o.bytes) : o.bytes[x] = <<d, x>>
    BY <2>2 DEF Beginning
  <2>4. Len(file) = i /\ \A x \in 1..i : file[x] = o.bytes[x]
    BY <1>17, <2>1
  <2>5. Size[d] \in Nat
    BY BytesOf
  <2>6. Beginning(file, d)
    <3>1. i <= Len(o.bytes) /\ Len(o.bytes) \in Nat
      BY <1>2, <1>6
    <3>2. i <= Size[d]
      BY <2>3, <2>5, <3>1
    <3>3. \A x \in 1..i : x \in 1..Len(o.bytes)
      BY <3>1
    <3>4. \A x \in 1..i : file[x] = <<d, x>>
      BY <2>3, <2>4, <3>3
    <3> QED
      BY <2>4, <3>2, <3>4 DEF Beginning
  <2> QED
    BY <1>13, <2>6
<1>21. /\ health'[n] = "calm" => health[n] = "calm"
       /\ \A m \in Node \ {n} : disk'[m] = disk[m] /\ used'[m] = used[m]
                               /\ count'[m] = count[m] /\ health'[m] = health[m]
  BY <1>6, <1>13
<1>22. p # "idle" /\ Key(t) \in DOMAIN disk'[n]
  BY <1>9, <1>13
<1>23. /\ \A k \in DOMAIN disk[n] : k \in DOMAIN disk'[n] /\ (k # Key(t) => disk'[n][k] = disk[n][k])
       /\ \A k \in DOMAIN disk'[n] : k # Key(t) => k \in DOMAIN disk[n]
       /\ DiskOK'
  BY <1>13, Zenon
<1>24. Calm' => \A d \in Data : Sole(d) /\ TrackOf[d] = t => Beginning(disk'[n][Key(t)], d)
  BY <1>20, Zenon
<1>25. /\ pc[c] \in Storing \cup {"store"} /\ job[c].node = n /\ job[c].track = t
       /\ j.node = n /\ j.track = t /\ j.bytes = job[c].bytes
       /\ p \in Phases /\ GoodJob(p, j) /\ UNCHANGED announced
  BY <1>1, <1>2, <1>6, <1>7, <1>10 DEF Storing, Phases
<1> QED
  BY <1>10, <1>15, <1>18, <1>19, <1>21, <1>22, <1>23, <1>24, <1>25, Inside

(* os.WriteFile fails: the node is unsettled now.                          *)
LEMMA WriteFailsKeeps ==
  ASSUME CNInv, NEW c \in Call, WriteFails(c)
  PROVE  CNInv'
<1>1. PICK o \in Jobs, n \in Node, t \in Track : o = job[c] /\ n = job[c].node /\ t = job[c].track
  BY StoreKnown DEF WriteFails, At, Storing
<1>2. /\ o.node = n /\ o.track = t /\ o.done <= Len(o.bytes) /\ pc[c] = "write"
      /\ pc[c] \in Storing /\ StoreFailed(c) \in {"failed", "served"}
  BY <1>1, StoreKnown DEF WriteFails, At, Storing
<1>3. DiskOK /\ BooksOK
  BY DEF CNInv, CTypes
<1>4. PICK p \in {"failed", "served"} : p = StoreFailed(c)
  BY <1>2
<1>5. /\ UNCHANGED <<disk, used, count, announced, job, made, restarts>>
      /\ Unsettle(n) /\ pc' = [pc EXCEPT ![c] = p]
  BY <1>1, <1>4 DEF WriteFails, Goto, archive
<1>6. /\ Becomes(c, p, o) /\ GoodJob(p, o) /\ p \in Phases /\ p # "idle"
      /\ p \notin {"write", "account", "announce"}
  BY <1>1, <1>2, <1>5, StoreKnown DEF Becomes, GoodJob, Phases
<1>7. /\ health'[n] = "unsettled" /\ \A m \in Node \ {n} : health'[m] = health[m]
      /\ health' \in [Node -> {"calm", "unsettled", "rescanned"}]
  BY <1>3, <1>5 DEF Unsettle, BooksOK
<1>8. DiskOK' /\ BooksOK' /\ ~ Calm'
  BY <1>3, <1>5, <1>7 DEF DiskOK, BooksOK, Calm
<1> QED
  BY <1>1, <1>2, <1>5, <1>6, <1>7, <1>8, Inside

(* archive.go Store: the usage and the number of files are put down.       *)
LEMMA AccountKeeps ==
  ASSUME CNInv, NEW c \in Call, Account(c)
  PROVE  CNInv'
<1>1. PICK o \in Jobs, n \in Node, t \in Track : o = job[c] /\ n = job[c].node /\ t = job[c].track
  BY StoreKnown DEF Account, At, Storing
<1>2. /\ o.node = n /\ o.track = t /\ o.done <= Len(o.bytes) /\ pc[c] = "account"
      /\ pc[c] \in Storing /\ Stores(c, n) /\ Key(t) \in DOMAIN disk[n]
  BY <1>1, StoreKnown DEF Account, At, Storing, Stores
<1>3. DiskOK /\ BooksOK
  BY DEF CNInv, CTypes
<1>4. /\ used' = [used EXCEPT ![n] = o.newUsed]
      /\ count' = [count EXCEPT ![n] = IF o.prev < 0 THEN @ + 1 ELSE @]
      /\ UNCHANGED <<disk, announced, job, made, restarts, health>>
  BY <1>1 DEF Account
<1>5. PICK p \in {"announce", "served"} : pc' = [pc EXCEPT ![c] = p]
  BY DEF Account, Goto
<1>6. /\ Becomes(c, p, o) /\ GoodJob(p, o) /\ p \in Phases /\ p # "idle" /\ p \notin Storing
  BY <1>1, <1>2, <1>4, <1>5, StoreKnown DEF Becomes, GoodJob, Phases, Storing
<1>7. o.newUsed \in Int /\ o.prev \in Int /\ count[n] \in Nat
  BY <1>3 DEF Jobs, BooksOK
<1>8. BooksOK' /\ DiskOK'
  BY <1>3, <1>4, <1>7 DEF BooksOK, DiskOK
<1>9. ASSUME health'[n] # "unsettled" PROVE Ledger(n)'
  <2>1. Ledger(n)
    BY <1>4, <1>9 DEF CNInv, Ledgers
  <2>2. Booked(c, n, Key(t)) /\ \A x \in Call : Stores(x, n) => x = c
    BY <1>1, <1>2, <2>1 DEF Ledger
  <2>3. /\ o.newUsed = BytesIn(disk[n], DOMAIN disk[n] \ {Key(t)}) + Len(o.bytes)
        /\ Len(disk[n][Key(t)]) = o.done /\ o.done = Len(o.bytes)
        /\ count[n] = Cardinality(DOMAIN disk[n]) - (IF o.prev < 0 THEN 1 ELSE 0)
    BY <1>1, <1>2, <2>2 DEF Booked
  <2>4. o.newUsed = Usage(n)
    <3>1. /\ BytesIn(disk[n], DOMAIN disk[n] \ {Key(t)}) \in Nat
          /\ Len(disk[n][Key(t)]) \in Nat
          /\ Usage(n) = Len(disk[n][Key(t)]) + BytesIn(disk[n], DOMAIN disk[n] \ {Key(t)})
      BY <1>2, <1>3, UsageSplit
    <3> QED
      BY ONLY <2>3, <3>1
  <2>5. IsFiniteSet(DOMAIN disk[n]) /\ Cardinality(DOMAIN disk[n]) \in Nat
    BY <1>3, FS_CardinalityType DEF DiskOK
  <2>6. used'[n] = Usage(n)
    BY <1>3, <1>4, <2>4 DEF BooksOK
  <2>7. count'[n] = Cardinality(DOMAIN disk[n])
    BY <1>3, <1>4, <1>7, <2>3, <2>5 DEF BooksOK
  <2>8. Balanced(n)'
    BY <1>4, <2>6, <2>7, UsageIs DEF Balanced
  <2> QED
    BY <1>2, <1>6, <2>2, <2>8, OwnLedger
<1>10. \A m \in Node \ {n} : disk'[m] = disk[m] /\ used'[m] = used[m]
                             /\ count'[m] = count[m] /\ health'[m] = health[m]
  BY <1>3, <1>4 DEF BooksOK
<1>11. health'[n] = "calm" /\ Quota > 0 => Usage(n)' <= Quota
  BY <1>4, UsageIs DEF CNInv, CalmNodeKeepsQuota
<1>12. Calm' /\ Key(t) \in DOMAIN disk'[n] =>
         \A d \in Data : Sole(d) /\ TrackOf[d] = t => Beginning(disk'[n][Key(t)], d)
  BY <1>4 DEF CNInv, Contents, Calm
<1> QED
  BY <1>1, <1>2, <1>4, <1>6, <1>8, <1>9, <1>10, <1>11, <1>12, Inside

(* A node crashes and measures its directory when it starts again.         *)
LEMMA RestartKeeps ==
  ASSUME CNInv, NEW n \in Node, Restart(n)
  PROVE  CNInv'
<1> DEFINE here == {c \in Call : pc[c] # "idle" /\ job[c].node = n}
<1>1. DiskOK /\ CallsOK /\ BooksOK
  BY DEF CNInv, CTypes
<1>2. PICK gone : gone = here
  OBVIOUS
<1>3. /\ restarts < MaxRestarts /\ restarts' = restarts + 1
      /\ pc' = [c \in Call |-> IF c \in gone THEN "idle" ELSE pc[c]]
      /\ job' = [c \in Call |-> IF c \in gone THEN NoJob ELSE job[c]]
      /\ announced' = [announced EXCEPT ![n] = {}]
      /\ used' = [used EXCEPT ![n] = Usage(n)]
      /\ count' = [count EXCEPT ![n] = Cardinality(DOMAIN disk[n])]
      /\ health' = [health EXCEPT ![n] = IF @ = "calm" THEN "calm" ELSE "rescanned"]
      /\ UNCHANGED <<disk, made>>
  BY <1>2 DEF Restart, Scan
<1>4. \A c \in Call : IF c \in gone THEN pc'[c] = "idle" /\ job'[c] = NoJob
                      ELSE pc'[c] = pc[c] /\ job'[c] = job[c]
  BY <1>3
<1> HIDE DEF here
<1>5. DiskOK'
  BY <1>1, <1>3 DEF DiskOK
<1>6. CallsOK'
  <2>1. pc' \in [Call -> Phases] /\ job' \in [Call -> Jobs \cup {NoJob}]
    BY <1>1, <1>3 DEF CallsOK, Phases
  <2>2. \A c \in Call : IF pc'[c] = "idle" THEN job'[c] = NoJob
                        ELSE job'[c] \in Jobs /\ job'[c].done <= Len(job'[c].bytes)
    BY <1>1, <1>4 DEF CallsOK
  <2>3. \A c \in Call : pc'[c] \in {"local", "find", "fetch", "store", "open"} => job'[c].done = 0
    BY <1>1, <1>4 DEF CallsOK
  <2> QED
    BY <2>1, <2>2, <2>3 DEF CallsOK
<1>7. Usage(n) \in Nat /\ Cardinality(DOMAIN disk[n]) \in Nat
  BY <1>1, UsageIsCounted, FS_CardinalityType DEF DiskOK
<1>8. BooksOK'
  BY <1>1, <1>3, <1>7 DEF BooksOK, ContentAssumption
<1>9. \A m \in Node : Usage(m)' = Usage(m)
  BY <1>3, UsageIs
<1>10. /\ used'[n] = Usage(n) /\ count'[n] = Cardinality(DOMAIN disk[n])
       /\ \A m \in Node \ {n} : used'[m] = used[m] /\ count'[m] = count[m]
       /\ \A m \in Node \ {n} : health'[m] = health[m] /\ announced'[m] = announced[m]
       /\ announced'[n] = {} /\ (health'[n] = "calm" => health[n] = "calm")
  BY <1>1, <1>3 DEF BooksOK
<1>11. Ledgers'
  <2> SUFFICES ASSUME NEW m \in Node, health'[m] # "unsettled" PROVE Ledger(m)'
    BY DEF Ledgers
  <2>1. CASE m = n
    <3>1. \A x \in Call : ~ Stores(x, n)'
      <4> TAKE x \in Call
      <4>1. CASE x \in gone
        BY <1>4, <4>1 DEF Stores, Storing
      <4>2. CASE x \notin gone
        BY <1>2, <1>4, <4>2 DEF Stores, Storing, here
      <4> QED
        BY <4>1, <4>2
    <3>2. Balanced(n)'
      BY <1>3, <1>9, <1>10 DEF Balanced
    <3> QED
      BY <2>1, <3>1, <3>2 DEF Ledger
  <2>2. CASE m # n
    <3>1. \A x \in Call : Stores(x, m)' <=> Stores(x, m)
      BY <1>2, <1>4, <2>2 DEF Stores, Storing, here, NoJob
    <3>2. \A x \in Call : Stores(x, m) => pc'[x] = pc[x] /\ job'[x] = job[x]
      BY <1>2, <1>4, <2>2 DEF Stores, here
    <3>3. Ledger(m)
      BY <1>10, <2>2 DEF CNInv, Ledgers
    <3> QED
      BY <1>3, <1>10, <2>2, <3>1, <3>2, <3>3, LedgerUndisturbed
  <2> QED
    BY <2>1, <2>2
<1>12. CalmNodeKeepsQuota'
  BY <1>9, <1>10 DEF CNInv, CalmNodeKeepsQuota
<1>13. Calm' => Contents'
  <2> SUFFICES ASSUME Calm' PROVE Contents'
    OBVIOUS
  <2>1. Calm
    BY <1>10 DEF Calm
  <2>2. \A x \in Call : pc'[x] \in Carrying => pc'[x] = pc[x] /\ job'[x] = job[x]
    BY <1>4 DEF Carrying
  <2> QED
    BY <1>3, <2>1, <2>2 DEF CNInv, Contents
<1>14. Provided'
  <2>1. \A x \in Call : pc'[x] \in {"write", "account", "announce"} => pc'[x] = pc[x] /\ job'[x] = job[x]
    BY <1>4
  <2>2. ProviderHasFile'
    BY <1>3, <1>10 DEF CNInv, Provided, ProviderHasFile
  <2> QED
    BY <1>3, <2>1, <2>2 DEF CNInv, Provided
<1> QED
  BY <1>5, <1>6, <1>8, <1>11, <1>12, <1>13, <1>14 DEF CNInv, CTypes

(* The empty archives satisfy the invariant.                               *)
LEMMA ContentStart == ContentInit => CNInv
<1> SUFFICES ASSUME ContentInit PROVE CNInv
  OBVIOUS
<1>1. /\ disk = [n \in Node |-> << >>] /\ used = [n \in Node |-> 0] /\ count = [n \in Node |-> 0]
      /\ announced = [n \in Node |-> {}]
      /\ pc = [c \in Call |-> "idle"] /\ job = [c \in Call |-> NoJob]
      /\ made = 0 /\ restarts = 0 /\ health = [n \in Node |-> "calm"]
  BY DEF ContentInit
<1>2. \A n \in Node : DOMAIN disk[n] = {}
  BY <1>1
<1>3. IsFiniteSet({}) /\ Cardinality({}) = 0
  BY FS_EmptySet
<1>4. DiskOK
  BY <1>1, <1>2, <1>3 DEF DiskOK
<1>5. CallsOK
  BY <1>1 DEF CallsOK, Phases
<1>6. BooksOK
  BY <1>1 DEF BooksOK, ContentAssumption
<1>7. \A n \in Node : Usage(n) = 0
  BY <1>2, <1>3, UsageIs, BytesOneByOne
<1>8. \A c \in Call : pc[c] = "idle"
  BY <1>1
<1>9. Ledgers
  <2> SUFFICES ASSUME NEW n \in Node PROVE Ledger(n)
    BY DEF Ledgers
  <2>1. Balanced(n)
    BY <1>1, <1>2, <1>3, <1>7 DEF Balanced
  <2>2. \A c \in Call : ~ Stores(c, n)
    BY <1>8 DEF Stores, Storing
  <2> QED
    BY <2>1, <2>2 DEF Ledger
<1>10. CalmNodeKeepsQuota
  BY <1>7 DEF CalmNodeKeepsQuota
<1>11. Contents
  BY <1>2, <1>8 DEF Contents, Carrying
<1>12. Provided
  BY <1>1, <1>8 DEF Provided, ProviderHasFile
<1> QED
  BY <1>4, <1>5, <1>6, <1>9, <1>10, <1>11, <1>12 DEF CNInv, CTypes

(* A step that changes nothing keeps the invariant.                        *)
LEMMA ContentStutter == CNInv /\ UNCHANGED contentVars => CNInv'
<1> SUFFICES ASSUME CNInv, UNCHANGED contentVars PROVE CNInv'
  OBVIOUS
<1>1. UNCHANGED <<disk, used, count, announced, pc, job, made, restarts, health>>
  BY DEF contentVars, archive
<1>2. CTypes'
  BY <1>1 DEF CNInv, CTypes, DiskOK, CallsOK, BooksOK
<1>3. \A n \in Node : Usage(n)' = Usage(n)
  BY <1>1, UsageIs
<1>4. Ledgers'
  <2> SUFFICES ASSUME NEW n \in Node, health[n] # "unsettled" PROVE Ledger(n)'
    BY <1>1 DEF Ledgers
  <2>1. Ledger(n)
    BY DEF CNInv, Ledgers
  <2>2. \A x \in Call : Stores(x, n)' <=> Stores(x, n)
    BY <1>1 DEF Stores
  <2> QED
    BY <1>1, <2>1, <2>2, LedgerUndisturbed
<1>5. CalmNodeKeepsQuota'
  BY <1>1, <1>3 DEF CNInv, CalmNodeKeepsQuota
<1>6. Calm' => Contents'
  BY <1>1 DEF CNInv, Calm, Contents
<1>7. Provided'
  BY <1>1 DEF CNInv, Provided, ProviderHasFile
<1> QED
  BY <1>2, <1>4, <1>5, <1>6, <1>7 DEF CNInv

\* archive.go, content_protocol.go: CNInv in every reachable state: the books of each
\* archive balance up to the store under way, files and transfers are beginnings of
\* what was provided, and providers hold what was announced.
THEOREM ContentInvariance == ContentSpec => []CNInv
<1>1. CNInv /\ [ContentNext]_contentVars => CNInv'
  <2> SUFFICES ASSUME CNInv, ContentNext PROVE CNInv'
    BY ContentStutter
  <2> QED
    BY BeginKeeps, LookingKeeps, CheckQuotaKeeps, OpenKeeps, WriteKeeps, WriteFailsKeeps,
       AccountKeeps, RestartKeeps DEF ContentNext
<1> QED
  BY <1>1, ContentStart, PTL DEF ContentSpec

\* archive.go, content_protocol.go: the types of everything an archive keeps and of
\* everything a call carries.
THEOREM ContentTypeCorrect == ContentSpec => []ContentTypeOK
<1>1. CNInv => ContentTypeOK
  <2> SUFFICES ASSUME CNInv PROVE ContentTypeOK
    OBVIOUS
  <2>1. DiskOK /\ CallsOK /\ BooksOK
    BY DEF CNInv, CTypes
  <2>2. \A c \in Call : IF pc[c] = "idle" THEN job[c] = NoJob ELSE
          /\ job[c].kind \in {"provide", "get"} /\ job[c].node \in Node
          /\ job[c].track \in Track /\ job[c].bytes \in Seq(AnyByte)
          /\ job[c].prev \in Int /\ job[c].newUsed \in Int
          /\ job[c].done \in 0..Len(job[c].bytes) /\ job[c].left \subseteq Node
    <3> TAKE c \in Call
    <3>1. CASE pc[c] = "idle"
      BY <2>1, <3>1 DEF CallsOK
    <3>2. CASE pc[c] # "idle"
      <4>1. job[c] \in Jobs /\ job[c].done <= Len(job[c].bytes)
        BY <2>1, <3>2 DEF CallsOK
      <4> QED
        BY <3>2, <4>1 DEF Jobs
    <3> QED
      BY <3>1, <3>2
  <2>3. pc \in [Call -> Phases]
    BY <2>1 DEF CallsOK
  <2> QED
    BY <2>1, <2>2, <2>3 DEF ContentTypeOK, DiskOK, BooksOK
<1> QED
  BY <1>1, ContentInvariance, PTL

\* archive.go: at a node where no store is under way, the reported usage and the
\* number of files are those of the directory, however stores, fetches, failures
\* and crashes followed each other, unless two stores overlapped or a write was cut
\* short since the node started.
THEOREM UsageIsExact == ContentSpec => []UsageExact
<1>1. CNInv => UsageExact
  <2> SUFFICES ASSUME CNInv, NEW n \in Node, Quiet(n), health[n] # "unsettled" PROVE Balanced(n)
    BY DEF UsageExact, Balanced
  <2>1. \A c \in Call : ~ Stores(c, n)
    BY DEF Quiet, Stores
  <2>2. Ledger(n)
    BY DEF CNInv, Ledgers
  <2> QED
    BY <2>1, <2>2 DEF Ledger
<1> QED
  BY <1>1, ContentInvariance, PTL

\* archive.go: at a node whose stores never overlapped and never were cut short, the
\* files never take more than the quota, not even while one is written.
THEOREM QuotaIsKeptInCalm == ContentSpec => []CalmNodeKeepsQuota
<1>1. CNInv => CalmNodeKeepsQuota
  BY DEF CNInv
<1> QED
  BY <1>1, ContentInvariance, PTL

\* content_protocol.go: a node the DHT names as a provider of a track has a file of it.
THEOREM ProvidersHoldTheTrack == ContentSpec => []ProviderHasFile
<1>1. CNInv => ProviderHasFile
  BY DEF CNInv, Provided
<1> QED
  BY <1>1, ContentInvariance, PTL

\* content_protocol.go: in a calm network, whoever asks for a track of which there is
\* one encoding is answered with a beginning of it, through however many caches it
\* went, and although files are served while they are written.
THEOREM AnswersAreBeginnings == ContentSpec => []AnswersBeginning
<1>1. CNInv => AnswersBeginning
  <2> SUFFICES ASSUME CNInv, Calm, NEW c \in Call, NEW d \in Data, At(c, "served"),
                      TrackOf[d] = job[c].track, \A e \in Data : TrackOf[e] = TrackOf[d] => e = d
               PROVE  job[c].bytes # <<>> /\ IsPrefix(job[c].bytes, Bytes(d))
    BY DEF AnswersBeginning
  <2>1. job[c].bytes # <<>> /\ Beginning(job[c].bytes, d)
    BY DEF CNInv, Contents, Carrying, At, Sole
  <2>2. job[c].bytes \in Seq(AnyByte)
    BY DEF CNInv, CTypes, CallsOK, Jobs, At
  <2>3. PICK s \in Seq(AnyByte) : s = job[c].bytes
    BY <2>2
  <2>4. PICK whole \in Seq(AnyByte) :
          /\ whole = Bytes(d) /\ Len(whole) = Size[d]
          /\ \A i \in 1..Size[d] : whole[i] = <<d, i>>
    BY BytesOf
  <2>5. Len(s) \in Nat /\ Len(s) <= Len(whole) /\ \A i \in 1..Len(s) : s[i] = whole[i]
    <3>1. Len(s) \in Nat
      BY <2>3
    <3>2. Len(s) <= Size[d] /\ \A i \in 1..Len(s) : s[i] = <<d, i>>
      BY <2>1, <2>3 DEF Beginning
    <3>3. \A i \in 1..Len(s) : i \in 1..Size[d]
      BY <3>1, <3>2, BytesOf
    <3> QED
      BY <2>4, <3>1, <3>2, <3>3
  <2>6. SubSeq(s, 1, Len(s)) = SubSeq(whole, 1, Len(s))
    BY <2>5
  <2> QED
    BY <2>1, <2>3, <2>4, <2>5, <2>6 DEF IsPrefix
<1> QED
  BY <1>1, ContentInvariance, PTL

=============================================================================
