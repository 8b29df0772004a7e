---------------------------- MODULE VolumeLemmas ----------------------------
(***************************************************************************)
(* What the filesystem operations of HardlinkFs do to a volume: each keeps *)
(* it a volume, and each file afterwards continues one from before.        *)
(***************************************************************************)
EXTENDS HardlinkFs, TLAPS

(* g continues f: the same content, and complete if f was.                 *)
Continues(g, f) == g.data = f.data /\ (f.whole => g.whole)

(* Every file of W continues a file of V, and its names are names of that  *)
(* file, or q if that file had the name p.                                 *)
Traced(V, W, p, q) ==
    \A g \in W : \E f \in V :
        /\ Continues(g, f)
        /\ \A r \in g.names : r \in f.names \/ (r = q /\ p \in f.names)

(* The names of V other than p are names of W.                             *)
Kept(V, W, p) ==
    \A r : r # p /\ (\E f \in V : r \in f.names) => \E g \in W : r \in g.names

(* A bound name has exactly one file.                                      *)
LEMMA FileOfName ==
    ASSUME IsVolume(vol), NEW p, Bound(p)
    PROVE  /\ File(p) \in vol
           /\ p \in File(p).names
           /\ \A f \in vol : p \in f.names => f = File(p)
  <1>1. File(p) \in vol /\ p \in File(p).names
    BY DEF Bound, File
  <1>2. ASSUME NEW f \in vol, p \in f.names PROVE f = File(p)
    BY <1>1, <1>2 DEF IsVolume
  <1> QED BY <1>1, <1>2

(* unlink: the name goes, and a file without names goes with it.           *)
LEMMA UnlinkedVolume ==
    ASSUME NEW V, IsVolume(V), NEW p
    PROVE  /\ IsVolume(Unlinked(V, p))
           /\ \A g \in Unlinked(V, p) : \E f \in V :
                 g = [f EXCEPT !.names = f.names \ {p}]
           /\ Kept(V, Unlinked(V, p), p)
  <1> DEFINE W == Unlinked(V, p)
  <1>1. ASSUME NEW g \in W
        PROVE  \E f \in V : g = [f EXCEPT !.names = f.names \ {p}] /\ g.names # {}
    BY DEF Unlinked
  <1>2. ASSUME NEW f \in V
        PROVE  /\ [f EXCEPT !.names = f.names \ {p}] \in Files
               /\ [f EXCEPT !.names = f.names \ {p}].names = f.names \ {p}
    BY DEF IsVolume, Files
  <1>3. W \subseteq Files
    BY <1>1, <1>2
  <1>4. \A g \in W : g.names # {}
    BY <1>1
  <1>5. ASSUME NEW g \in W, NEW h \in W, g.names \cap h.names # {}
        PROVE  g = h
    <2>1. PICK f \in V : g = [f EXCEPT !.names = f.names \ {p}]
      BY <1>1
    <2>2. PICK e \in V : h = [e EXCEPT !.names = e.names \ {p}]
      BY <1>1
    <2>3. f.names \cap e.names # {}
      BY <1>2, <1>5, <2>1, <2>2
    <2>4. f = e
      BY <2>3 DEF IsVolume
    <2> QED BY <2>1, <2>2, <2>4
  <1>6. ASSUME NEW r, r # p, NEW f \in V, r \in f.names
        PROVE  \E g \in W : r \in g.names
    <2> DEFINE g == [f EXCEPT !.names = f.names \ {p}]
    <2>1. r \in g.names
      BY <1>2, <1>6
    <2>2. g \in W
      BY <2>1 DEF Unlinked
    <2> QED BY <2>1, <2>2
  <1> QED BY <1>1, <1>3, <1>4, <1>5, <1>6 DEF IsVolume, Kept
LEMMA UnlinkStep ==
    ASSUME IsVolume(vol), NEW p, Unlink(p)
    PROVE  /\ IsVolume(vol)'
           /\ Traced(vol, vol', p, p)
           /\ Kept(vol, vol', p)
           /\ \A g \in vol' : p \notin g.names
  <1>1. vol' = Unlinked(vol, p)
    BY DEF Unlink
  <1>2. IsVolume(vol') /\ Kept(vol, vol', p)
    BY <1>1, UnlinkedVolume
  <1>3. ASSUME NEW g \in vol'
        PROVE  \E f \in vol : Continues(g, f) /\ g.names = f.names \ {p}
    <2>1. PICK f \in vol : g = [f EXCEPT !.names = f.names \ {p}]
      BY <1>1, UnlinkedVolume
    <2>2. f \in Files
      BY DEF IsVolume
    <2> QED BY <2>1, <2>2 DEF Files, Continues
  <1> QED BY <1>2, <1>3 DEF Traced, IsVolume

(* Adding a file under names that are free.                                *)
LEMMA AddedVolume ==
    ASSUME NEW V, IsVolume(V), NEW g \in Files, g.names # {},
           \A f \in V : f.names \cap g.names = {}
    PROVE  IsVolume(V \cup {g})
  BY DEF IsVolume

(* Another file under the same names, and perhaps one that was free.       *)
LEMMA ReplacedVolume ==
    ASSUME IsVolume(vol), NEW f \in vol, NEW g \in Files,
           f.names \subseteq g.names,
           \A e \in vol : e # f => e.names \cap g.names = {}
    PROVE  /\ IsVolume(Replaced(vol, f, g))
           /\ \A r : (\E e \in vol : r \in e.names)
                      => \E e \in Replaced(vol, f, g) : r \in e.names
  <1>1. IsVolume(vol \ {f})
    BY DEF IsVolume
  <1>2. g.names # {}
    BY DEF IsVolume
  <1>3. IsVolume((vol \ {f}) \cup {g})
    BY <1>1, <1>2, AddedVolume
  <1> QED BY <1>3 DEF Replaced

LEMMA HardLinkStep ==
    ASSUME IsVolume(vol), NEW p, Bound(p), NEW q \in Names, ~Bound(q), HardLink(p, q)
    PROVE  /\ IsVolume(vol)'
           /\ Traced(vol, vol', p, q)
           /\ Kept(vol, vol', q)
           /\ Bound(q)'
  <1> DEFINE f == File(p)
             g == [f EXCEPT !.names = f.names \cup {q}]
  <1>1. f \in vol /\ p \in f.names
    BY FileOfName
  <1>2. f \in Files
    BY <1>1 DEF IsVolume
  <1>3. g \in Files /\ g.names = f.names \cup {q} /\ Continues(g, f)
    BY <1>2 DEF Files, Continues
  <1>4. \A e \in vol : e # f => e.names \cap g.names = {}
    BY <1>1, <1>3 DEF IsVolume, Bound
  <1>5. vol' = Replaced(vol, f, g)
    BY DEF HardLink
  <1>6. /\ IsVolume(vol')
        /\ \A r : (\E e \in vol : r \in e.names) => \E e \in vol' : r \in e.names
    <2> HIDE DEF f, g
    <2> QED BY <1>1, <1>3, <1>4, <1>5, ReplacedVolume
  <1>7. Traced(vol, vol', p, q)
    <2> HIDE DEF f, g
    <2> QED BY <1>1, <1>3, <1>5 DEF Traced, Replaced, Continues
  <1>8. g \in vol'
    BY <1>5 DEF Replaced
  <1> QED BY <1>3, <1>6, <1>7, <1>8 DEF IsVolume, Kept, Bound

LEMMA RenameStep ==
    ASSUME IsVolume(vol), NEW p, Bound(p), NEW q \in Names, Rename(p, q)
    PROVE  /\ IsVolume(vol)'
           /\ Traced(vol, vol', p, q)
           /\ Kept(vol, vol', p)
           /\ Bound(q)'
           /\ (q \in File(p).names /\ vol' = vol) \/ \A g \in vol' : p \notin g.names
  <1> DEFINE f == File(p)
             g == [f EXCEPT !.names = (f.names \ {p}) \cup {q}]
             V == vol \ {f}
             U == Unlinked(V, q)
  <1>1. f \in vol /\ p \in f.names /\ \A e \in vol : p \in e.names => e = f
    BY FileOfName
  <1>2. CASE q \in f.names
    <2>1. vol' = vol
      BY <1>2 DEF Rename
    <2>2. Traced(vol, vol', p, q) /\ Kept(vol, vol', p)
      BY <2>1 DEF Traced, Kept, Continues
    <2> QED BY <1>1, <1>2, <2>1, <2>2 DEF Bound, IsVolume
  <1>3. CASE q \notin f.names
    <2>1. vol' = U \cup {g}
      BY <1>3 DEF Rename
    <2>2. f \in Files
      BY <1>1 DEF IsVolume
    <2>3. g \in Files /\ g.names = (f.names \ {p}) \cup {q} /\ Continues(g, f)
      BY <2>2 DEF Files, Continues
    <2>4. IsVolume(V)
      BY DEF IsVolume
    <2>5. /\ IsVolume(U)
          /\ \A u \in U : \E e \in V : u = [e EXCEPT !.names = e.names \ {q}]
          /\ Kept(V, U, q)
      BY <2>4, UnlinkedVolume
    <2>6. ASSUME NEW u \in U
          PROVE  \E e \in vol : e # f /\ Continues(u, e) /\ u.names = e.names \ {q}
      <3>1. PICK e \in V : u = [e EXCEPT !.names = e.names \ {q}]
        BY <2>5
      <3>2. e \in Files
        BY DEF IsVolume
      <3> QED BY <3>1, <3>2 DEF Files, Continues
    <2> HIDE DEF f, g, U
    <2>7. \A u \in U : u.names \cap g.names = {}
      BY <1>1, <2>3, <2>6 DEF IsVolume
    <2>8. IsVolume(vol')
      BY <2>1, <2>3, <2>5, <2>7, AddedVolume
    <2>9. Traced(vol, vol', p, q)
      BY <1>1, <2>1, <2>3, <2>6 DEF Traced
    <2>10. Bound(q)'
      BY <2>1, <2>3 DEF Bound
    <2>11. \A h \in vol' : p \notin h.names
      BY <1>1, <1>3, <2>1, <2>3, <2>6
    <2>12. Kept(vol, vol', p)
      <3>1. ASSUME NEW r, r # p, NEW e \in vol, r \in e.names
            PROVE  \E h \in vol' : r \in h.names
        <4>1. CASE e = f \/ r = q
          BY <2>1, <2>3, <3>1, <4>1
        <4>2. CASE e # f /\ r # q
          BY <2>1, <2>5, <3>1, <4>2 DEF Kept
        <4> QED BY <4>1, <4>2
      <3> QED BY <3>1 DEF Kept
    <2> QED BY <2>8, <2>9, <2>10, <2>11, <2>12 DEF IsVolume
  <1> QED BY <1>2, <1>3

LEMMA CreateStep ==
    ASSUME IsVolume(vol), NEW p \in Names, NEW d \in Contents, NEW b \in BOOLEAN,
           NEW m \in {"rw", "ro"}, Create(p, d, b, m)
    PROVE  /\ IsVolume(vol)'
           /\ Kept(vol, vol', p)
           /\ Bound(p)'
           /\ \A g \in vol' :
                 \/ g.names = {p} /\ g.data = d /\ g.whole = b
                 \/ /\ p \notin g.names
                    /\ \E f \in vol : Continues(g, f) /\ g.names \subseteq f.names
  <1> DEFINE n == [names |-> {p}, data |-> d, whole |-> b, mode |-> m]
             U == Unlinked(vol, p)
  <1>1. vol' = U \cup {n}
    BY DEF Create
  <1>2. n \in Files /\ n.names = {p} /\ n.data = d /\ n.whole = b
    BY DEF Files
  <1>3. IsVolume(U) /\ Kept(vol, U, p)
    BY UnlinkedVolume
  <1>4. ASSUME NEW u \in U
        PROVE  \E f \in vol : Continues(u, f) /\ u.names = f.names \ {p}
    <2>1. PICK f \in vol : u = [f EXCEPT !.names = f.names \ {p}]
      BY UnlinkedVolume
    <2>2. f \in Files
      BY DEF IsVolume
    <2> QED BY <2>1, <2>2 DEF Files, Continues
  <1> HIDE DEF n, U
  <1>5. IsVolume(vol')
    BY <1>1, <1>2, <1>3, <1>4, AddedVolume
  <1>6. Kept(vol, vol', p) /\ Bound(p)'
    BY <1>1, <1>2, <1>3 DEF Kept, Bound
  <1> QED BY <1>1, <1>2, <1>4, <1>5, <1>6 DEF IsVolume

(* chmod changes no name and no content.                                   *)
LEMMA ChmodStep ==
    ASSUME IsVolume(vol), NEW p, NEW m \in {"rw", "ro"}, Chmod(p, m)
    PROVE  /\ IsVolume(vol)'
           /\ Traced(vol, vol', p, p)
           /\ \A r : Bound(r) => Bound(r)'
  <1>1. CASE ~Bound(p)
    BY <1>1 DEF Chmod, Traced, Continues, Bound, IsVolume
  <1>2. CASE Bound(p)
    <2> DEFINE f == File(p)
               g == [f EXCEPT !.mode = m]
    <2>1. f \in vol
      BY <1>2, FileOfName
    <2>2. f \in Files
      BY <2>1 DEF IsVolume
    <2>3. g \in Files /\ g.names = f.names /\ Continues(g, f)
      BY <2>2 DEF Files, Continues
    <2>4. vol' = Replaced(vol, f, g)
      BY <1>2 DEF Chmod
    <2> HIDE DEF f, g
    <2>5. /\ IsVolume(vol')
          /\ \A r : (\E e \in vol : r \in e.names) => \E e \in vol' : r \in e.names
      BY <2>1, <2>3, <2>4, ReplacedVolume DEF IsVolume
    <2>6. Traced(vol, vol', p, p)
      BY <2>1, <2>3, <2>4 DEF Traced, Replaced, Continues
    <2> QED BY <2>5, <2>6 DEF IsVolume, Bound
  <1> QED BY <1>1, <1>2
=============================================================================
