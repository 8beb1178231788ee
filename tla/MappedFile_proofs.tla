-------------------------- MODULE MappedFile_proofs -------------------------
(***************************************************************************)
(* Ownership of descriptors and mappings, for any number of objects, files *)
(* and regions.  Each operation is a function of the state, so each lemma  *)
(* says that one of them keeps what all rely on:                           *)
(*   Consistent(f) == Typed(f) /\ Held(f) /\ Accounted(f)                  *)
(* Held alone is not kept: a region or a descriptor that open() gets is    *)
(* nobody's only because whatever anybody holds or lost is not free.       *)
(***************************************************************************)
EXTENDS MappedFile, Numbers_proofs

Consistent(f) == Typed(f) /\ Held(f) /\ Accounted(f)

\* The kernel finds a lowest free descriptor when there is a free one.
LEMMA LowestIsFree ==
  ASSUME NEW f, FreeFds(f) # {}
  PROVE  LowestFd(f) \in FreeFds(f)
<1>1. FreeFds(f) \subseteq Nat
  BY FileAssumption DEF FreeFds, Descriptors
<1>2. \E d \in FreeFds(f) : \A e \in FreeFds(f) : d <= e
  BY <1>1, LeastElement
<1>3. QED BY <1>2 DEF LowestFd

\* From f to g, only object o changes, no mapping does, and what o had mapped
\* it has still or has lost.
OnlyForgets(f, g, o) ==
  /\ \A q \in Objects \ {o} : g.obj[q] = f.obj[q]
  /\ \A r \in Regions : f.maps[r] # Unmapped => g.maps[r] = f.maps[r]
  /\ f.lostMaps \subseteq g.lostMaps
  /\ f.obj[o].data # NoRegion =>
       f.obj[o].data \in g.lostMaps \/ g.obj[o].data = f.obj[o].data

\* What open() forgets stays open, is nobody's, and is accounted for.
LEMMA ForgetFdKeeps ==
  ASSUME NEW f, Consistent(f), NEW o \in Objects
  PROVE  LET g == ForgetFd(f, o)
         IN /\ Consistent(g) /\ g.fds = f.fds /\ g.maps = f.maps
            /\ g.obj[o] = [f.obj[o] EXCEPT !.fd = NoDescriptor]
            /\ OnlyForgets(f, g, o)
<1> DEFINE g == ForgetFd(f, o)
           old == f.obj[o].fd
<1>1. /\ g = [obj |-> g.obj, fds |-> g.fds, maps |-> g.maps,
              lostFds |-> g.lostFds, lostMaps |-> g.lostMaps]
      /\ g.obj = [f.obj EXCEPT ![o] = [f.obj[o] EXCEPT !.fd = NoDescriptor]]
      /\ g.fds = f.fds /\ g.maps = f.maps /\ g.lostMaps = f.lostMaps
      /\ g.lostFds = f.lostFds \cup ({old} \ {NoDescriptor})
  <2>1. f = [obj |-> f.obj, fds |-> f.fds, maps |-> f.maps,
             lostFds |-> f.lostFds, lostMaps |-> f.lostMaps]
    BY DEF Consistent, Typed
  <2> DEFINE x == [f.obj EXCEPT ![o] = [f.obj[o] EXCEPT !.fd = NoDescriptor]]
             y == f.lostFds \cup ({old} \ {NoDescriptor})
             h == [f EXCEPT !.obj = x]
  <2>2. h = [obj |-> x, fds |-> f.fds, maps |-> f.maps,
             lostFds |-> f.lostFds, lostMaps |-> f.lostMaps]
    <3> HIDE DEF x
    <3> QED BY <2>1
  <2>3. g = [h EXCEPT !.lostFds = y]
    BY DEF ForgetFd
  <2>4. [h EXCEPT !.lostFds = y] = [obj |-> x, fds |-> f.fds, maps |-> f.maps,
                                 lostFds |-> y, lostMaps |-> f.lostMaps]
    <3> HIDE DEF h, x, y
    <3> QED BY <2>2
  <2>5. QED
    <3> HIDE DEF g, h
    <3> QED BY <2>3, <2>4
<1> HIDE DEF g
<1>2. Typed(g)
  BY <1>1 DEF Consistent, Typed
<1>3. Held(g)
  <2>1. LostStaysOpen(g)
    BY <1>1 DEF Consistent, Held, LostStaysOpen, OwnFd, Typed
  <2>2. ASSUME NEW q \in Objects PROVE OwnFd(g, q)
    <3>1. OwnFd(f, q) /\ OwnFd(f, o)
      BY DEF Consistent, Held
    <3>2. QED BY <1>1, <3>1 DEF OwnFd, Consistent, Typed
  <2>3. ASSUME NEW q \in Objects PROVE OwnMapping(g, q)
    <3>1. OwnMapping(f, q)
      BY DEF Consistent, Held
    <3>2. QED BY <1>1, <3>1 DEF OwnMapping, Consistent, Typed
  <2>4. QED BY <2>1, <2>2, <2>3 DEF Held
<1>4. Accounted(g)
  BY <1>1 DEF Consistent, Accounted, Typed
<1>5. QED
  <2>1. Consistent(g) /\ g.obj[o] = [f.obj[o] EXCEPT !.fd = NoDescriptor]
    BY <1>1, <1>2, <1>3, <1>4 DEF Consistent, Typed
  <2>2. OnlyForgets(f, g, o)
    BY <1>1 DEF OnlyForgets, Consistent, Typed
  <2>3. QED BY <1>1, <2>1, <2>2 DEF g

LEMMA ForgetDataKeeps ==
  ASSUME NEW f, Consistent(f), NEW o \in Objects
  PROVE  LET g == ForgetData(f, o)
         IN /\ Consistent(g) /\ g.fds = f.fds /\ g.maps = f.maps
            /\ g.obj[o] = [f.obj[o] EXCEPT !.data = NoRegion]
            /\ OnlyForgets(f, g, o)
<1> DEFINE g == ForgetData(f, o)
           old == f.obj[o].data
<1>1. /\ g = [obj |-> g.obj, fds |-> g.fds, maps |-> g.maps,
              lostFds |-> g.lostFds, lostMaps |-> g.lostMaps]
      /\ g.obj = [f.obj EXCEPT ![o] = [f.obj[o] EXCEPT !.data = NoRegion]]
      /\ g.fds = f.fds /\ g.maps = f.maps /\ g.lostFds = f.lostFds
      /\ g.lostMaps = f.lostMaps \cup ({old} \ {NoRegion})
  <2>1. f = [obj |-> f.obj, fds |-> f.fds, maps |-> f.maps,
             lostFds |-> f.lostFds, lostMaps |-> f.lostMaps]
    BY DEF Consistent, Typed
  <2> DEFINE x == [f.obj EXCEPT ![o] = [f.obj[o] EXCEPT !.data = NoRegion]]
             y == f.lostMaps \cup ({old} \ {NoRegion})
             h == [f EXCEPT !.obj = x]
  <2>2. h = [obj |-> x, fds |-> f.fds, maps |-> f.maps,
             lostFds |-> f.lostFds, lostMaps |-> f.lostMaps]
    <3> HIDE DEF x
    <3> QED BY <2>1
  <2>3. g = [h EXCEPT !.lostMaps = y]
    BY DEF ForgetData
  <2>4. [h EXCEPT !.lostMaps = y] = [obj |-> x, fds |-> f.fds, maps |-> f.maps,
                                  lostFds |-> f.lostFds, lostMaps |-> y]
    <3> HIDE DEF h, x, y
    <3> QED BY <2>2
  <2>5. QED
    <3> HIDE DEF g, h
    <3> QED BY <2>3, <2>4
<1> HIDE DEF g
<1>2. Typed(g)
  BY <1>1 DEF Consistent, Typed
<1>3. Held(g)
  <2>1. LostStaysOpen(g)
    <3>1. OwnMapping(f, o) /\ LostStaysOpen(f)
      BY DEF Consistent, Held
    <3>2. QED BY <1>1, <3>1 DEF LostStaysOpen, OwnMapping, Consistent, Typed
  <2>2. ASSUME NEW q \in Objects PROVE OwnFd(g, q)
    <3>1. OwnFd(f, q)
      BY DEF Consistent, Held
    <3>2. QED BY <1>1, <3>1 DEF OwnFd, Consistent, Typed
  <2>3. ASSUME NEW q \in Objects PROVE OwnMapping(g, q)
    <3>1. OwnMapping(f, q) /\ OwnMapping(f, o)
      BY DEF Consistent, Held
    <3>2. QED BY <1>1, <3>1 DEF OwnMapping, Consistent, Typed
  <2>4. QED BY <2>1, <2>2, <2>3 DEF Held
<1>4. Accounted(g)
  BY <1>1 DEF Consistent, Accounted, Typed
<1>5. QED
  <2>1. Consistent(g) /\ g.obj[o] = [f.obj[o] EXCEPT !.data = NoRegion]
    BY <1>1, <1>2, <1>3, <1>4 DEF Consistent, Typed
  <2>2. OnlyForgets(f, g, o)
    BY <1>1 DEF OnlyForgets, Consistent, Typed
  <2>3. QED BY <1>1, <2>1, <2>2 DEF g

\* A failed mmap leaves the object empty, with the size of the file.
LEMMA NotMappedKeeps ==
  ASSUME NEW f, Consistent(f), NEW o \in Objects, NEW p \in Paths
  PROVE  LET g == NotMapped(f, o, p)
         IN /\ Consistent(g) /\ g.fds = f.fds /\ g.maps = f.maps
            /\ g.obj[o] = [alive |-> f.obj[o].alive, data |-> NoRegion,
                           size |-> FileSize[p], fd |-> NoDescriptor]
            /\ OnlyForgets(f, g, o)
<1> DEFINE e == ForgetFd(f, o)
           h == ForgetData(e, o)
           g == NotMapped(f, o, p)
<1>1. /\ Consistent(e) /\ e.fds = f.fds /\ e.maps = f.maps
      /\ e.obj[o] = [f.obj[o] EXCEPT !.fd = NoDescriptor] /\ OnlyForgets(f, e, o)
  BY ForgetFdKeeps
<1>2. /\ Consistent(h) /\ h.fds = e.fds /\ h.maps = e.maps
      /\ h.obj[o] = [e.obj[o] EXCEPT !.data = NoRegion] /\ OnlyForgets(e, h, o)
  <2> HIDE DEF e
  <2> QED BY <1>1, ForgetDataKeeps
<1>3. g = [h EXCEPT !.obj[o].size = FileSize[p]]
  BY DEF NotMapped
<1> HIDE DEF e, h, g
<1>4. /\ g = [obj |-> g.obj, fds |-> g.fds, maps |-> g.maps,
              lostFds |-> g.lostFds, lostMaps |-> g.lostMaps]
      /\ g.obj = [h.obj EXCEPT ![o] = [h.obj[o] EXCEPT !.size = FileSize[p]]]
      /\ g.fds = h.fds /\ g.maps = h.maps
      /\ g.lostFds = h.lostFds /\ g.lostMaps = h.lostMaps
  BY <1>2, <1>3 DEF Consistent, Typed
<1>5. FileSize[p] \in Nat
  BY FileAssumption
<1>6. h.obj[o] = [alive |-> f.obj[o].alive, data |-> NoRegion,
                  size |-> f.obj[o].size, fd |-> NoDescriptor]
  <2>1. f.obj[o] = [alive |-> f.obj[o].alive, data |-> f.obj[o].data,
                    size |-> f.obj[o].size, fd |-> f.obj[o].fd]
    BY DEF Consistent, Typed
  <2>2. QED BY <1>1, <1>2, <2>1
<1>7. Typed(g)
  <2>1. Typed(h)
    BY <1>2 DEF Consistent
  <2>2. [h.obj[o] EXCEPT !.size = FileSize[p]]
          \in [alive : BOOLEAN, data : Regions \cup {NoRegion},
              size : Nat, fd : Descriptors \cup {NoDescriptor}]
    BY <1>5, <2>1 DEF Typed
  <2>3. QED BY <1>4, <2>1, <2>2 DEF Typed
<1>8. Held(g)
  <2>1. LostStaysOpen(g)
    BY <1>2, <1>4 DEF Consistent, Held, LostStaysOpen
  <2>2. ASSUME NEW q \in Objects PROVE OwnFd(g, q)
    <3>1. OwnFd(h, q)
      BY <1>2 DEF Consistent, Held
    <3>2. QED BY <1>2, <1>4, <3>1 DEF OwnFd, Consistent, Typed
  <2>3. ASSUME NEW q \in Objects PROVE OwnMapping(g, q)
    <3>1. OwnMapping(h, q)
      BY <1>2 DEF Consistent, Held
    <3>2. QED BY <1>2, <1>4, <1>6, <3>1 DEF OwnMapping, Consistent, Typed
  <2>4. QED BY <2>1, <2>2, <2>3 DEF Held
<1>9. Accounted(g)
  BY <1>2, <1>4 DEF Consistent, Accounted, Typed
<1>10. g.obj[o] = [alive |-> f.obj[o].alive, data |-> NoRegion,
                   size |-> FileSize[p], fd |-> NoDescriptor]
  <2>1. g.obj[o] = [h.obj[o] EXCEPT !.size = FileSize[p]]
    BY <1>2, <1>4 DEF Consistent, Typed
  <2>2. QED BY <1>6, <2>1
<1>11. QED
  <2>1. Consistent(g) /\ g.fds = f.fds /\ g.maps = f.maps
    BY <1>1, <1>2, <1>4, <1>7, <1>8, <1>9 DEF Consistent
  <2>2. OnlyForgets(f, g, o)
    <3>1. /\ f.obj[o].data # NoRegion => f.obj[o].data \in h.lostMaps
          /\ e.obj[o].data = f.obj[o].data /\ h.obj[o].data = NoRegion
      BY <1>1, <1>2, <1>6 DEF OnlyForgets, Consistent, Typed
    <3>2. \A q \in Objects \ {o} : g.obj[q] = h.obj[q]
      BY <1>2, <1>4 DEF Consistent, Typed
    <3>3. QED BY <1>1, <1>2, <1>4, <3>1, <3>2 DEF OnlyForgets
  <2>3. QED BY <1>10, <2>1, <2>2 DEF g

Shape(f) ==
  f = [obj |-> f.obj, fds |-> f.fds, maps |-> f.maps,
       lostFds |-> f.lostFds, lostMaps |-> f.lostMaps]

\* Assigning one component of the state leaves the others.
LEMMA Assigned ==
  ASSUME NEW f, Shape(f), NEW x
  PROVE  /\ [f EXCEPT !.obj = x] = [obj |-> x, fds |-> f.fds, maps |-> f.maps,
                                   lostFds |-> f.lostFds, lostMaps |-> f.lostMaps]
         /\ [f EXCEPT !.fds = x] = [obj |-> f.obj, fds |-> x, maps |-> f.maps,
                                   lostFds |-> f.lostFds, lostMaps |-> f.lostMaps]
         /\ [f EXCEPT !.maps = x] = [obj |-> f.obj, fds |-> f.fds, maps |-> x,
                                    lostFds |-> f.lostFds, lostMaps |-> f.lostMaps]
BY DEF Shape

\* A successful open() makes the object the owner of a free descriptor and a
\* free region.
LEMMA OpenedKeeps ==
  ASSUME NEW f, Consistent(f), NEW o \in Objects, f.obj[o].alive, NEW p \in Paths,
         FileSize[p] # 0, FreeFds(f) # {}, NEW r \in FreeRegions(f)
  PROVE  Consistent(Opened(f, o, p, r)) /\ OnlyForgets(f, Opened(f, o, p, r), o)
<1> DEFINE h == NotMapped(f, o, p)
           d == LowestFd(f)
           g == Opened(f, o, p, r)
           up == f.obj[o].alive
           new == [alive |-> up, data |-> r, size |-> FileSize[p], fd |-> d]
           map == [path |-> p, len |-> FileSize[p]]
<1>1. /\ Consistent(h) /\ h.fds = f.fds /\ h.maps = f.maps
      /\ h.obj[o] = [alive |-> f.obj[o].alive, data |-> NoRegion,
                     size |-> FileSize[p], fd |-> NoDescriptor]
      /\ OnlyForgets(f, h, o)
  BY NotMappedKeeps
<1>2. /\ d \in Descriptors /\ h.fds[d] = NoPath /\ d # NoDescriptor
      /\ r \in Regions /\ h.maps[r] = Unmapped /\ r # NoRegion
      /\ FileSize[p] \in Nat /\ FileSize[p] > 0 /\ p # NoPath
      /\ up /\ up \in BOOLEAN
  <2>1. d \in FreeFds(f)
    BY LowestIsFree
  <2>2. f.obj[o].alive \in BOOLEAN
    BY DEF Consistent, Typed
  <2> HIDE DEF d, h
  <2>3. QED BY <1>1, <2>1, <2>2, FileAssumption
            DEF FreeFds, FreeRegions, Descriptors, NoDescriptor
<1>3. g = [obj |-> [h.obj EXCEPT ![o] = new], fds |-> [h.fds EXCEPT ![d] = p],
           maps |-> [h.maps EXCEPT ![r] = map],
           lostFds |-> h.lostFds, lostMaps |-> h.lostMaps]
  <2> DEFINE x1 == [h.obj EXCEPT ![o] = [h.obj[o] EXCEPT !.fd = d]]
             h1 == [h EXCEPT !.obj = x1]
             h2 == [h1 EXCEPT !.fds = [h1.fds EXCEPT ![d] = p]]
             x3 == [h2.obj EXCEPT ![o] = [h2.obj[o] EXCEPT !.data = r]]
             h3 == [h2 EXCEPT !.obj = x3]
             h4 == [h3 EXCEPT !.maps = [h3.maps EXCEPT ![r] = map]]
  <2>1. g = h4
    BY DEF Opened
  <2>2. Shape(h) /\ o \in DOMAIN h.obj
    BY <1>1 DEF Consistent, Typed, Shape
  <2> HIDE DEF g, h
  <2>3. h1 = [obj |-> x1, fds |-> h.fds, maps |-> h.maps,
              lostFds |-> h.lostFds, lostMaps |-> h.lostMaps]
    <3> HIDE DEF x1
    <3> QED BY <2>2, Assigned
  <2>4. h2 = [obj |-> x1, fds |-> [h.fds EXCEPT ![d] = p], maps |-> h.maps,
              lostFds |-> h.lostFds, lostMaps |-> h.lostMaps]
    <3> HIDE DEF h1, x1
    <3>1. Shape(h1) /\ h1.fds = h.fds
      BY <2>3 DEF Shape
    <3> DEFINE y == [h1.fds EXCEPT ![d] = p]
    <3>2. y = [h.fds EXCEPT ![d] = p]
      BY <3>1
    <3> HIDE DEF y
    <3>3. [h1 EXCEPT !.fds = y] = [obj |-> x1, fds |-> y, maps |-> h.maps,
                                   lostFds |-> h.lostFds, lostMaps |-> h.lostMaps]
      BY <2>3, <3>1, Assigned
    <3>4. h2 = [h1 EXCEPT !.fds = y]
      BY DEF y
    <3>5. QED BY <3>2, <3>3, <3>4
  <2>5. h3 = [obj |-> x3, fds |-> [h.fds EXCEPT ![d] = p], maps |-> h.maps,
              lostFds |-> h.lostFds, lostMaps |-> h.lostMaps]
    <3> HIDE DEF h2, x3, x1
    <3> DEFINE y == [h.fds EXCEPT ![d] = p]
    <3> HIDE DEF y
    <3>0. h2 = [obj |-> x1, fds |-> y, maps |-> h.maps,
                lostFds |-> h.lostFds, lostMaps |-> h.lostMaps]
      BY <2>4 DEF y
    <3>1. Shape(h2)
      BY <3>0 DEF Shape
    <3>2. h3 = [obj |-> x3, fds |-> y, maps |-> h.maps,
                lostFds |-> h.lostFds, lostMaps |-> h.lostMaps]
      BY <3>0, <3>1, Assigned
    <3>3. QED BY <3>2 DEF y
  <2>6. h4 = [obj |-> x3, fds |-> [h.fds EXCEPT ![d] = p],
              maps |-> [h.maps EXCEPT ![r] = map],
              lostFds |-> h.lostFds, lostMaps |-> h.lostMaps]
    <3> HIDE DEF h3, x3, map
    <3> DEFINE y == [h.fds EXCEPT ![d] = p]
               z == [h3.maps EXCEPT ![r] = map]
    <3> HIDE DEF y
    <3>0. h3 = [obj |-> x3, fds |-> y, maps |-> h.maps,
                lostFds |-> h.lostFds, lostMaps |-> h.lostMaps]
      BY <2>5 DEF y
    <3>1. Shape(h3)
      BY <3>0 DEF Shape
    <3>2. z = [h.maps EXCEPT ![r] = map]
      BY <3>0
    <3>3. h4 = [h3 EXCEPT !.maps = z]
      OBVIOUS
    <3> HIDE DEF z, h4
    <3>4. [h3 EXCEPT !.maps = z] = [obj |-> x3, fds |-> y, maps |-> z,
                lostFds |-> h.lostFds, lostMaps |-> h.lostMaps]
      BY <3>0, <3>1, Assigned
    <3>5. QED BY <3>2, <3>3, <3>4 DEF y
  <2>7. x3 = [h.obj EXCEPT ![o] = new]
    <3>1. h2.obj = x1
      <4> HIDE DEF h2, x1
      <4> QED BY <2>4
    <3> HIDE DEF d, up
    <3>2. x1[o] = [h.obj[o] EXCEPT !.fd = d]
      BY <2>2
    <3>3. [x1[o] EXCEPT !.data = r] = new
      <4> DEFINE y == h.obj[o]
      <4>1. y = [alive |-> up, data |-> NoRegion, size |-> FileSize[p],
                 fd |-> NoDescriptor]
        BY <1>1 DEF up
      <4>2. x1[o] = [y EXCEPT !.fd = d]
        BY <3>2
      <4> HIDE DEF x1, y
      <4>3. x1[o] = [alive |-> up, data |-> NoRegion, size |-> FileSize[p], fd |-> d]
        BY <4>1, <4>2
      <4> DEFINE z == x1[o]
      <4> HIDE DEF z
      <4>4. [z EXCEPT !.data = r] = new
        BY <4>3 DEF z
      <4>5. QED BY <4>4 DEF z
    <3>4. x3 = [x1 EXCEPT ![o] = new]
      <4> HIDE DEF x1, new, h2
      <4> QED BY <3>1, <3>3
    <3>5. QED
      <4> HIDE DEF new, x3
      <4> QED BY <2>2, <3>4
  <2>8. QED
    <3> HIDE DEF h4, x3, new, map
    <3> QED BY <2>1, <2>6, <2>7
<1> HIDE DEF h, d, g, up
<1>4. /\ g.obj = [h.obj EXCEPT ![o] = new] /\ g.fds = [h.fds EXCEPT ![d] = p]
      /\ g.maps = [h.maps EXCEPT ![r] = map]
      /\ g.lostFds = h.lostFds /\ g.lostMaps = h.lostMaps
      /\ g = [obj |-> g.obj, fds |-> g.fds, maps |-> g.maps,
              lostFds |-> g.lostFds, lostMaps |-> g.lostMaps]
  <2> HIDE DEF new, map
  <2> QED BY <1>3
<1>5. Typed(g)
  <2>1. new \in [alive : BOOLEAN, data : Regions \cup {NoRegion},
                size : Nat, fd : Descriptors \cup {NoDescriptor}]
    BY <1>2
  <2>2. map \in [path : Paths \cup {NoPath}, len : Nat]
    BY <1>2
  <2>0. Typed(h) /\ p \in Paths \cup {NoPath}
    BY <1>1 DEF Consistent
  <2> HIDE DEF new, map
  <2>3. g.obj \in [Objects -> [alive : BOOLEAN, data : Regions \cup {NoRegion},
                              size : Nat, fd : Descriptors \cup {NoDescriptor}]]
    <3> DEFINE X == [alive : BOOLEAN, data : Regions \cup {NoRegion},
                     size : Nat, fd : Descriptors \cup {NoDescriptor}]
    <3>1. h.obj \in [Objects -> X]
      BY <2>0 DEF Typed
    <3>2. new \in X
      BY <2>1
    <3> HIDE DEF X
    <3>3. g.obj \in [Objects -> X]
      BY <1>4, <3>1, <3>2
    <3>4. QED BY <3>3 DEF X
  <2>6. g.fds \in [Descriptors -> Paths \cup {NoPath}]
    BY <1>4, <2>0 DEF Typed
  <2>4. g.maps \in [Regions -> [path : Paths \cup {NoPath}, len : Nat]]
    BY <1>4, <2>0, <2>2 DEF Typed
  <2>5. QED BY <1>4, <2>0, <2>3, <2>4, <2>6 DEF Typed
<1>6. \A q \in Objects : h.obj[q].fd # d /\ h.obj[q].data # r
  <2> TAKE q \in Objects
  <2>1. OwnFd(h, q) /\ OwnMapping(h, q)
    BY <1>1 DEF Consistent, Held
  <2>2. (h.obj[q].data # NoRegion) => h.maps[h.obj[q].data].len > 0
    BY <2>1 DEF OwnMapping
  <2>3. QED BY <1>2, <2>1, <2>2 DEF OwnFd, Unmapped
<1>7. d \notin g.lostFds /\ r \notin g.lostMaps
  <2>1. LostStaysOpen(h)
    BY <1>1 DEF Consistent, Held
  <2>2. QED BY <1>2, <1>4, <2>1 DEF LostStaysOpen, Unmapped
<1>8. Held(g)
  <2>1. LostStaysOpen(g)
    <3>1. LostStaysOpen(h) /\ Typed(h)
      BY <1>1 DEF Consistent, Held
    <3>2. QED BY <1>2, <1>4, <1>7, <3>1 DEF LostStaysOpen, Typed
  <2>2. ASSUME NEW q \in Objects PROVE OwnFd(g, q)
    <3>1. OwnFd(h, q) /\ Typed(h)
      BY <1>1 DEF Consistent, Held
    <3>2. QED BY <1>2, <1>4, <1>6, <1>7, <3>1 DEF OwnFd, Typed
  <2>3. ASSUME NEW q \in Objects PROVE OwnMapping(g, q)
    <3>1. OwnMapping(h, q) /\ Typed(h)
      BY <1>1 DEF Consistent, Held
    <3>2. QED BY <1>2, <1>4, <1>6, <1>7, <3>1 DEF OwnMapping, Typed
  <2>4. QED BY <2>1, <2>2, <2>3 DEF Held
<1>9. Accounted(g)
  <2>1. Accounted(h) /\ Typed(h)
    BY <1>1 DEF Consistent
  <2>2. g.obj[o].fd = d /\ g.obj[o].data = r
    BY <1>4, <2>1 DEF Typed
  <2>3. \A q \in Objects \ {o} : g.obj[q] = h.obj[q]
    BY <1>4, <2>1 DEF Typed
  <2>4. ASSUME NEW e \in Descriptors, g.fds[e] # NoPath
        PROVE  e \in g.lostFds \/ \E q \in Objects : g.obj[q].fd = e
    <3>1. CASE e = d
      BY <2>2, <3>1
    <3>2. CASE e # d
      <4>1. h.fds[e] # NoPath /\ e # NoDescriptor
        BY <1>4, <2>1, <2>4, <3>2, FileAssumption DEF Typed, Descriptors, NoDescriptor
      <4>2. QED BY <1>1, <1>4, <2>1, <2>3, <4>1 DEF Accounted
    <3>3. QED BY <3>1, <3>2
  <2>5. ASSUME NEW e \in Regions, g.maps[e] # Unmapped
        PROVE  e \in g.lostMaps \/ \E q \in Objects : g.obj[q].data = e
    <3>1. CASE e = r
      BY <2>2, <3>1
    <3>2. CASE e # r
      <4>1. h.maps[e] # Unmapped /\ e # NoRegion
        BY <1>4, <2>1, <2>5, <3>2, FileAssumption DEF Typed
      <4>2. QED BY <1>1, <1>4, <2>1, <2>3, <4>1 DEF Accounted
    <3>3. QED BY <3>1, <3>2
  <2>6. QED BY <2>4, <2>5 DEF Accounted
<1>10. OnlyForgets(f, g, o)
  <2>1. \A q \in Objects \ {o} : g.obj[q] = h.obj[q]
    BY <1>1, <1>4 DEF Consistent, Typed
  <2>2. f.obj[o].data # NoRegion => f.obj[o].data \in h.lostMaps
    BY <1>1 DEF OnlyForgets, Consistent, Typed
  <2>3. \A q \in Regions : f.maps[q] # Unmapped => g.maps[q] = h.maps[q]
    BY <1>1, <1>2, <1>4 DEF Consistent, Typed
  <2>4. QED BY <1>1, <1>4, <2>1, <2>2, <2>3 DEF OnlyForgets
<1>11. QED
  BY <1>5, <1>8, <1>9, <1>10 DEF Consistent, g

LEMMA OpenKeeps ==
  ASSUME NEW f, Consistent(f), NEW o \in Objects, f.obj[o].alive,
         NEW p \in Paths, NEW g \in Open(f, o, p)
  PROVE  Consistent(g) /\ OnlyForgets(f, g, o)
<1>1. CASE g = NotOpened(f, o)
  BY <1>1, ForgetFdKeeps DEF NotOpened
<1>2. ASSUME FileSize[p] # 0, FreeFds(f) # {}, g = NotMapped(f, o, p)
      PROVE  Consistent(g) /\ OnlyForgets(f, g, o)
  BY <1>2, NotMappedKeeps
<1>3. ASSUME FileSize[p] # 0, FreeFds(f) # {},
             NEW r \in FreeRegions(f), g = Opened(f, o, p, r)
      PROVE  Consistent(g) /\ OnlyForgets(f, g, o)
  BY <1>3, OpenedKeeps
<1>4. QED BY <1>1, <1>2, <1>3 DEF Open

\* A fresh object holds nothing.
LEMMA ConstructKeeps ==
  ASSUME NEW f, Consistent(f), NEW o \in Objects, ~f.obj[o].alive
  PROVE  LET g == Construct(f, o)
         IN Consistent(g) /\ g.obj[o].alive /\ OnlyForgets(f, g, o)
<1> DEFINE g == Construct(f, o)
           X == [alive : BOOLEAN, data : Regions \cup {NoRegion},
                 size : Nat, fd : Descriptors \cup {NoDescriptor}]
<1>1. Shape(f) /\ Typed(f) /\ f.obj \in [Objects -> X]
  BY DEF Consistent, Typed, Shape
<1>2. Empty \in X /\ Empty.fd = NoDescriptor /\ Empty.data = NoRegion /\ Empty.alive
  BY DEF Empty
<1>3. g = [obj |-> [f.obj EXCEPT ![o] = Empty], fds |-> f.fds, maps |-> f.maps,
           lostFds |-> f.lostFds, lostMaps |-> f.lostMaps]
  <2> DEFINE x == [f.obj EXCEPT ![o] = Empty]
  <2>1. g = [f EXCEPT !.obj = x]
    BY DEF Construct
  <2> HIDE DEF x, g
  <2>2. QED BY <1>1, <2>1, Assigned DEF x
<1> HIDE DEF g
<1>4. /\ g.obj = [f.obj EXCEPT ![o] = Empty] /\ g.fds = f.fds /\ g.maps = f.maps
      /\ g.lostFds = f.lostFds /\ g.lostMaps = f.lostMaps
      /\ g = [obj |-> g.obj, fds |-> g.fds, maps |-> g.maps,
              lostFds |-> g.lostFds, lostMaps |-> g.lostMaps]
  <2> HIDE DEF X
  <2> QED BY <1>3
<1>5. g.obj \in [Objects -> X]
  <2> HIDE DEF X
  <2> QED BY <1>1, <1>2, <1>4
<1>6. Typed(g)
  BY <1>1, <1>4, <1>5 DEF Typed
<1>7. f.obj[o].fd = NoDescriptor /\ f.obj[o].data = NoRegion
  <2>1. OwnFd(f, o) /\ OwnMapping(f, o)
    BY DEF Consistent, Held
  <2>2. QED BY <2>1 DEF OwnFd, OwnMapping
<1>8. /\ g.obj[o] = Empty
      /\ \A q \in Objects \ {o} : g.obj[q] = f.obj[q]
  <2> HIDE DEF X
  <2> QED BY <1>1, <1>4
<1>9. Held(g)
  <2>1. LostStaysOpen(g)
    BY <1>4 DEF Consistent, Held, LostStaysOpen
  <2>2. ASSUME NEW q \in Objects PROVE OwnFd(g, q) /\ OwnMapping(g, q)
    <3>1. OwnFd(f, q) /\ OwnMapping(f, q)
      BY DEF Consistent, Held
    <3>2. CASE q = o
      BY <1>2, <1>8, <3>2 DEF OwnFd, OwnMapping
    <3>3. CASE q # o
      <4>1. OwnFd(g, q)
        BY <1>2, <1>4, <1>8, <3>1, <3>3 DEF OwnFd
      <4>2. OwnMapping(g, q)
        BY <1>2, <1>4, <1>8, <3>1, <3>3 DEF OwnMapping
      <4>3. QED BY <4>1, <4>2
    <3>4. QED BY <3>2, <3>3
  <2>3. QED BY <2>1, <2>2 DEF Held
<1>10. Accounted(g)
  <2>1. NoDescriptor \notin Descriptors /\ NoRegion \notin Regions
    BY FileAssumption DEF Descriptors, NoDescriptor
  <2>2. QED BY <1>2, <1>4, <1>7, <1>8, <2>1 DEF Consistent, Accounted
<1>11. OnlyForgets(f, g, o)
  BY <1>4, <1>7, <1>8 DEF OnlyForgets
<1>12. QED
  BY <1>2, <1>6, <1>8, <1>9, <1>10, <1>11 DEF Consistent, g

FreedFds(f, o) ==
  IF f.obj[o].fd = NoDescriptor THEN f.fds
  ELSE [f.fds EXCEPT ![f.obj[o].fd] = NoPath]

FreedMaps(f, o) ==
  IF f.obj[o].data = NoRegion THEN f.maps
  ELSE [f.maps EXCEPT ![f.obj[o].data] = Unmapped]

\* The destructor releases exactly what the object holds.
LEMMA ReleaseFrees ==
  ASSUME NEW f, Consistent(f), NEW o \in Objects
  PROVE  Release(f, o) = [obj |-> f.obj, fds |-> FreedFds(f, o),
                          maps |-> FreedMaps(f, o),
                          lostFds |-> f.lostFds, lostMaps |-> f.lostMaps]
<1> DEFINE x == f.obj[o]
           u == Unmap(f, x.data, x.size)
<1>1. Shape(f)
  BY DEF Consistent, Typed, Shape
<1>2. u = [obj |-> f.obj, fds |-> f.fds, maps |-> FreedMaps(f, o),
           lostFds |-> f.lostFds, lostMaps |-> f.lostMaps]
  <2>1. CASE x.data = NoRegion
    <3>1. u = f
      BY <2>1 DEF Unmap
    <3>2. FreedMaps(f, o) = f.maps
      BY <2>1 DEF FreedMaps
    <3>3. QED BY <1>1, <3>1, <3>2 DEF Shape
  <2>2. CASE x.data # NoRegion
    <3>1. OwnMapping(f, o)
      BY DEF Consistent, Held
    <3>2. x.size # 0
      BY <2>2, <3>1 DEF OwnMapping
    <3> DEFINE y == [f.maps EXCEPT ![x.data] = Unmapped]
    <3>3. u = [f EXCEPT !.maps = y]
      BY <2>2, <3>2 DEF Unmap
    <3>4. FreedMaps(f, o) = y
      BY <2>2 DEF FreedMaps
    <3> HIDE DEF y, u
    <3>5. QED BY <1>1, <3>3, <3>4, Assigned
  <2>3. QED BY <2>1, <2>2
<1> HIDE DEF u
<1>3. Release(f, o) = CloseFd(u, x.fd)
  BY DEF Release, u
<1>4. CASE x.fd = NoDescriptor
  <2>1. FreedFds(f, o) = f.fds /\ Release(f, o) = u
    BY <1>3, <1>4 DEF FreedFds, CloseFd
  <2>2. QED BY <1>2, <2>1
<1>5. CASE x.fd # NoDescriptor
  <2> DEFINE y == [f.fds EXCEPT ![x.fd] = NoPath]
  <2>1. Shape(u) /\ u.fds = f.fds
    BY <1>2 DEF Shape
  <2>2. Release(f, o) = [u EXCEPT !.fds = [u.fds EXCEPT ![x.fd] = NoPath]]
    BY <1>3, <1>5 DEF CloseFd
  <2>3. FreedFds(f, o) = y
    BY <1>5 DEF FreedFds
  <2>4. Release(f, o) = [u EXCEPT !.fds = y]
    BY <2>1, <2>2
  <2> HIDE DEF y, x
  <2>5. QED BY <1>2, <2>1, <2>3, <2>4, Assigned
<1>6. QED BY <1>4, <1>5

\* Destruction releases what the object alone held.
LEMMA DestroyKeeps ==
  ASSUME NEW f, Consistent(f), NEW o \in Objects
  PROVE  LET g == Destroy(f, o)
         IN /\ Consistent(g)
            /\ g = [obj |-> [f.obj EXCEPT ![o] = Dead], fds |-> FreedFds(f, o),
                    maps |-> FreedMaps(f, o),
                    lostFds |-> f.lostFds, lostMaps |-> f.lostMaps]
<1> DEFINE g == Destroy(f, o)
           X == [alive : BOOLEAN, data : Regions \cup {NoRegion},
                 size : Nat, fd : Descriptors \cup {NoDescriptor}]
           d == f.obj[o].fd
           r == f.obj[o].data
<1>1. Shape(f) /\ Typed(f) /\ f.obj \in [Objects -> X]
  BY DEF Consistent, Typed, Shape
<1>2. Dead \in X /\ Dead.fd = NoDescriptor /\ Dead.data = NoRegion
  BY DEF Dead, Empty
<1>3. g = [obj |-> [f.obj EXCEPT ![o] = Dead], fds |-> FreedFds(f, o),
           maps |-> FreedMaps(f, o),
           lostFds |-> f.lostFds, lostMaps |-> f.lostMaps]
  <2> DEFINE h == Release(f, o)
             x == [f.obj EXCEPT ![o] = Dead]
  <2>1. h = [obj |-> f.obj, fds |-> FreedFds(f, o), maps |-> FreedMaps(f, o),
             lostFds |-> f.lostFds, lostMaps |-> f.lostMaps]
    BY ReleaseFrees
  <2>2. g = [h EXCEPT !.obj = [h.obj EXCEPT ![o] = Dead]]
    BY DEF Destroy
  <2> HIDE DEF g, h
  <2>3. Shape(h) /\ h.obj = f.obj
    BY <2>1 DEF Shape
  <2>4. g = [h EXCEPT !.obj = x]
    BY <2>2, <2>3
  <2> HIDE DEF x
  <2>5. QED BY <2>1, <2>3, <2>4, Assigned DEF x
<1> HIDE DEF g
<1>4. /\ g.obj = [f.obj EXCEPT ![o] = Dead]
      /\ g.fds = FreedFds(f, o) /\ g.maps = FreedMaps(f, o)
      /\ g.lostFds = f.lostFds /\ g.lostMaps = f.lostMaps
      /\ g = [obj |-> g.obj, fds |-> g.fds, maps |-> g.maps,
              lostFds |-> g.lostFds, lostMaps |-> g.lostMaps]
  <2> HIDE DEF X
  <2> QED BY <1>3
<1>5. /\ g.obj[o] = Dead
      /\ \A q \in Objects \ {o} : g.obj[q] = f.obj[q]
  <2> HIDE DEF X
  <2> QED BY <1>1, <1>4
<1>6. /\ d \in Descriptors \cup {NoDescriptor} /\ r \in Regions \cup {NoRegion}
      /\ NoDescriptor \notin Descriptors /\ NoRegion \notin Regions
  BY <1>1, FileAssumption DEF Descriptors, NoDescriptor
<1>7. /\ \A e \in Descriptors : g.fds[e] = IF e = d THEN NoPath ELSE f.fds[e]
      /\ \A e \in Regions : g.maps[e] = IF e = r THEN Unmapped ELSE f.maps[e]
  BY <1>1, <1>4, <1>6 DEF Typed, FreedFds, FreedMaps
<1>8. OwnFd(f, o) /\ OwnMapping(f, o) /\ LostStaysOpen(f)
  BY DEF Consistent, Held
<1>9. Typed(g)
  <2>1. g.obj \in [Objects -> X]
    <3> HIDE DEF X
    <3> QED BY <1>1, <1>2, <1>4
  <2>2. g.fds \in [Descriptors -> Paths \cup {NoPath}]
    BY <1>1, <1>4 DEF Typed, FreedFds
  <2>3. g.maps \in [Regions -> [path : Paths \cup {NoPath}, len : Nat]]
    <3> DEFINE M == [path : Paths \cup {NoPath}, len : Nat]
    <3>1. f.maps \in [Regions -> M] /\ Unmapped \in M
      BY <1>1 DEF Typed, Unmapped
    <3> HIDE DEF M
    <3>2. g.maps \in [Regions -> M]
      BY <1>4, <3>1 DEF FreedMaps
    <3>3. QED BY <3>2 DEF M
  <2>4. QED BY <1>1, <1>4, <2>1, <2>2, <2>3 DEF Typed
<1>10. Held(g)
  <2>1. LostStaysOpen(g)
    BY <1>1, <1>4, <1>6, <1>7, <1>8 DEF LostStaysOpen, OwnFd, OwnMapping, Typed
  <2>2. ASSUME NEW q \in Objects PROVE OwnFd(g, q) /\ OwnMapping(g, q)
    <3>1. OwnFd(f, q) /\ OwnMapping(f, q)
      BY DEF Consistent, Held
    <3>2. CASE q = o
      BY <1>2, <1>5, <3>2 DEF OwnFd, OwnMapping
    <3>3. CASE q # o
      <4>1. g.obj[q] = f.obj[q] /\ f.obj[q] \in X
        <5> HIDE DEF X
        <5> QED BY <1>1, <1>5, <3>3
      <4>2. /\ f.obj[q].fd \in Descriptors \cup {NoDescriptor}
            /\ f.obj[q].data \in Regions \cup {NoRegion}
        BY <4>1
      <4>3. OwnFd(g, q)
        BY <1>2, <1>4, <1>5, <1>7, <3>1, <3>3, <4>1, <4>2 DEF OwnFd
      <4>4. OwnMapping(g, q)
        BY <1>2, <1>4, <1>5, <1>7, <3>1, <3>3, <4>1, <4>2 DEF OwnMapping
      <4>5. QED BY <4>3, <4>4
    <3>4. QED BY <3>2, <3>3
  <2>3. QED BY <2>1, <2>2 DEF Held
<1>11. Accounted(g)
  <2>1. Accounted(f)
    BY DEF Consistent
  <2>2. QED BY <1>4, <1>5, <1>7, <2>1 DEF Accounted
<1>12. QED
  BY <1>3, <1>9, <1>10, <1>11 DEF Consistent, g

\* From f to g, o got what from had, and released what it held itself.
Moves(f, g, o, from) ==
  /\ g.obj[o] = f.obj[from]
  /\ \A q \in Objects \ {o, from} : g.obj[q] = f.obj[q]
  /\ \A r \in Regions : f.obj[o].data # r => g.maps[r] = f.maps[r]
  /\ g.lostMaps = f.lostMaps

\* A move hands over what the source holds to an object that holds nothing.
LEMMA TakeKeeps ==
  ASSUME NEW f, Consistent(f), NEW o \in Objects, NEW from \in Objects, o # from,
         f.obj[o].fd = NoDescriptor, f.obj[o].data = NoRegion
  PROVE  LET g == Take(f, o, from)
         IN Consistent(g) /\ g.maps = f.maps /\ Moves(f, g, o, from)
<1> DEFINE g == Take(f, o, from)
           X == [alive : BOOLEAN, data : Regions \cup {NoRegion},
                 size : Nat, fd : Descriptors \cup {NoDescriptor}]
           x1 == [f.obj EXCEPT ![o] = f.obj[from]]
           x == [x1 EXCEPT ![from] = Empty]
<1>1. Shape(f) /\ Typed(f) /\ f.obj \in [Objects -> X]
  BY DEF Consistent, Typed, Shape
<1>2. Empty \in X /\ Empty.fd = NoDescriptor /\ Empty.data = NoRegion
  BY DEF Empty
<1>3. g = [obj |-> x, fds |-> f.fds, maps |-> f.maps,
           lostFds |-> f.lostFds, lostMaps |-> f.lostMaps]
  <2> DEFINE h == [f EXCEPT !.obj = x1]
  <2>1. g = [h EXCEPT !.obj = [h.obj EXCEPT ![from] = Empty]]
    BY DEF Take
  <2>2. h = [obj |-> x1, fds |-> f.fds, maps |-> f.maps,
             lostFds |-> f.lostFds, lostMaps |-> f.lostMaps]
    <3> HIDE DEF x1
    <3> QED BY <1>1, Assigned
  <2> HIDE DEF g, h, x1
  <2>3. Shape(h) /\ h.obj = x1
    BY <2>2 DEF Shape
  <2>4. g = [h EXCEPT !.obj = x]
    BY <2>1, <2>3
  <2> HIDE DEF x
  <2>5. QED BY <2>2, <2>3, <2>4, Assigned
<1> HIDE DEF g
<1>4. /\ g.obj = x /\ g.fds = f.fds /\ g.maps = f.maps
      /\ g.lostFds = f.lostFds /\ g.lostMaps = f.lostMaps
      /\ g = [obj |-> g.obj, fds |-> g.fds, maps |-> g.maps,
              lostFds |-> g.lostFds, lostMaps |-> g.lostMaps]
  <2> HIDE DEF X, x
  <2> QED BY <1>3
<1>5. /\ g.obj[o] = f.obj[from] /\ g.obj[from] = Empty
      /\ \A q \in Objects \ {o, from} : g.obj[q] = f.obj[q]
      /\ g.obj \in [Objects -> X]
  <2> HIDE DEF X
  <2> QED BY <1>1, <1>2, <1>4
<1>6. Typed(g)
  BY <1>1, <1>4, <1>5 DEF Typed
<1>7. Held(g)
  <2>1. LostStaysOpen(g)
    BY <1>4 DEF Consistent, Held, LostStaysOpen
  <2>2. ASSUME NEW q \in Objects PROVE OwnFd(g, q) /\ OwnMapping(g, q)
    <3>1. /\ OwnFd(f, q) /\ OwnMapping(f, q)
          /\ OwnFd(f, from) /\ OwnMapping(f, from)
      BY DEF Consistent, Held
    <3>2. CASE q = from
      BY <1>2, <1>5, <3>2 DEF OwnFd, OwnMapping
    <3>3. CASE q = o
      <4>1. OwnFd(g, o)
        BY <1>2, <1>4, <1>5, <3>1 DEF OwnFd
      <4>2. OwnMapping(g, o)
        BY <1>2, <1>4, <1>5, <3>1 DEF OwnMapping
      <4>3. QED BY <3>3, <4>1, <4>2
    <3>4. CASE q \notin {o, from}
      <4>1. g.obj[q] = f.obj[q]
        BY <1>5, <3>4
      <4>2. OwnFd(g, q)
        BY <1>2, <1>4, <1>5, <3>1, <3>4, <4>1 DEF OwnFd
      <4>3. OwnMapping(g, q)
        BY <1>2, <1>4, <1>5, <3>1, <3>4, <4>1 DEF OwnMapping
      <4>4. QED BY <4>2, <4>3
    <3>5. QED BY <3>2, <3>3, <3>4
  <2>3. QED BY <2>1, <2>2 DEF Held
<1>8. Accounted(g)
  <2>1. NoDescriptor \notin Descriptors /\ NoRegion \notin Regions
    BY FileAssumption DEF Descriptors, NoDescriptor
  <2>2. ASSUME NEW e \in Descriptors, NEW q \in Objects, f.obj[q].fd = e
        PROVE  \E z \in Objects : g.obj[z].fd = e
    BY <1>5, <2>1, <2>2
  <2>3. ASSUME NEW e \in Regions, NEW q \in Objects, f.obj[q].data = e
        PROVE  \E z \in Objects : g.obj[z].data = e
    BY <1>5, <2>1, <2>3
  <2>4. QED BY <1>4, <2>2, <2>3 DEF Consistent, Accounted
<1>9. Moves(f, g, o, from)
  BY <1>4, <1>5 DEF Moves
<1>10. QED
  BY <1>4, <1>6, <1>7, <1>8, <1>9 DEF Consistent, g

LEMMA MoveAssignKeeps ==
  ASSUME NEW f, Consistent(f), NEW o \in Objects, NEW from \in Objects
  PROVE  LET g == MoveAssign(f, o, from)
         IN Consistent(g) /\ (o # from => Moves(f, g, o, from))
<1>1. CASE o = from
  BY <1>1 DEF MoveAssign
<1>2. CASE o # from
  <2> DEFINE h == Release(f, o)
             k == Destroy(f, o)
  <2>1. h = [obj |-> f.obj, fds |-> FreedFds(f, o), maps |-> FreedMaps(f, o),
             lostFds |-> f.lostFds, lostMaps |-> f.lostMaps]
    BY ReleaseFrees
  <2>2. /\ Consistent(k)
        /\ k = [obj |-> [f.obj EXCEPT ![o] = Dead], fds |-> FreedFds(f, o),
                maps |-> FreedMaps(f, o),
                lostFds |-> f.lostFds, lostMaps |-> f.lostMaps]
    BY DestroyKeeps
  <2>3. o \in DOMAIN f.obj /\ from \in DOMAIN f.obj
    BY DEF Consistent, Typed
  <2> HIDE DEF h, k
  <2>4. k.obj = [f.obj EXCEPT ![o] = Dead] /\ h.obj = f.obj
    BY <2>1, <2>2
  <2>5. /\ k.obj[o] = Dead /\ k.obj[from] = h.obj[from]
        /\ [k.obj EXCEPT ![o] = h.obj[from]] = [h.obj EXCEPT ![o] = h.obj[from]]
    BY <1>2, <2>3, <2>4
  <2>6. k.obj[o].fd = NoDescriptor /\ k.obj[o].data = NoRegion
    BY <2>5 DEF Dead, Empty
  <2>7. /\ Consistent(Take(k, o, from))
        /\ Take(k, o, from).maps = k.maps /\ Moves(k, Take(k, o, from), o, from)
    BY <1>2, <2>2, <2>6, TakeKeeps
  <2>8. Take(k, o, from) = Take(h, o, from)
    <3> DEFINE x == [h.obj EXCEPT ![o] = h.obj[from]]
    <3>1. Shape(h) /\ Shape(k)
      BY <2>1, <2>2 DEF Shape
    <3>2. [k EXCEPT !.obj = x] = [h EXCEPT !.obj = x]
      <4> HIDE DEF x
      <4>1. /\ k.fds = h.fds /\ k.maps = h.maps
            /\ k.lostFds = h.lostFds /\ k.lostMaps = h.lostMaps
        BY <2>1, <2>2
      <4>2. [k EXCEPT !.obj = x] =
              [obj |-> x, fds |-> k.fds, maps |-> k.maps,
               lostFds |-> k.lostFds, lostMaps |-> k.lostMaps]
        BY <3>1, Assigned
      <4>3. [h EXCEPT !.obj = x] =
              [obj |-> x, fds |-> h.fds, maps |-> h.maps,
               lostFds |-> h.lostFds, lostMaps |-> h.lostMaps]
        BY <3>1, Assigned
      <4>4. QED BY <4>1, <4>2, <4>3
    <3>3. [k EXCEPT !.obj[o] = k.obj[from]] = [h EXCEPT !.obj[o] = h.obj[from]]
      BY <2>5, <3>2
    <3>4. QED BY <3>3 DEF Take
  <2>9. Moves(f, Take(k, o, from), o, from)
    <3>1. \A q \in Objects \ {o} : k.obj[q] = f.obj[q]
      BY <2>3, <2>4 DEF Consistent, Typed
    <3>2. \A r \in Regions : f.obj[o].data # r => k.maps[r] = f.maps[r]
      BY <2>2 DEF FreedMaps, Consistent, Typed
    <3>3. k.lostMaps = f.lostMaps
      BY <2>2
    <3>4. QED BY <1>2, <2>7, <3>1, <3>2, <3>3 DEF Moves
  <2>10. QED BY <1>2, <2>7, <2>8, <2>9 DEF MoveAssign, h
<1>3. QED BY <1>1, <1>2

\* An object outside its lifetime holds nothing.
LEMMA MoveConstructKeeps ==
  ASSUME NEW f, Consistent(f), NEW o \in Objects, NEW from \in Objects,
         ~f.obj[o].alive, f.obj[from].alive
  PROVE  LET g == MoveConstruct(f, o, from)
         IN Consistent(g) /\ Moves(f, g, o, from)
<1>1. OwnFd(f, o) /\ OwnMapping(f, o)
  BY DEF Consistent, Held
<1>2. f.obj[o].fd = NoDescriptor /\ f.obj[o].data = NoRegion
  BY <1>1 DEF OwnFd, OwnMapping
<1>3. o # from
  OBVIOUS
<1>4. QED BY <1>2, <1>3, TakeKeeps DEF MoveConstruct

LEMMA InitConsistent == FileInit => Consistent(fs)
<1> DEFINE X == [alive : BOOLEAN, data : Regions \cup {NoRegion},
                 size : Nat, fd : Descriptors \cup {NoDescriptor}]
           obj == [o \in Objects |-> Dead]
           fds == [d \in Descriptors |-> NoPath]
           maps == [r \in Regions |-> Unmapped]
<1> SUFFICES ASSUME FileInit PROVE Consistent(fs)
  OBVIOUS
<1>1. fs = [obj |-> obj, fds |-> fds, maps |-> maps, lostFds |-> {}, lostMaps |-> {}]
  BY DEF FileInit
<1>2. Dead \in X /\ Dead.fd = NoDescriptor /\ Dead.data = NoRegion
  BY DEF Dead, Empty
<1>3. /\ fs.obj = obj /\ fs.fds = fds /\ fs.maps = maps
      /\ fs.lostFds = {} /\ fs.lostMaps = {}
      /\ fs = [obj |-> fs.obj, fds |-> fs.fds, maps |-> fs.maps,
               lostFds |-> fs.lostFds, lostMaps |-> fs.lostMaps]
  <2> HIDE DEF obj, fds, maps
  <2> QED BY <1>1
<1>4. Typed(fs)
  <2>1. fs.obj \in [Objects -> X]
    <3> HIDE DEF X
    <3> QED BY <1>2, <1>3
  <2>2. fs.maps \in [Regions -> [path : Paths \cup {NoPath}, len : Nat]]
    BY <1>3 DEF Unmapped
  <2>3. QED BY <1>3, <2>1, <2>2 DEF Typed
<1>5. Held(fs)
  BY <1>2, <1>3 DEF Held, LostStaysOpen, OwnFd, OwnMapping
<1>6. Accounted(fs)
  BY <1>3 DEF Accounted
<1>7. QED BY <1>4, <1>5, <1>6 DEF Consistent

\* Every operation of a program that uses the objects keeps what all rely on.
LEMMA NextKeeps == Consistent(fs) /\ [FileNext]_fs => Consistent(fs)'
<1> SUFFICES ASSUME Consistent(fs), [FileNext]_fs PROVE Consistent(fs')
  OBVIOUS
<1>1. ASSUME NEW o \in Objects, FileConstruct(o) PROVE Consistent(fs')
  BY <1>1, ConstructKeeps DEF FileConstruct, Alive
<1>2. ASSUME NEW o \in Objects, FileOpen(o) PROVE Consistent(fs')
  BY <1>2, OpenKeeps DEF FileOpen, Alive
<1>3. ASSUME NEW o \in Objects, FileDestroy(o) PROVE Consistent(fs')
  BY <1>3, DestroyKeeps DEF FileDestroy
<1>4. ASSUME NEW o \in Objects, NEW p \in Paths, FileAcquire(o, p)
      PROVE  Consistent(fs')
  <2>1. Consistent(Construct(fs, o)) /\ Construct(fs, o).obj[o].alive
    BY <1>4, ConstructKeeps DEF FileAcquire, Alive
  <2>2. QED BY <1>4, <2>1, OpenKeeps DEF FileAcquire
<1>5. ASSUME NEW o \in Objects, NEW from \in Objects, FileMoveConstruct(o, from)
      PROVE  Consistent(fs')
  BY <1>5, MoveConstructKeeps DEF FileMoveConstruct, Alive
<1>6. ASSUME NEW o \in Objects, NEW from \in Objects, FileMoveAssign(o, from)
      PROVE  Consistent(fs')
  BY <1>6, MoveAssignKeeps DEF FileMoveAssign
<1>7. CASE UNCHANGED fs
  BY <1>7
<1>8. QED BY <1>1, <1>2, <1>3, <1>4, <1>5, <1>6, <1>7 DEF FileNext

LEMMA ConsistentAlways == FileSpec => []Consistent(fs)
<1>1. QED BY InitConsistent, NextKeeps, PTL DEF FileSpec

\* However a program opens, moves and destroys files, the objects and the
\* kernel's tables stay well-formed (MappedFile, src/FileHandle.cpp).
THEOREM FilesTyped == FileSpec => []FileTypeOK
<1>1. Consistent(fs) => FileTypeOK
  BY DEF Consistent, FileTypeOK
<1>2. QED BY <1>1, ConsistentAlways, PTL

\* No destructor, move or failed open() releases what another object uses: a
\* double close, or an munmap of a region that was given out again, is impossible
\* for any number of objects, descriptors and regions.
THEOREM FilesHeldAreOpen == FileSpec => []HeldIsOpen
<1>1. Consistent(fs) => HeldIsOpen
  BY DEF Consistent, HeldIsOpen
<1>2. QED BY <1>1, ConsistentAlways, PTL

\* Nothing leaks but what a second open() of the same object forgets.
THEOREM OpenFilesAreHeld == FileSpec => []OpenIsHeld
<1>1. Consistent(fs) => OpenIsHeld
  BY DEF Consistent, OpenIsHeld
<1>2. QED BY <1>1, ConsistentAlways, PTL
=============================================================================
