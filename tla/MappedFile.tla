----------------------------- MODULE MappedFile -----------------------------
(***************************************************************************)
(* Files mapped into memory (src/FileHandle.cpp, the POSIX branch): the    *)
(* objects that own them, and the process's table of open descriptors and  *)
(* its address space, as far as mmap fills it.                             *)
(*                                                                         *)
(* Descriptors and regions are reused by the kernel, so that releasing one *)
(* twice releases somebody else's.  What several threads do to different   *)
(* objects meets only here, and each operation takes or returns numbers in *)
(* one system call at a time: an operation is one step.                    *)
(***************************************************************************)
EXTENDS Integers, FiniteSets

CONSTANTS
  Objects,         \* MappedFile objects, constructed or not
  Paths,           \* the files of the disk
  FileSize,        \* their sizes
  Regions,         \* bound: where mmap may put a mapping
  NoRegion,        \* nullptr
  NoPath,          \* what an unused descriptor or region refers to
  MaxDescriptors,  \* the descriptors the process may have open
  MaxLost          \* bound: resources lost by opening an object again

Descriptors == 0 .. MaxDescriptors - 1
NoDescriptor == -1

ASSUME FileAssumption ==
  /\ FileSize \in [Paths -> Nat]
  /\ NoRegion \notin Regions
  /\ NoPath \notin Paths
  /\ MaxDescriptors \in Nat /\ MaxLost \in Nat

\* All that the operations change: the objects, what the descriptors and the
\* regions refer to, and (history) what a second open() forgot.
VARIABLE fs

Unmapped == [path |-> NoPath, len |-> 0]

Empty == [alive |-> TRUE, data |-> NoRegion, size |-> 0, fd |-> NoDescriptor]
Dead  == [Empty EXCEPT !.alive = FALSE]

FileInit ==
  fs = [obj     |-> [o \in Objects |-> Dead],
        fds     |-> [d \in Descriptors |-> NoPath],
        maps    |-> [r \in Regions |-> Unmapped],
        lostFds |-> {}, lostMaps |-> {}]

-----------------------------------------------------------------------------
(* The operations, as functions of the state.                              *)

Construct(f, o) == [f EXCEPT !.obj[o] = Empty]

\* Mutant: a size is taken for a mapping.
ViewOfSize(f, o) == [at |-> f.obj[o].data, len |-> f.obj[o].size]

\* view(): where the bytes are and how many; nothing without a mapping.
View(f, o) ==
  IF f.obj[o].data = NoRegion \/ f.obj[o].size = 0
  THEN [at |-> NoRegion, len |-> 0]
  ELSE [at |-> f.obj[o].data, len |-> f.obj[o].size]

\* open() assigns fd, and later data, whatever they held.
ForgetFd(f, o) ==
  [f EXCEPT !.obj[o].fd = NoDescriptor,
            !.lostFds = @ \cup ({f.obj[o].fd} \ {NoDescriptor})]
ForgetData(f, o) ==
  [f EXCEPT !.obj[o].data = NoRegion,
            !.lostMaps = @ \cup ({f.obj[o].data} \ {NoRegion})]

FreeFds(f)     == {d \in Descriptors : f.fds[d] = NoPath}
FreeRegions(f) == {r \in Regions : f.maps[r] = Unmapped}
LowestFd(f)    == CHOOSE d \in FreeFds(f) : \A e \in FreeFds(f) : d <= e

\* ::open or fstat fails, or the file is empty: no descriptor is kept.
NotOpened(f, o) == ForgetFd(f, o)

\* Mutant: the error value of mmap is kept as a pointer.
NotMappedKeepsError(f, o, p) ==
  [ForgetFd(f, o) EXCEPT !.obj[o].data = "MAP_FAILED", !.obj[o].size = FileSize[p]]

\* mmap fails: the size has been assigned, the new descriptor is closed.
NotMapped(f, o, p) ==
  [ForgetData(ForgetFd(f, o), o) EXCEPT !.obj[o].size = FileSize[p]]

Opened(f, o, p, r) ==
  [NotMapped(f, o, p) EXCEPT
     !.obj[o].fd = LowestFd(f), !.fds[LowestFd(f)] = p,
     !.obj[o].data = r, !.maps[r] = [path |-> p, len |-> FileSize[p]]]

\* What open(path) may end in.
Open(f, o, p) ==
  {NotOpened(f, o)} \cup
  (IF FileSize[p] = 0 \/ FreeFds(f) = {} THEN {}
   ELSE {NotMapped(f, o, p)} \cup {Opened(f, o, p, r) : r \in FreeRegions(f)})

\* munmap(data, size) and close(fd); munmap refuses a size of 0.
Unmap(f, r, n) ==
  IF r = NoRegion \/ n = 0 THEN f ELSE [f EXCEPT !.maps[r] = Unmapped]
CloseFd(f, d) ==
  IF d = NoDescriptor THEN f ELSE [f EXCEPT !.fds[d] = NoPath]

\* Mutant: the descriptor is not closed.
ReleaseMapping(f, o) == Unmap(f, f.obj[o].data, f.obj[o].size)

\* The destructor's body.
Release(f, o) ==
  CloseFd(Unmap(f, f.obj[o].data, f.obj[o].size), f.obj[o].fd)

Destroy(f, o) == [Release(f, o) EXCEPT !.obj[o] = Dead]

\* Mutant: the source keeps its descriptor.
TakeMapping(f, o, from) ==
  [f EXCEPT !.obj[o] = f.obj[from],
            !.obj[from].data = NoRegion, !.obj[from].size = 0]

\* What is moved, member by member, and the source left empty.
Take(f, o, from) == [f EXCEPT !.obj[o] = f.obj[from], !.obj[from] = Empty]

MoveConstruct(f, o, from) == Take(f, o, from)

MoveAssign(f, o, from) == IF o = from THEN f ELSE Take(Release(f, o), o, from)

-----------------------------------------------------------------------------
(* A program that uses the objects of a set in any way its types allow.    *)

Alive(o) == fs.obj[o].alive

Holds(o) == fs.obj[o].fd # NoDescriptor \/ fs.obj[o].data # NoRegion

\* Opening an object that already has a file is bounded: each time loses it.
MayOpen(o) == Holds(o) => Cardinality(fs.lostFds \cup fs.lostMaps) < MaxLost

FileConstruct(o) == ~Alive(o) /\ fs' = Construct(fs, o)
FileOpen(o) ==
  Alive(o) /\ MayOpen(o) /\ \E p \in Paths : fs' \in Open(fs, o, p)
FileMoveConstruct(o, from) ==
  ~Alive(o) /\ Alive(from) /\ fs' = MoveConstruct(fs, o, from)
FileMoveAssign(o, from) ==
  Alive(o) /\ Alive(from) /\ fs' = MoveAssign(fs, o, from)
FileDestroy(o) == Alive(o) /\ fs' = Destroy(fs, o)

\* Constructed and opened by one initializer.
FileAcquire(o, p) == ~Alive(o) /\ fs' \in Open(Construct(fs, o), o, p)

FileNext ==
  \E o \in Objects :
    \/ FileConstruct(o) \/ FileOpen(o) \/ FileDestroy(o)
    \/ \E p \in Paths : FileAcquire(o, p)
    \/ \E from \in Objects : FileMoveConstruct(o, from) \/ FileMoveAssign(o, from)

FileSpec == FileInit /\ [][FileNext]_fs

-----------------------------------------------------------------------------
(* Properties.                                                             *)

Typed(f) ==
  /\ f = [obj |-> f.obj, fds |-> f.fds, maps |-> f.maps,
          lostFds |-> f.lostFds, lostMaps |-> f.lostMaps]
  /\ f.obj \in [Objects -> [alive : BOOLEAN, data : Regions \cup {NoRegion},
                            size : Nat, fd : Descriptors \cup {NoDescriptor}]]
  /\ f.fds \in [Descriptors -> Paths \cup {NoPath}]
  /\ f.maps \in [Regions -> [path : Paths \cup {NoPath}, len : Nat]]
  /\ f.lostFds \subseteq Descriptors /\ f.lostMaps \subseteq Regions

\* What object o holds is open, has not been lost, and is nobody else's.
OwnFd(f, o) ==
  LET d == f.obj[o].fd
  IN d # NoDescriptor =>
       /\ f.obj[o].alive /\ f.fds[d] # NoPath /\ d \notin f.lostFds
       /\ \A q \in Objects \ {o} : f.obj[q].fd # d

OwnMapping(f, o) ==
  LET r == f.obj[o].data
  IN r # NoRegion =>
       /\ f.obj[o].alive /\ f.maps[r].len = f.obj[o].size /\ f.obj[o].size > 0
       /\ r \notin f.lostMaps
       /\ \A q \in Objects \ {o} : f.obj[q].data # r

\* What was lost is never released.
LostStaysOpen(f) ==
  /\ \A d \in f.lostFds : f.fds[d] # NoPath
  /\ \A r \in f.lostMaps : f.maps[r].len > 0

Held(f) ==
  LostStaysOpen(f) /\ \A o \in Objects : OwnFd(f, o) /\ OwnMapping(f, o)

\* Whatever is open is held by an object or was lost.
Accounted(f) ==
  /\ \A d \in Descriptors : f.fds[d] # NoPath =>
       d \in f.lostFds \/ \E o \in Objects : f.obj[o].fd = d
  /\ \A r \in Regions : f.maps[r] # Unmapped =>
       r \in f.lostMaps \/ \E o \in Objects : f.obj[o].data = r

FileTypeOK == Typed(fs)

\* No destructor, move or failed open() releases a descriptor or a mapping
\* that another object uses, or one twice: what a living object holds is open
\* and its own, and its view never exceeds its mapping.
HeldIsOpen == Held(fs)

\* Moves, failures in the middle of open() and destruction leak nothing: what is
\* open is held by a living object, or was lost when open() was called on an
\* object that already had a file.
OpenIsHeld == Accounted(fs)
=============================================================================
