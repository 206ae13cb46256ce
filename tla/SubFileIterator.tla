--------------------------- MODULE SubFileIterator ---------------------------
(***************************************************************************)
(* exampleSrc/SubFileIterator.h, both builds: an iterator over the files   *)
(* that match, whose constructor takes a search handle (Windows) or the    *)
(* memory of a glob() result (Linux), which close() gives back.            *)
(***************************************************************************)
EXTENDS Naturals, Sequences

CONSTANT SiMaxFiles \* bound of the matching files

VARIABLES
  siPc,             \* "off", "on", "gone"
  siWin,            \* is it Win32SubFileIterator?
  siFiles,          \* how many files match
  siAt,             \* m_index, or the place of m_findHandle
  siHeld,           \* gl_pathc; 1 for a valid m_findHandle, 0 for an invalid one
  siFrees,          \* how often the handle or the memory was given back
  siSeen            \* the files the caller was shown

siVars == <<siPc, siWin, siFiles, siAt, siHeld, siFrees, siSeen>>

SiOff == siPc = "off"

SiInit ==
  /\ siPc = "off" /\ siWin = FALSE /\ siFiles = 0
  /\ siAt = 0 /\ siHeld = 0 /\ siFrees = 0 /\ siSeen = <<>>

\* FindFirstFile, glob.
SiOpen ==
  /\ siPc = "off" /\ siPc' = "on"
  /\ siWin' \in BOOLEAN
  /\ siFiles' \in 0 .. SiMaxFiles
  /\ siHeld' = IF siWin' /\ siFiles' > 0 THEN 1 ELSE siFiles'
  /\ siSeen' = IF siFiles' > 0 THEN <<0>> ELSE <<>>
  /\ UNCHANGED <<siAt, siFrees>>

\* good(), before a step and after it.
SiGoodAt(held, at) == IF siWin THEN held # 0 ELSE held > 0 /\ held > at

\* Faulty variant: what was given back is not marked so.
SiClose_Keep ==
  /\ siFrees' = IF siHeld > 0 THEN siFrees + 1 ELSE siFrees
  /\ siHeld' = siHeld

SiClose ==
  /\ siFrees' = IF siHeld > 0 THEN siFrees + 1 ELSE siFrees
  /\ siHeld' = 0

\* operator++: FindNextFile, or the index; past the last file the iterator closes.
\* The caller may go on, which moves the index of a closed one.
SiStep ==
  /\ siPc = "on" /\ siAt <= siFiles
  /\ IF siWin
     THEN IF SiGoodAt(siHeld, siAt) /\ siAt + 1 = siFiles
          THEN SiClose /\ UNCHANGED siAt
          ELSE /\ siAt' = IF SiGoodAt(siHeld, siAt) THEN siAt + 1 ELSE siAt
               /\ UNCHANGED <<siHeld, siFrees>>
     ELSE /\ siAt' = siAt + 1
          /\ IF SiGoodAt(siHeld, siAt + 1) THEN UNCHANGED <<siHeld, siFrees>> ELSE SiClose
  /\ siSeen' = IF SiGoodAt(siHeld', siAt') THEN Append(siSeen, siAt') ELSE siSeen
  /\ UNCHANGED <<siPc, siWin, siFiles>>

\* The destructor.
SiDestroy ==
  /\ siPc = "on" /\ siPc' = "gone"
  /\ SiClose
  /\ UNCHANGED <<siWin, siFiles, siAt, siSeen>>

SiNext == SiOpen \/ SiStep \/ SiDestroy

-----------------------------------------------------------------------------
\* The caller is shown the files in order, each once, and all of them before the
\* iterator is not good any more; and what the constructor took is given back once,
\* by the end of the files or by the destructor, also when the caller goes on past
\* the end.
SiEachOnce ==
  /\ siSeen = [i \in 1 .. Len(siSeen) |-> i - 1]
  /\ siPc = "on" /\ ~SiGoodAt(siHeld, siAt) => Len(siSeen) = siFiles
  /\ siFrees <= 1
  /\ siPc = "gone" => siFrees = IF siFiles > 0 THEN 1 ELSE 0
=============================================================================
