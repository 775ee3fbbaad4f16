------------------------------ MODULE LocalPath ------------------------------
(***************************************************************************)
(* LocalStorage.sanitizePath (src/pkg/storage/local.go), the check Put,    *)
(* Get, Delete and List each make before touching the disk.               *)
(*                                                                         *)
(* A path string is a record: whether it starts with "/", and its          *)
(* "/"-separated elements.  An element is a model string from ELEMS, so    *)
(* a test on the whole string becomes a test on its elements: the string  *)
(* contains ".." iff an element does (a "/" cannot be part of "..").       *)
(***************************************************************************)
EXTENDS Sequences, SequencesExt

CONSTANTS
    ELEMS,      \* path elements inputs are made of: "a", ".", "..", "" ...
    DOTDOT,     \* the members of ELEMS that contain the substring ".."
    SENSITIVE,  \* the members of ELEMS among etc, var, usr, home, root, sys, proc
    BASE,       \* LocalStorage.basePath, absolute, as a sequence of elements
    MaxLen,     \* longest input, in elements
    None

ASSUME /\ ".." \in DOTDOT /\ DOTDOT \subseteq ELEMS /\ SENSITIVE \subseteq ELEMS
       /\ \A i \in 1..Len(BASE) : BASE[i] \notin {"", ".", ".."}
       /\ MaxLen \in Nat

Inputs == [abs : BOOLEAN, elems : BoundedSeq(ELEMS, MaxLen)]

VARIABLE
    reached     \* the last input a call did I/O for, or None

(***************************************************************************)
(* filepath.Clean, lexically: empty and "." elements go, ".." removes the *)
(* element before it, ".." at the root of an absolute path goes; an empty *)
(* relative result is ".".                                                 *)
(***************************************************************************)
RECURSIVE CleanFrom(_, _, _)
CleanFrom(abs, kept, rest) ==
    IF rest = <<>> THEN kept
    ELSE LET e == Head(rest) IN
         CleanFrom(abs,
                   CASE e \in {"", "."} -> kept
                     [] e = ".." /\ kept # <<>> /\ Last(kept) # ".." -> Front(kept)
                     [] e = ".." /\ abs /\ kept = <<>> -> kept
                     [] OTHER -> Append(kept, e),
                   Tail(rest))

Clean(p) == LET k == CleanFrom(p.abs, <<>>, p.elems)
            IN [abs |-> p.abs, elems |-> IF k = <<>> /\ ~p.abs THEN <<".">> ELSE k]

\* filepath.Clean then strings.TrimPrefix(cleanPath, "/").
CleanPath(p) == [Clean(p) EXCEPT !.abs = FALSE]

\* strings.Contains(cleanPath, "..").
HasDotDot(q) == \E i \in 1..Len(q.elems) : q.elems[i] \in DOTDOT

\* strings.HasPrefix(cleanPath, "etc/") and the six like it: a sensitive
\* first element followed by a "/", so by a second element.
InSensitiveDir(q) == Len(q.elems) >= 2 /\ q.elems[1] \in SENSITIVE

\* filepath.Abs(filepath.Join(s.basePath, cleanPath)); basePath is absolute,
\* so Abs only cleans.
FullPath(q) == CleanFrom(TRUE, <<>>, BASE \o q.elems)

\* absFullPath has the prefix absBasePath + "/" or equals absBasePath.
WithinBase(l) == IsPrefix(BASE, l)

SanitizeOK(p) == LET q == CleanPath(p) IN
                 /\ ~HasDotDot(q)
                 /\ ~InSensitiveDir(q)
                 /\ WithinBase(FullPath(q))

Init == reached = None

\* A call with path p, as Delete (and Put, Get, List alike): it does I/O at
\* filepath.Join(s.basePath, cleanPath) when sanitizePath returns no error.
Call(p) == /\ SanitizeOK(p)
           /\ reached' = p

Next == \E p \in Inputs : Call(p)

Spec == Init /\ [][Next]_reached

-----------------------------------------------------------------------------

\* The location an input names, resolved against the base directory.
Resolved(p) == CleanFrom(TRUE, <<>>, BASE \o p.elems)

(* Spec 4 (local variant) and 8 (path containment): an input that is      *)
(* absolute, contains "..", or does not resolve strictly inside the base  *)
(* directory fails with InvalidPath and does no I/O.  About sanitizePath  *)
(* clamping "/x" to "x", accepting "a/../b", and accepting "." (the base  *)
(* directory itself, which Delete then hands to os.Remove).               *)
PathContainment ==
    reached # None =>
        /\ ~reached.abs
        /\ \A i \in 1..Len(reached.elems) : reached.elems[i] \notin DOTDOT
        /\ IsPrefix(BASE, Resolved(reached))
        /\ Len(Resolved(reached)) > Len(BASE)
=============================================================================
