------------------------------ MODULE Validator ------------------------------
(***************************************************************************)
(* The upload handler's filename pipeline: FileHandler.Upload              *)
(* (src/internal/handler/file.go) checks the size, detects the MIME type,  *)
(* runs validator.SanitizeFilename on the client's filename and           *)
(* validator.ValidateFile on the resulting header                          *)
(* (src/pkg/validator/file.go), and passes the header to the service only  *)
(* if both checks pass.  The name it passes is stored, and Download writes *)
(* it into Content-Disposition: attachment; filename="<name>".            *)
(*                                                                         *)
(* A string is a sequence of one-byte characters from CHARS.  A character  *)
(* stands for the class of bytes the code treats alike: QUOTE for the      *)
(* class [<>:"|?*\x00-\x1f] that SanitizeFilename replaces, DEL for the    *)
(* control characters outside that class (unicode.IsControl), BSL for the  *)
(* backslash, and letters for the rest.  Letters are taken case-folded, so *)
(* strings.ToUpper and strings.ToLower leave them unchanged.               *)
(***************************************************************************)
EXTENDS Naturals, Sequences, SequencesExt

CONSTANTS
    CHARS,          \* the characters client filenames are made of
    QUOTE,          \* stands for the class SanitizeFilename replaces
    DEL,            \* a control character outside that class
    BSL,            \* "\\"
    UNDERSCORE,     \* "_", what SanitizeFilename writes instead
    UnnamedFile,    \* "unnamed_file"
    ALLOWED,        \* AllowedTypes: extension -> its MIME types
    DANGEROUS,      \* the keys of DangerousTypes
    RESERVED,       \* CON, PRN, AUX, NUL, COM1..9, LPT1..9
    MIMES,          \* the strings mimetype.DetectReader may report
    MaxFilenameLen, \* 255 bytes in the code
    MaxFileSize,    \* 100 MB in the code, in the handler and the validator
    MaxInputLen,    \* longest client filename considered
    None,
    Rejected        \* the 400 response

ASSUME /\ {QUOTE, DEL, BSL, ".", " "} \subseteq CHARS
       /\ "/" \notin CHARS
       /\ MaxFilenameLen \in Nat \ {0} /\ MaxFileSize \in Nat \ {0}

\* mime/multipart returns filepath.Base of the client's filename, so it is
\* never empty and never contains "/".
FormFiles == [filename : BoundedSeq(CHARS, MaxInputLen) \ {<<>>},
              size : 0..MaxFileSize + 1,
              readable : BOOLEAN]           \* Open, DetectReader and Seek succeed

NameChars == CHARS \cup {UNDERSCORE} \cup ToSet(UnnamedFile)

VARIABLES
    file,       \* the form file of the request: its filename, size and readability
    mime,       \* what mimetype.DetectReader reports for its body
    passed      \* the header the handler hands to StorageService.Upload, None
                \* before it returns, or the response it rejects with

vars == <<file, mime, passed>>

\* filepath.Ext: the suffix from the last "." that no "/" follows.
Ext(s) == LET dots == {i \in 1..Len(s) : s[i] = "." /\ \A j \in i..Len(s) : s[j] # "/"}
          IN IF dots = {} THEN <<>> ELSE SubSeq(s, Max(dots), Len(s))

\* strings.TrimSuffix(s, filepath.Ext(s)).
WithoutExt(s) == SubSeq(s, 1, Len(s) - Len(Ext(s)))

\* strings.Trim(s, cutset): drop the leading and trailing runs of cutset.
Trim(s, cutset) == LET keep == {i \in 1..Len(s) : s[i] \notin cutset}
                   IN IF keep = {} THEN <<>> ELSE SubSeq(s, Min(keep), Max(keep))

\* Mutant: the name is cut to its first MaxFilenameLen bytes.
LimitLengthNaive(s) == IF Len(s) > MaxFilenameLen THEN SubSeq(s, 1, MaxFilenameLen) ELSE s

\* The length limit of SanitizeFilename: a name longer than MaxFilenameLen
\* keeps its extension and the first MaxFilenameLen - len(ext) bytes of the
\* rest; when the extension alone is that long, the name stays as it is.
LimitLength(s) == LET ext == Ext(s)
                      maxNameLen == MaxFilenameLen - Len(ext)
                  IN IF Len(s) > MaxFilenameLen /\ maxNameLen > 0
                     THEN SubSeq(WithoutExt(s), 1, maxNameLen) \o ext
                     ELSE s

SanitizeFilename(f) ==
    LET replaced == [i \in 1..Len(f) |-> IF f[i] = QUOTE THEN UNDERSCORE ELSE f[i]]
        limited  == LimitLength(Trim(replaced, {" ", "."}))
    IN IF limited = <<>> THEN UnnamedFile ELSE limited

HasDotDot(s) == \E i \in 1..Len(s) - 1 : s[i] = "." /\ s[i + 1] = "."

\* dangerousChars lie in QUOTE's class; unicode.IsControl holds for DEL
\* (and for the controls of QUOTE's class).
ValidateFilename(f) ==
    /\ 1 <= Len(f) /\ Len(f) <= MaxFilenameLen
    /\ \A i \in 1..Len(f) : f[i] # QUOTE
    /\ \A i \in 1..Len(f) : f[i] # DEL
    /\ WithoutExt(f) \notin RESERVED
    /\ ~HasDotDot(f) /\ ~Contains(f, "/") /\ ~Contains(f, BSL)
    /\ f[1] # "."

ValidateFileExtension(f) == LET ext == Ext(f) IN
    /\ ext # <<>>
    /\ ext \notin DANGEROUS
    /\ ext \in DOMAIN ALLOWED

ValidateContentType(f, ct) == LET ext == Ext(f) IN
    /\ ext \in DOMAIN ALLOWED
    /\ ct \in ALLOWED[ext]

ValidateFileSize(size) == 0 < size /\ size <= MaxFileSize

\* mtype.String() is never empty, so the content type is always checked.
ValidateFile(h) ==
    /\ ValidateFilename(h.name)
    /\ ValidateFileExtension(h.name)
    /\ ValidateFileSize(h.size)
    /\ h.contentType = "" \/ ValidateContentType(h.name, h.contentType)

\* A request to POST /api/v1/files has arrived.  The handler keeps no state
\* between requests, so each behaviour is one request.
Init == /\ file \in FormFiles
        /\ mime \in MIMES
        /\ passed = None

\* Mutant: the handler passes the sanitized header on without ValidateFile.
UploadUnvalidated ==
    /\ passed = None
    /\ passed' = IF file.size # 0 /\ file.size <= MaxFileSize /\ file.readable
                 THEN [name |-> SanitizeFilename(file.filename),
                       size |-> file.size, contentType |-> mime]
                 ELSE Rejected
    /\ UNCHANGED <<file, mime>>

\* FileHandler.Upload: the early returns on an empty or too large file and
\* on a read error, then the sanitized header, validated.
Upload ==
    LET header == [name |-> SanitizeFilename(file.filename),
                   size |-> file.size, contentType |-> mime]
    IN /\ passed = None
       /\ passed' = IF /\ file.size # 0 /\ file.size <= MaxFileSize
                       /\ file.readable
                       /\ ValidateFile(header)
                    THEN header ELSE Rejected
       /\ UNCHANGED <<file, mime>>

Next == Upload

Spec == Init /\ [][Next]_vars

-----------------------------------------------------------------------------

TypeOK == /\ file \in FormFiles
          /\ mime \in MIMES
          /\ passed \in {None, Rejected} \cup
               [name : BoundedSeq(NameChars, MaxFilenameLen) \ {<<>>},
                size : 1..MaxFileSize, contentType : MIMES]

(***************************************************************************)
(* Sanitizing never changes which extension an accepted upload has: the    *)
(* extension of the accepted name is that of the client's filename, once   *)
(* the trailing spaces and dots clients drop are dropped.  Replacing,      *)
(* trimming and the length limit must all keep the extension, or a name    *)
(* such as evil.jpg.sh could be cut to evil.jpg and accepted.             *)
(***************************************************************************)
NoExtensionSmuggling ==
    passed \notin {None, Rejected} => Ext(passed.name) = Ext(Trim(file.filename, {" ", "."}))

=============================================================================
