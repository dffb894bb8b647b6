----------------------------- MODULE Derivatives -----------------------------
(***************************************************************************)
(* One derivative image and its temporary file (lib/convert_ops.py:318-382 *)
(* and routes/convert.py:118-142).  A conversion fetches a TIFF, decodes   *)
(* it in memory, writes the JPG to <name>.jpg.tmp, compares the size and   *)
(* renames the file into place.  Nothing keeps two conversions to the same *)
(* name apart: a client's retry, or "a.tif" and "a.tiff", which            *)
(* derivative_name gives one name.  Requests for the image read it         *)
(* meanwhile.  Conversions to other names share nothing with these.        *)
(***************************************************************************)
EXTENDS Naturals, Sequences

CONSTANTS
    Conversion,   \* conversions at a time
    Viewer,       \* requests for the image at a time
    Image,        \* what the sources of this name convert to
    Pieces,         \* the number of pieces an image is written in
    Missing,      \* there is no such file
    MaxShared,    \* bound on openings of a temporary file that another is at work on
    Hole          \* what a file holds where nothing was written

ASSUME DerivativeAssumption ==
    /\ Pieces \in [Image -> Nat \ {0}]
    /\ MaxShared \in Nat
    /\ Hole \notin Image
    /\ Missing \notin Seq(Image \cup {Hole})

VARIABLES
    jpg,          \* what the derivative's file holds
    tmpfile,      \* what the temporary file holds
    conv,         \* how far each conversion has come
    jpeg,         \* the image each conversion has in memory
    pieces,       \* the pieces of it that are written
    handle,       \* which file it writes: tmpfile, jpg, or one without a name
    abandoned,    \* history: a killed conversion or a failed removal left the temporary file
    shared,       \* history: times the temporary file was opened under another
    viewer,       \* how far each request for the image has come
    told,         \* the length it is going to declare
    crossed,      \* history: those that measured an image and another took its place
    sent          \* what its client was sent

conversions == <<conv, jpeg, pieces, handle>>
viewers == <<viewer, told, crossed, sent>>
derivativeVars == <<jpg, tmpfile, conversions, abandoned, shared, viewers>>

FileHolds == Seq(Image \cup {Hole}) \cup {Missing}

(* The file that holds the image i from its first piece to its last.       *)
Whole(i) == [k \in 1..Pieces[i] |-> i]
IsWhole(f) == \E i \in Image : f = Whole(i)

(* A conversion that others may disturb, or be disturbed by.               *)
AtWork == {"writing", "closed", "sized"}

DerivativeInit ==
    /\ jpg = Missing /\ tmpfile = Missing
    /\ conv = [c \in Conversion |-> "idle"]
    /\ jpeg = [c \in Conversion |-> Missing]
    /\ pieces = [c \in Conversion |-> 0]
    /\ handle = [c \in Conversion |-> "none"]
    /\ abandoned = FALSE /\ shared = 0
    /\ viewer = [r \in Viewer |-> "idle"]
    /\ told = [r \in Viewer |-> 0]
    /\ crossed = {}
    /\ sent = [r \in Viewer |-> "nothing"]

-----------------------------------------------------------------------------
(* convert_and_store, up to the write: the space is looked at, the TIFF is *)
(* fetched and decoded.  A request refused on the way changes nothing.     *)
Convert(c, i) ==
    /\ conv[c] = "idle"
    /\ conv' = [conv EXCEPT ![c] = "converted"]
    /\ jpeg' = [jpeg EXCEPT ![c] = Whole(i)]
    /\ UNCHANGED <<jpg, tmpfile, pieces, handle, abandoned, shared, viewers>>

(* open(tmp, 'wb') creates the file or truncates it, whoever has it open.  *)
OpenTmpFile(c) ==
    /\ conv[c] = "converted"
    /\ LET busy == \E q \in Conversion : conv[q] \in AtWork
       IN  /\ busy => shared < MaxShared
           /\ shared' = shared + IF busy THEN 1 ELSE 0
    /\ tmpfile' = << >>
    /\ conv' = [conv EXCEPT ![c] = "writing"]
    /\ pieces' = [pieces EXCEPT ![c] = 0]
    /\ handle' = [handle EXCEPT ![c] = "tmp"]
    /\ UNCHANGED <<jpg, jpeg, abandoned, viewers>>

(* It cannot be opened.                                                    *)
CannotOpen(c) ==
    /\ conv[c] = "converted"
    /\ conv' = [conv EXCEPT ![c] = "failing"]
    /\ UNCHANGED <<jpg, tmpfile, jpeg, pieces, handle, abandoned, shared, viewers>>

(* The file f after piece k of the text j was written to it.  A file that  *)
(* was truncated meanwhile has a hole before it.                           *)
AfterWrite(f, j, k) ==
    [n \in 1..(IF k > Len(f) THEN k ELSE Len(f)) |->
        IF n = k THEN j[k] ELSE IF n <= Len(f) THEN f[n] ELSE Hole]

(* handle.write, which takes its time on the derivative share.             *)
WritePiece(c) ==
    /\ conv[c] = "writing" /\ pieces[c] < Len(jpeg[c])
    /\ pieces' = [pieces EXCEPT ![c] = pieces[c] + 1]
    /\ tmpfile' = IF handle[c] = "tmp" THEN AfterWrite(tmpfile, jpeg[c], pieces[c] + 1) ELSE tmpfile
    /\ jpg' = IF handle[c] = "jpg" THEN AfterWrite(jpg, jpeg[c], pieces[c] + 1) ELSE jpg
    /\ UNCHANGED <<conv, jpeg, handle, abandoned, shared, viewers>>

(* The write ends, on a full disk before all is written, or raises.        *)
EndWrite(c) ==
    /\ conv[c] = "writing"
    /\ \E end \in {"closed", "failing"} : conv' = [conv EXCEPT ![c] = end]
    /\ pieces' = [pieces EXCEPT ![c] = 0]
    /\ handle' = [handle EXCEPT ![c] = "none"]
    /\ UNCHANGED <<jpg, tmpfile, jpeg, abandoned, shared, viewers>>

(* Mutant: the size is not compared.                                       *)
StatTmpFileOnly(c) ==
    /\ conv[c] = "closed"
    /\ conv' = [conv EXCEPT ![c] = IF tmpfile = Missing THEN "failing" ELSE "sized"]
    /\ UNCHANGED <<jpg, tmpfile, jpeg, pieces, handle, abandoned, shared, viewers>>

(* The size of what is at the temporary name by now must be the image's.   *)
StatTmpFile(c) ==
    /\ conv[c] = "closed"
    /\ LET right == tmpfile # Missing /\ Len(tmpfile) = Len(jpeg[c])
       IN  conv' = [conv EXCEPT ![c] = IF right THEN "sized" ELSE "failing"]
    /\ UNCHANGED <<jpg, tmpfile, jpeg, pieces, handle, abandoned, shared, viewers>>

(* os.replace; a file that is still open keeps its writers.                *)
ReplaceTmpFile(c) ==
    /\ conv[c] = "sized"
    /\ IF tmpfile = Missing
       THEN /\ conv' = [conv EXCEPT ![c] = "failing"]
            /\ UNCHANGED <<jpg, tmpfile, jpeg, handle, abandoned, viewers>>
       ELSE /\ conv' = [conv EXCEPT ![c] = "idle"]
            /\ jpg' = tmpfile
            /\ tmpfile' = Missing
            /\ jpeg' = [jpeg EXCEPT ![c] = Missing]
            /\ handle' = [q \in Conversion |-> IF handle[q] = "tmp" THEN "jpg"
                                               ELSE IF handle[q] = "jpg" THEN "unnamed"
                                               ELSE handle[q]]
            /\ abandoned' = FALSE
            /\ crossed' = crossed \cup {r \in Viewer : viewer[r] = "measured" /\ tmpfile # jpg}
            /\ UNCHANGED <<viewer, told, sent>>
    /\ UNCHANGED <<pieces, shared>>

(* After any failure the temporary file is removed, whosever it is; an     *)
(* OSError of the removal is swallowed.                                    *)
RemoveTmpFile(c) ==
    /\ conv[c] = "failing"
    /\ conv' = [conv EXCEPT ![c] = "idle"]
    /\ jpeg' = [jpeg EXCEPT ![c] = Missing]
    /\ \/ /\ tmpfile' = Missing
          /\ handle' = [q \in Conversion |-> IF handle[q] = "tmp" THEN "unnamed" ELSE handle[q]]
          /\ abandoned' = FALSE
       \/ /\ tmpfile # Missing
          /\ abandoned' = TRUE
          /\ UNCHANGED <<tmpfile, handle>>
    /\ UNCHANGED <<jpg, pieces, shared, viewers>>

(* The worker of a conversion is killed.                                   *)
KillConversion(c) ==
    /\ conv[c] # "idle"
    /\ conv' = [conv EXCEPT ![c] = "idle"]
    /\ jpeg' = [jpeg EXCEPT ![c] = Missing]
    /\ pieces' = [pieces EXCEPT ![c] = 0]
    /\ handle' = [handle EXCEPT ![c] = "none"]
    /\ abandoned' = (abandoned \/ tmpfile # Missing)
    /\ UNCHANGED <<jpg, tmpfile, shared, viewers>>

-----------------------------------------------------------------------------
(* get_image: a missing file is refused with 404, an empty one with 400.   *)
LookAt(r) ==
    /\ viewer[r] = "idle" /\ jpg # Missing /\ jpg # << >>
    /\ viewer' = [viewer EXCEPT ![r] = "found"]
    /\ crossed' = crossed \ {r}
    /\ sent' = [sent EXCEPT ![r] = "nothing"]
    /\ UNCHANGED <<jpg, tmpfile, conversions, abandoned, shared, told>>

(* send_file, of a library: it takes the length, then opens the file.      *)
Measure(r) ==
    /\ viewer[r] = "found"
    /\ viewer' = [viewer EXCEPT ![r] = "measured"]
    /\ told' = [told EXCEPT ![r] = Len(jpg)]
    /\ UNCHANGED <<jpg, tmpfile, conversions, abandoned, shared, crossed, sent>>
SendImage(r) ==
    /\ viewer[r] = "measured"
    /\ viewer' = [viewer EXCEPT ![r] = "idle"]
    /\ told' = [told EXCEPT ![r] = 0]
    /\ sent' = [sent EXCEPT ![r] =
                    IF IsWhole(jpg) /\ Len(jpg) = told[r] THEN "image" ELSE "cut"]
    /\ UNCHANGED <<jpg, tmpfile, conversions, abandoned, shared, crossed>>

ConversionStep(c) ==
    \/ \E i \in Image : Convert(c, i)
    \/ OpenTmpFile(c) \/ CannotOpen(c) \/ WritePiece(c) \/ EndWrite(c)
    \/ StatTmpFile(c) \/ ReplaceTmpFile(c) \/ RemoveTmpFile(c) \/ KillConversion(c)
ViewerStep(r) == LookAt(r) \/ Measure(r) \/ SendImage(r)
DerivativeNext ==
    \/ \E c \in Conversion : ConversionStep(c)
    \/ \E r \in Viewer : ViewerStep(r)
DerivativeSpec == DerivativeInit /\ [][DerivativeNext]_derivativeVars

-----------------------------------------------------------------------------
(* The types of all variables.                                             *)
DerivativeTypeOK ==
    /\ jpg \in FileHolds /\ tmpfile \in FileHolds
    /\ conv \in [Conversion -> {"idle", "converted", "failing"} \cup AtWork]
    /\ jpeg \in [Conversion -> {Whole(i) : i \in Image} \cup {Missing}]
    /\ pieces \in [Conversion -> Nat]
    /\ handle \in [Conversion -> {"none", "tmp", "jpg", "unnamed"}]
    /\ abandoned \in BOOLEAN /\ shared \in 0..MaxShared
    /\ viewer \in [Viewer -> {"idle", "found", "measured"}]
    /\ told \in [Viewer -> Nat]
    /\ crossed \subseteq Viewer
    /\ sent \in [Viewer -> {"nothing", "image", "cut"}]

(* A request is sent one image from its first byte to its last, through    *)
(* any number of retries, kills and full disks.  Two things can spoil it:  *)
(* two conversions that had the temporary file open at once, and another   *)
(* image that took the place of the one whose length was declared.  The    *)
(* code promises it without exception (:21-22).                            *)
ImageServed == \A r \in Viewer : sent[r] = "cut" => shared > 0 \/ r \in crossed

(* "temp removed on any failure" (:22): the temporary file is there only   *)
(* while a conversion is at work, or after one was killed, or could not    *)
(* remove it, while it was there.                                          *)
NoTmpFileLeft ==
    tmpfile # Missing => abandoned \/ \E c \in Conversion : conv[c] \in AtWork \cup {"failing"}

DerivativesKept == ImageServed /\ NoTmpFileLeft

(* Violated: "readers can never observe a partial or 0-byte file" (:22).   *)
ImageServedAlways == \A r \in Viewer : sent[r] # "cut"
=============================================================================
