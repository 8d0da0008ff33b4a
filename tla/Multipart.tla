------------------------------ MODULE Multipart ------------------------------
(***************************************************************************)
(* The parser of multipart/form-data request bodies (multipart.cc) and the *)
(* temporary files of the uploads.  The body is read through a buffer that *)
(* is handled when a line ends or when it is full: a step reads one        *)
(* buffer.  What it holds is a kind of text, the parameters it has when it *)
(* is a Content-Disposition header, and how it ends: "crlf", "lf", or      *)
(* "full" when the buffer was full before the line ended.                  *)
(***************************************************************************)
EXTENDS Naturals, Sequences, FiniteSets

CONSTANTS BodyLines,      \* the buffers a body may be made of
          MaxLines,       \* bound on the buffers of a body
          MaxAfterFlaw,   \* bound on those read after the first flaw of a body
          Rests,          \* what a body may have after its last line end
          Confs,          \* Content-Type headers and settings: limit 0 is no limit
          NoFilesLimit    \* SecRequestBodyNoFilesLimit, in buffers; 0: not set

VARIABLES conf,      \* the request's header and the settings
          mp,        \* the parser
          parts,     \* m_parts: the parts that are complete
          tmpFiles,  \* m_multipartPartTmpFiles of the transaction
          body,      \* history: how much was read
          told       \* the variables rules can read, once they are set

multipartVars == <<conf, mp, parts, tmpFiles, body, told>>

(* Texts that matter at the start of a line; anything else is plain text.  *)
BoundaryTexts == {"boundary", "final", "boundaryJunk", "boundaryQuoted", "boundarySpaced",
                  "dashes"}
ContentTypes == {"good", "quoted", "noSemicolon", "whitespace", "empty", "bad"}
Ends == {"crlf", "lf", "full"}

ASSUME MultipartAssumption ==
    /\ BodyLines \subseteq [text : STRING, params : Seq(STRING), end : Ends]
    /\ \A l \in BodyLines : l.text \in {"boundary", "final", "empty"} => l.end # "full"
    /\ MaxLines \in Nat /\ MaxAfterFlaw \in Nat /\ NoFilesLimit \in Nat
    /\ Confs \subseteq [ct : ContentTypes, limit : Nat, keep : BOOLEAN, save : BOOLEAN]

NoPart == [type |-> "none"]
NewPart == [type |-> "form", name |-> FALSE, filename |-> FALSE, filenameStar |-> FALSE,
            headers |-> << >>, lastHeader |-> "", lastLine |-> "", headerLines |-> << >>,
            params |-> << >>, value |-> << >>, file |-> 0, size |-> 0, sent |-> << >>]

NewParser == [stage |-> "reading", mpp |-> NoPart, state |-> "headers", dataRead |-> FALSE,
              reserve |-> << >>, lastEnd |-> "start", count |-> 0, nfiles |-> 0, noFiles |-> 0,
              complete |-> FALSE, seen |-> FALSE, unmatched |-> 0, flags |-> {},
              error |-> FALSE]

Flag(m, f) == [m EXCEPT !.flags = @ \cup {f}]
Fails(m) == [m EXCEPT !.error = TRUE]
Ends0(m) == [m EXCEPT !.stage = "read"]         \* process returns

-----------------------------------------------------------------------------
(* init: the boundary is taken from the Content-Type header.  An empty     *)
(* boundary is refused without an error.                                   *)
multipart_init(ct) ==
    CASE ct = "good"        -> NewParser
      [] ct = "quoted"      -> Flag(NewParser, "boundary_quoted")
      [] ct = "noSemicolon" -> Flag(NewParser, "missing_semicolon")
      [] ct = "whitespace"  -> Flag(NewParser, "boundary_whitespace")
      [] ct = "empty"       -> Ends0(NewParser)
      [] OTHER              -> Ends0(Fails(Flag(NewParser, "error")))

(* One parameter of Content-Disposition, read after the ones before it.    *)
(* "rc" is FALSE once the header is not understood.                        *)
ReadParameter(s, param) ==
    LET bad(f) == [s EXCEPT !.rc = FALSE, !.flags = @ \cup f]
    IN  IF ~s.rc THEN s
        ELSE CASE param = "name" \/ param = "nameInQuotes" ->
                    LET q == IF param = "name" THEN {} ELSE {"invalid_quoting"}
                    IN  IF s.name THEN bad(q \cup {"duplicate_part_header"})
                        ELSE [s EXCEPT !.name = TRUE, !.flags = @ \cup q]
               [] param \in {"filename", "filename ="} ->
                    IF s.filename THEN bad({"duplicate_part_header"})
                    ELSE [s EXCEPT !.filename = TRUE]
               [] param \in {"filename*", "filename*%"} ->
                    IF s.filenameStar THEN bad({"duplicate_part_header"})
                    ELSE [s EXCEPT !.filenameStar = TRUE,
                                   !.flags = @ \cup (IF param = "filename*" THEN {}
                                                     ELSE {"invalid_part"})]
               [] param = "unclosed" -> bad({"invalid_quoting"})
               [] OTHER -> bad({})

(* Names that were read stay with the part, even when a later parameter is *)
(* refused.                                                                *)
parse_content_disposition(part, flags) ==
    LET start == [rc |-> TRUE, name |-> part.name, filename |-> part.filename,
                  filenameStar |-> part.filenameStar, flags |-> flags]
        read[i \in 0..Len(part.params)] ==
            IF i = 0 THEN start ELSE ReadParameter(read[i - 1], part.params[i])
    IN  read[Len(part.params)]

(* The header line before this one is complete.                            *)
RecordLine(p) ==
    IF p.lastLine = "" THEN p
    ELSE [p EXCEPT !.headerLines = Append(@, p.lastLine), !.lastLine = ""]

(* Parsers that look for "filename=" would take the part for a field.       *)
Crude(p, read) ==
    /\ read.filename \/ read.filenameStar
    /\ \A i \in DOMAIN p.params : p.params[i] \notin {"filename", "filename*", "filename*%"}

(* The empty line ends the headers, when they are understood.  An error is *)
(* noted, but the parser goes on: it reads what follows as headers.        *)
EndOfHeaders(m) ==
    LET p    == RecordLine(m.mpp)
        read == parse_content_disposition(p, m.flags)
        q    == [p EXCEPT !.name = read.name, !.filename = read.filename,
                          !.filenameStar = read.filenameStar]
        n    == [m EXCEPT !.mpp = q, !.flags = read.flags]
    IN  IF "disposition" \notin {p.headers[i] : i \in DOMAIN p.headers}
          THEN Fails([m EXCEPT !.mpp = p])
        ELSE IF ~read.rc \/ ~read.name \/ Crude(p, read) THEN Fails(n)
        ELSE [n EXCEPT !.mpp.type = IF q.filename \/ q.filenameStar THEN "file" ELSE "form",
                       !.mpp.lastHeader = "",
                       !.state = "data", !.dataRead = FALSE]

(* A folded line is added to the header before it.                         *)
FoldedHeader(m, line) ==
    LET n == [m EXCEPT !.flags = @ \cup {"header_folding"} \cup
                          (IF line.text = "badFold" THEN {"invalid_header_folding"} ELSE {})]
        o == [n EXCEPT !.mpp.params = IF m.mpp.lastHeader = "disposition" THEN @ \o line.params
                                      ELSE @]
    IN  IF m.mpp.lastHeader = "" THEN Fails(n)
        ELSE IF line.text = "longFold" THEN Fails(o)
        ELSE [o EXCEPT !.mpp.lastLine = m.mpp.lastHeader]

NewHeader(m, line) ==
    LET p == RecordLine(m.mpp)
        n == [m EXCEPT !.mpp = p]
    IN  IF line.text \notin {"disposition", "header"} THEN Fails(n)
        ELSE IF line.text \in {p.headers[i] : i \in DOMAIN p.headers}
          THEN Flag(n, "duplicate_part_header")
        ELSE [n EXCEPT !.mpp.headers = Append(@, line.text),
                       !.mpp.lastHeader = line.text, !.mpp.lastLine = line.text,
                       !.mpp.params = IF line.text = "disposition" THEN line.params ELSE @]

(* process_part_header returns true or false, never less than zero: its    *)
(* caller does not see that it failed.                                     *)
process_part_header(m, line) ==
    LET n == [Flag(m, IF line.end = "crlf" THEN "crlf_line" ELSE "lf_line")
                 EXCEPT !.noFiles = @ + 1]
    IN  IF line.text = "nul" THEN Fails(m)
        ELSE IF line.text = "empty" THEN EndOfHeaders(n)
        ELSE IF line.text \in {"fold", "badFold", "longFold"} THEN FoldedHeader(n, line)
        ELSE NewHeader(n, line)

-----------------------------------------------------------------------------
Extracts == conf.keep \/ conf.save
LimitReached(m) == conf.limit # 0 /\ m.nfiles >= conf.limit

(* The end of the line is held back: it is data only when no boundary      *)
(* follows.                                                                *)
LineEnd(line) == IF line.end = "full" THEN << >> ELSE <<line.end>>

LineData(line) == IF line.text = "empty" THEN << >> ELSE <<"text">>

(* Mutant: what was held back is dropped.                                  *)
MutFormBytes(m, line) == LineData(line)

FormBytes(m, line) == m.reserve \o LineData(line)

FileBytes(m, line) == m.reserve \o LineData(line)

Sent(m, line) == [m EXCEPT !.dataRead = TRUE, !.reserve = LineEnd(line),
                           !.mpp.sent = @ \o LineData(line) \o LineEnd(line)]

(* A file's data is written when uploads are kept or saved, up to the      *)
(* limit on the number of files.  The limit is looked at for every buffer: *)
(* the file that reaches it is itself cut after its first one.             *)
FileData(m, line, fault) ==
    LET exceeds == Extracts /\ LimitReached(m)
        n       == Sent(IF exceeds THEN Fails(Flag(m, "file_limit_exceeded")) ELSE m, line)
        new     == m.mpp.file = 0
        f       == IF new THEN Len(tmpFiles) + 1 ELSE m.mpp.file
        made    == IF new THEN Append(tmpFiles, [open |-> fault # "open", content |-> << >>,
                                                 delete |-> FALSE, onDisk |-> fault # "open"])
                   ELSE tmpFiles
        data    == FileBytes(m, line)
        counted == [n EXCEPT !.mpp.file = f, !.nfiles = IF new THEN @ + 1 ELSE @]
    IN  IF exceeds \/ ~Extracts
          THEN mp' = [n EXCEPT !.mpp.size = @ + Len(data)] /\ UNCHANGED tmpFiles
        ELSE IF new /\ fault = "open"
          THEN /\ mp' = Ends0(Fails(Flag([m EXCEPT !.mpp.file = f, !.dataRead = TRUE], "error")))
               /\ tmpFiles' = made
        ELSE IF fault = "write"
          THEN /\ mp' = Ends0(Fails(Flag([m EXCEPT !.mpp.file = f, !.dataRead = TRUE,
                                                   !.nfiles = counted.nfiles], "error")))
               /\ tmpFiles' = made
        ELSE /\ mp' = [counted EXCEPT !.mpp.value = @ \o LineData(line),
                                      !.mpp.size = @ + Len(data)]
             /\ tmpFiles' = [made EXCEPT ![f].content = @ \o data]

FormData(m, line) ==
    LET n == Sent(m, line)
    IN  [n EXCEPT !.mpp.value = @ \o FormBytes(m, line), !.noFiles = @ + 1]

-----------------------------------------------------------------------------
NextPart(m) == [m EXCEPT !.mpp = NewPart, !.state = "headers", !.dataRead = FALSE,
                         !.reserve = << >>]

(* process_boundary: the part is complete, its file is closed; the next    *)
(* one begins.                                                             *)
process_boundary(m, final) ==
    LET p == m.mpp
        n == IF p.type = "none" \/ p.name THEN m ELSE Flag(m, "invalid_part")
    IN  /\ parts' = IF p.type # "none" /\ p.name THEN Append(parts, p) ELSE parts
        /\ tmpFiles' = IF p.type = "file" /\ p.file # 0
                         THEN [tmpFiles EXCEPT ![p.file].open = FALSE] ELSE tmpFiles
        /\ mp' = IF final THEN [n EXCEPT !.mpp = NoPart, !.complete = TRUE] ELSE NextPart(n)

(* The buffer holds a line that begins with the boundary.                  *)
AtLineStart == mp.lastEnd # "full"
HoldsBoundary(line) == AtLineStart /\ line.text \in {"boundary", "final", "boundaryJunk"}

(* Where a part's data should begin, it is not a boundary.                 *)
Misplaced(m) == ~m.dataRead /\ m.count > 0

(* Mutant: a misplaced boundary is not told.                               *)
MutNoted(m, line) ==
    IF HoldsBoundary(line) /\ m.lastEnd = "lf" THEN Flag(m, "lf_line") ELSE m

Noted(m, line) ==
    LET n == IF HoldsBoundary(line) /\ m.lastEnd = "lf" THEN Flag(m, "lf_line") ELSE m
    IN  IF HoldsBoundary(line)
          THEN IF Misplaced(m) THEN Flag(n, "invalid_part")
               ELSE IF m.count > 0 THEN [n EXCEPT !.unmatched = 2] ELSE n
        ELSE IF AtLineStart /\ line.text \in {"dashes", "inside", "boundaryQuoted"} THEN [n EXCEPT !.unmatched = 1]
        ELSE n

AfterBuffer(m, line) == [m EXCEPT !.lastEnd = line.end, !.seen = TRUE]

(* A boundary line.                                                        *)
ReadBoundary(line) ==
    /\ HoldsBoundary(line) /\ ~Misplaced(mp)
    /\ LET n == [Noted(mp, line) EXCEPT !.lastEnd = line.end, !.seen = TRUE]
       IN  IF line.text = "boundaryJunk"
             THEN mp' = Ends0(Fails(Flag(n, "error"))) /\ UNCHANGED <<parts, tmpFiles>>
             ELSE process_boundary([Flag(n, IF line.end = "lf" THEN "lf_line" ELSE "crlf_line")
                                       EXCEPT !.count = @ + 1],
                                   line.text = "final")

(* A line that was meant as a boundary: the body is refused.               *)
RefuseBoundary(line) ==
    /\ AtLineStart
    /\ \/ line.text = "boundaryQuoted" /\ conf.ct = "quoted"
       \/ line.text = "boundarySpaced"
    /\ mp' = Ends0(Fails(Flag(AfterBuffer(mp, line), "error")))
    /\ UNCHANGED <<parts, tmpFiles>>

(* Anything else is data before the first boundary, a header, or data.     *)
ReadData(line, fault) ==
    LET m == Noted(mp, line)
    IN  /\ ~(HoldsBoundary(line) /\ ~Misplaced(mp))
        /\ ~(AtLineStart /\ \/ line.text = "boundaryQuoted" /\ conf.ct = "quoted"
                            \/ line.text = "boundarySpaced")
        /\ UNCHANGED parts
        /\ CASE m.mpp.type = "none" ->
                  mp' = AfterBuffer(Flag(m, "data_before"), line) /\ UNCHANGED tmpFiles
             [] m.mpp.type # "none" /\ m.state = "headers" ->
                  /\ mp' = IF line.end = "full"
                             THEN Ends0(Fails(Flag(AfterBuffer(m, line), "error")))
                             ELSE AfterBuffer(process_part_header(m, line), line)
                  /\ UNCHANGED tmpFiles
             [] m.state = "data" /\ m.mpp.type = "form" ->
                  mp' = AfterBuffer(FormData(m, line), line) /\ UNCHANGED tmpFiles
             [] m.state = "data" /\ m.mpp.type = "file" ->
                  FileData(AfterBuffer(m, line), line, fault)

InitMultipart ==
    /\ conf \in Confs
    /\ mp = multipart_init(conf.ct)
    /\ parts = << >>
    /\ tmpFiles = << >>
    /\ body = [lines |-> 0, afterFlaw |-> 0, boundaries |-> 0]
    /\ told = [set |-> FALSE]

Flawed == mp.error \/ mp.flags \ {"crlf_line", "boundary_quoted"} # {}

(* process: one buffer.                                                    *)
process(line, fault) ==
    /\ mp.stage = "reading" /\ ~mp.complete /\ body.lines < MaxLines
    /\ body.afterFlaw < MaxAfterFlaw
    /\ body' = [lines |-> body.lines + 1,
                afterFlaw |-> body.afterFlaw + (IF Flawed THEN 1 ELSE 0),
                boundaries |-> body.boundaries
                                 + (IF AtLineStart /\ line.text = "boundary" THEN 1 ELSE 0)]
    /\ UNCHANGED <<conf, told>>
    /\ ReadBoundary(line) \/ RefuseBoundary(line) \/ ReadData(line, fault)

(* More data after the last boundary is ignored.                           *)
DataAfter ==
    /\ mp.stage = "reading" /\ mp.complete
    /\ mp' = Ends0(Flag(mp, "data_after"))
    /\ UNCHANGED <<conf, parts, tmpFiles, body, told>>

-----------------------------------------------------------------------------
(* The buffer holds the final boundary, without a line end.                *)
FinalInBuffer(rest) == mp.stage = "reading" /\ AtLineStart /\ rest = "final" /\ ~mp.complete
                       /\ mp.count > 0

AtTheEnd(m) ==
    (IF m.lastEnd = "lf" THEN {"lf_line"} ELSE {})
        \cup (IF ~m.dataRead THEN {"invalid_part"} ELSE {})

(* What makes MULTIPART_STRICT_ERROR 1.                                    *)
Strict(flags) == flags \ {"crlf_line"} # {}

(* The variables of a part: FILES_TMPNAMES, FILES_SIZES and                *)
(* FILES_TMP_CONTENT, or ARGS and ARGS_POST.                               *)
VariablesOfPart(p) ==
    IF p.type = "file" THEN [tmpName |-> p.file, size |-> p.size, tmpContent |-> p.value]
    ELSE [arg |-> p.value]

(* multipart_complete, and what the transaction reports.  The variables    *)
(* are set from the flags first; what comes up while the final boundary is *)
(* handled is added to them.                                               *)
multipart_complete(rest) ==
    LET m     == [mp EXCEPT !.seen = @ \/ (mp.stage = "reading" /\ rest # "none")]
        ends  == FinalInBuffer(rest)
        late  == IF ends THEN AtTheEnd(m) ELSE {}
        fails == m.seen /\ ~m.complete /\ ~ends
    IN  /\ mp.stage \in {"reading", "read"}
        /\ mp.complete => rest = "none"
        /\ UNCHANGED <<conf, body>>
        /\ IF ends THEN process_boundary([m EXCEPT !.flags = @ \cup late, !.stage = "done"], TRUE)
           ELSE mp' = [m EXCEPT !.stage = "done"] /\ UNCHANGED <<parts, tmpFiles>>
        /\ told' = [set |-> TRUE, strict |-> Strict(m.flags \cup late),
                    flags |-> m.flags \cup late,
                    vars |-> IF fails THEN << >>
                             ELSE [i \in DOMAIN parts' |-> VariablesOfPart(parts'[i])],
                    reqbodyError |-> \/ m.error \/ fails
                                    \/ (NoFilesLimit # 0 /\ m.noFiles > NoFilesLimit)]

OfPart(f) == \E i \in DOMAIN parts : parts[i].file = f

(* The parser goes; the files of its parts are marked for deletion.  A part *)
(* that was not complete is not among them.                                *)
DeleteMultipart ==
    /\ mp.stage = "done"
    /\ mp' = [mp EXCEPT !.stage = "gone", !.mpp = NoPart]
    /\ tmpFiles' = IF conf.keep THEN tmpFiles
                   ELSE [f \in DOMAIN tmpFiles |->
                            [tmpFiles[f] EXCEPT !.delete = OfPart(f)]]
    /\ UNCHANGED <<conf, parts, body, told>>

(* The transaction goes, and its temporary files with it.                  *)
DeleteTmpFiles ==
    /\ mp.stage = "gone"
    /\ mp' = [mp EXCEPT !.stage = "over"]
    /\ tmpFiles' = [f \in DOMAIN tmpFiles |->
                       IF tmpFiles[f].delete
                         THEN [tmpFiles[f] EXCEPT !.open = FALSE, !.onDisk = FALSE]
                         ELSE tmpFiles[f]]
    /\ UNCHANGED <<conf, parts, body, told>>

NextMultipart ==
    \/ \E line \in BodyLines, fault \in {"none", "open", "write"} : process(line, fault)
    \/ DataAfter
    \/ \E rest \in Rests : multipart_complete(rest)
    \/ DeleteMultipart
    \/ DeleteTmpFiles

SpecMultipart == InitMultipart /\ [][NextMultipart]_multipartVars

-----------------------------------------------------------------------------
WithoutLastEnd(s) == IF s # << >> /\ s[Len(s)] \in Ends THEN SubSeq(s, 1, Len(s) - 1) ELSE s

(* The value of a form field is what stands between its headers and the    *)
(* next boundary, line ends included, but for the last one: the line end   *)
(* that is held back is neither lost nor given to another part.            *)
FormFieldsAreWhole ==
    \A i \in DOMAIN parts : parts[i].type = "form" => parts[i].value = WithoutLastEnd(parts[i].sent)

(* The same holds for what is written to a temporary file, whose size is   *)
(* the one FILES_SIZES tells; and a file that was cut by the limit on      *)
(* their number is told.                                                   *)
UploadsAreWhole ==
    \A i \in DOMAIN parts :
        parts[i].file # 0 =>
            \/ "file_limit_exceeded" \in mp.flags
            \/ /\ tmpFiles[parts[i].file].content = WithoutLastEnd(parts[i].sent)
               /\ (told.set /\ told.vars # << >>) =>
                      told.vars[i].size = Len(tmpFiles[parts[i].file].content)

(* A body without an error and without a strict error was understood: all  *)
(* the lines that begin with the boundary were taken for one, and every    *)
(* part but those of a Content-Type with an empty boundary was read to its *)
(* end.                                                                    *)
CleanBodiesAreUnderstood ==
    (told.set /\ ~told.reqbodyError /\ ~told.strict /\ conf.ct # "empty") =>
        /\ Len(parts) = body.boundaries
        /\ \A i \in DOMAIN parts : parts[i].headers # << >> /\ parts[i].sent # << >>

(* MULTIPART_STRICT_ERROR tells every flag that was raised, those raised   *)
(* while the final boundary was handled last included.                     *)
StrictErrorIsUpToDate == told.set => told.strict = Strict(mp.flags)

(* The temporary files are on disk while rules may look at them, and gone  *)
(* and closed when the transaction is over, unless they are kept, or the   *)
(* last part had no boundary after it.                                     *)
TemporaryFilesGo ==
    mp.stage = "over" /\ ~conf.keep =>
        \A f \in DOMAIN tmpFiles :
            (\E i \in DOMAIN parts : parts[i].file = f) => ~tmpFiles[f].open /\ ~tmpFiles[f].onDisk

(* What was sent in a part is what the rules see and what is on disk, for  *)
(* as long as the transaction lasts.                                       *)
PartsAreWhole == FormFieldsAreWhole /\ UploadsAreWhole /\ TemporaryFilesGo

(* A body that another parser may read differently is flagged as such, and *)
(* the rules see the flag.                                                 *)
DoubtsAreFlagged == StrictErrorIsUpToDate /\ CleanBodiesAreUnderstood
=============================================================================
