------------------------------ MODULE FsBuilder ------------------------------
(***************************************************************************)
(* fsbuilder turns the files of a list into the C arrays, prototypes,      *)
(* stubs and tokens of an embedded file system.  It is one sequential      *)
(* program: the command line; the list, a line at a time, with one scratch *)
(* structure for the options of every line; the contents, with one current *)
(* form for all files; then efslist, the switch of the C expressions and   *)
(* the warnings, each from what the passes before it have left.            *)
(*                                                                         *)
(* Names are sequences of character codes.  What a data array holds, and   *)
(* its length, are left out; so are names of NAMELENGTH characters or      *)
(* more, and attributes without quotes or with nothing between them.       *)
(*                                                                         *)
(* A file is read a block of readbuf at a time, and a tag is looked for in *)
(* the memory from its first byte on: one that runs over the end of its    *)
(* block is what the block's tag and the bytes behind readbuf, or left in  *)
(* it, make together, and the rest of it, in the next block, is no tag.    *)
(***************************************************************************)
EXTENDS Integers, Sequences, SequencesExt, FiniteSetsExt

CONSTANTS
    OUTPUTFILES,    \* entries of outputfiles
    Base,           \* of the numbers sprintf writes: 10
    MaxFiles,       \* bound on the lines of a list
    CommandLines,   \* argv, without the name of the list
    Lines,          \* lines a list may hold
    Contents,       \* what a file may hold
    READBUF,        \* sizeof(readbuf), in the units of a tag's len
    Behind,         \* what a tag cut off by the end of a block may be read as
    HdrFile, DataFile, CodeFile     \* the names of the output files, unless options change them

USCORE  == 95
Digit   == 48 .. 57
Upper   == 65 .. 90
Lower   == 97 .. 122
SUBMIT  == <<200>>      \* "submit", in any case
SCRIPT  == 201          \* "javascript"
WI_EFS_ == <<202>>      \* VARS_PREFIX

Name == Seq(Nat)
\* An option, or another word, whose second letter is no option's.
Word == [opt : {"", "a", "c", "o", "h", "g", "s", "f", "p", "e", "w"}, text : Name]
Line == [name : Name, args : Seq(Word)]
Tag  == [tag : {"form", "endform", "input", "ref", "other"},     \* "other": text
         name : Name,       \* of a form or control, "" if it has none
         value : Name,      \* a form's action, an input's type, the file a reference names
         len : Nat \ {0},
         whole : BOOLEAN]   \* whether it ends by itself: a tag with its '>' or quote, text whose end
                            \* begins no tag; if not, what it is read as depends on what is behind it

ASSUME LimitsAssumption == OUTPUTFILES \in Nat \ {0} /\ Base \in 2 .. 10 /\ MaxFiles \in 0 .. Base * Base - 1
ASSUME BlockAssumption == READBUF \in Nat \ {0} /\ Behind \subseteq Tag
ASSUME ListAssumption ==
    /\ Lines \subseteq Line /\ (\A l \in Lines : l.name # <<>>) /\ CommandLines \subseteq Seq(Word) /\ Contents \subseteq Seq(Tag)
    /\ {HdrFile, DataFile, CodeFile} \subseteq Name \ {<<>>}

VARIABLES
    pc,             \* the pass main is in, "done", or "exit" when it gives up
    def,            \* def_mask, def_datafile, def_hdrfile
    optionTmp,      \* the scratch option set, what is left to skip of the line, its being cut off
    fdlist,         \* the files: filename, opset, ccode's token, caname
    at,             \* the file a pass has reached
    formlist,       \* the forms, the oldest first
    currentform,    \* the place in formlist of the form being read; 0 if none
    references,     \* the names "location" and "href" have given
    outputfiles,    \* the output files, with what is written into each
    efslist,        \* the entries written into def_datafile
    warned,         \* the warnings printed
    lines, read     \* the inputs: the lines of the list, the contents of the data files

vars == <<pc, def, optionTmp, fdlist, at, formlist, currentform, references, outputfiles,
          efslist, warned, lines, read>>

----------------------------------------------------------------------------
(* Names *)

\* UPPERCASE: the file's number is left out.
maketoken(name) ==
    WI_EFS_ \o [i \in DOMAIN name |->
                   IF name[i] \in Lower THEN name[i] - 32
                   ELSE IF name[i] \in Upper \cup Digit THEN name[i] ELSE USCORE]

\* "%u", of a number below Base * Base.
Written(n) == IF n < Base THEN <<48 + n>> ELSE <<48 + (n \div Base), 48 + (n % Base)>>

\* Mutant: the number is left out.
mk_cnameMutant(name, n) ==
    [i \in DOMAIN name |-> IF name[i] \in 48 .. 122 THEN name[i] ELSE USCORE]

mk_cname(name, n) ==
    [i \in DOMAIN name |-> IF name[i] \in 48 .. 122 THEN name[i] ELSE USCORE] \o Written(n)

\* s without those of its elements that are in X.
Without(s, X) == FlattenSeq([i \in DOMAIN s |-> IF s[i] \in X THEN <<>> ELSE <<s[i]>>])

\* argcmp's result is 0: the name in the table begins with the one that is looked for.
argcmp(dest, src) == IsPrefix(src, dest)

----------------------------------------------------------------------------
(* The options *)

NON_BINARY_FILE == {"SSI", "PUSH", "CEXP", "FORM"}
Routines        == {"SSI", "PUSH", "FORM"}

MaskBit == [a |-> "AUTH", c |-> "CACHE", s |-> "SSI", p |-> "PUSH", f |-> "FORM", e |-> "CEXP",
            w |-> "NOWARN"]

opt_setbool(o, l) == [o EXCEPT !.opmask = @ \cup {MaskBit[l]}]

opt_setstring(o, l, parm) ==
    LET set == [o EXCEPT !.skip = 1]
    IN  CASE l = "o" -> [set EXCEPT !.datafile = parm]
          [] l = "h" -> [set EXCEPT !.hdrfile = parm]
          [] l = "g" -> set     \* optionTmp.codefile, which nothing reads

opt_makefunc(o, l, parm) == [opt_setbool(o, l) EXCEPT !.routine = parm, !.skip = 1]

\* argterm ends the line behind the expression.
opt_setcexp(o) == [opt_setbool(o, "e") EXCEPT !.ccode = TRUE, !.skip = 2, !.cut = TRUE]

CmdOptions  == {"a", "c", "o", "h", "g"}
FileOptions == {"a", "c", "o", "s", "f", "p", "g", "e", "w"}

\* The program ends at an option that is not allowed, and when the parameter is missing: opt_setstring
\* exits, the others read through NULL.
setoption(o, args, i, allowed) ==
    LET l    == args[i].opt
        bool == l \in {"a", "c", "w"}
    IN  IF l \notin allowed \/ (~bool /\ i = Len(args)) THEN [o EXCEPT !.failed = TRUE]
        ELSE CASE bool                   -> opt_setbool(o, l)
               [] l \in {"o", "h", "g"} -> opt_setstring(o, l, args[i + 1].text)
               [] l \in {"s", "f", "p"} -> opt_makefunc(o, l, args[i + 1].text)
               [] l = "e"               -> opt_setcexp(o)

TakeArg(o, args, i, allowed) ==
    IF o.failed \/ (o.cut /\ o.skip = 0) THEN o
    ELSE IF o.skip > 0 THEN [o EXCEPT !.skip = @ - 1]
    ELSE setoption(o, args, i, allowed)

TakeArgs(o, args, allowed) ==
    LET taken[i \in 0 .. Len(args)] ==
          IF i = 0 THEN o ELSE TakeArg(taken[i - 1], args, i, allowed)
    IN  taken[Len(args)]

parseargs(argv) ==
    LET o == TakeArgs([optionTmp EXCEPT !.opmask = {}, !.datafile = DataFile, !.hdrfile = HdrFile],
                      argv, CmdOptions)
    IN  /\ pc = "args"
        /\ def' = [mask |-> o.opmask, datafile |-> o.datafile, hdrfile |-> o.hdrfile]
        /\ pc' = IF o.failed THEN "exit" ELSE "list"
        /\ UNCHANGED <<optionTmp, fdlist, at, formlist, currentform, references, outputfiles,
                       efslist, warned, lines, read>>

\* Mutant: the data file is what the line before has left.
DefaultsMutant(o) ==
    [o EXCEPT !.datafile = IF @ = <<>> THEN def.datafile ELSE @, !.hdrfile = def.hdrfile, !.opmask = def.mask,
              !.routine = <<>>, !.ccode = FALSE, !.skip = 0, !.cut = FALSE]

Defaults(o) ==
    [o EXCEPT !.datafile = def.datafile, !.hdrfile = def.hdrfile, !.opmask = def.mask,
              !.routine = <<>>, !.ccode = FALSE, !.skip = 0, !.cut = FALSE]

FileData(line, o) ==
    [filename |-> line.name, caname |-> <<>>, ccode |-> o.ccode,
     opset |-> [opmask |-> o.opmask, datafile |-> o.datafile, routine |-> o.routine]]

\* main's loop over the list: one line that is neither blank nor a comment.
ReadLine(line) ==
    LET o == TakeArgs(Defaults(optionTmp), line.args, FileOptions)
    IN  /\ pc = "list" /\ Len(fdlist) < MaxFiles
        /\ lines' = Append(lines, line)
        /\ optionTmp' = o
        /\ fdlist' = Append(fdlist, FileData(line, o))
        /\ pc' = IF o.failed THEN "exit" ELSE "list"
        /\ UNCHANGED <<def, at, formlist, currentform, references, outputfiles, efslist, warned, read>>

----------------------------------------------------------------------------
(* The output files *)

\* output_file opens a file unless argcmp finds one; there is no room for a new one in a full table.
Matches(outs, name) == {i \in DOMAIN outs : argcmp(outs[i].name, name)}
NoRoom(outs, name)  == Matches(outs, name) = {} /\ Len(outs) = OUTPUTFILES
output_file(outs, name) ==
    IF Matches(outs, name) # {} THEN outs ELSE Append(outs, [name |-> name, text |-> <<>>])
Place(outs, name) == Min(Matches(outs, name))

Put(outs, name, items) == [outs EXCEPT ![Place(outs, name)].text = @ \o items]

\* What is written, about the file with a number; a routine's type, the values a stub asks for.
Item(item, name, n) == [item |-> item, name |-> name, of |-> n, type |-> "", asks |-> <<>>]
Typed(item, name, n, type) == [Item(item, name, n) EXCEPT !.type = type]

EndOfList ==
    /\ pc = "list"
    /\ outputfiles' = output_file(outputfiles, def.hdrfile)
    /\ pc' = "convert" /\ at' = 1
    /\ UNCHANGED <<def, optionTmp, fdlist, formlist, currentform, references, efslist, warned, lines, read>>

----------------------------------------------------------------------------
(* The contents *)

ref_lookup(refs, name) == \E r \in refs : IsPrefix(name, r)

newref(s, name) ==
    IF name = <<>> \/ ref_lookup(s.references, name) \/ name[1] = SCRIPT THEN s
    ELSE [s EXCEPT !.references = @ \cup {name}]

newform(s, t, nowarn) ==
    IF t.name = <<>> THEN [s EXCEPT !.currentform = 0]
    ELSE [s EXCEPT !.formlist = Append(@, [action |-> t.value, controls |-> <<>>,
                                           flags |-> IF nowarn THEN {"NOWARN"} ELSE {}]),
                   !.currentform = Len(s.formlist) + 1]

\* The newest control is the first of its form's.
NewControl(s, t) ==
    IF s.currentform = 0 THEN s
    ELSE IF t.value = <<>> THEN [s EXCEPT !.failed = TRUE]
    ELSE [s EXCEPT !.formlist[s.currentform].controls = <<t.name>> \o @]

\* Mutant: a form's end is not looked for.
TakeTagMutant(s, t, nowarn) ==
    IF s.failed THEN s
    ELSE CASE t.tag = "form"     -> newform(s, t, nowarn)
           [] t.tag = "input"    -> NewControl(s, t)
           [] t.tag = "ref"      -> newref(s, t.value)
           [] OTHER              -> s

TakeTag(s, t, nowarn) ==
    IF s.failed THEN s
    ELSE CASE t.tag = "form"     -> newform(s, t, nowarn)
           [] t.tag = "endform"  -> [s EXCEPT !.currentform = 0]
           [] t.tag = "input"    -> NewControl(s, t)
           [] t.tag = "ref"      -> newref(s, t.value)
           [] OTHER              -> s

TakeTags(s, content, nowarn) ==
    LET taken[i \in 0 .. Len(content)] ==
          IF i = 0 THEN s ELSE TakeTag(taken[i - 1], content[i], nowarn)
    IN  taken[Len(content)]

\* The tags that a block's end cuts off.
Cuts(content) ==
    LET from[i \in 1 .. Len(content) + 1] == IF i = 1 THEN 0 ELSE from[i - 1] + content[i - 1].len
    IN  {i \in DOMAIN content :
            \/ from[i] \div READBUF # (from[i + 1] - 1) \div READBUF
            \/ ~content[i].whole /\ (i = Len(content) \/ from[i + 1] % READBUF = 0)}

\* What they may be read as: with less or more in them, or missed; the end of a text, as any tag.
Fills(content) ==
    {fill \in [Cuts(content) -> Behind] :
        \A i \in Cuts(content) : content[i].tag = "other" \/ fill[i].tag \in {content[i].tag, "other"}}

Seen(content, fill) == [i \in DOMAIN content |-> IF i \in DOMAIN fill THEN fill[i] ELSE content[i]]

Binary(f) == f.opset.opmask \cap NON_BINARY_FILE = {}

GiveUp ==
    /\ pc = "convert" /\ at <= Len(fdlist)
    /\ NoRoom(outputfiles, fdlist[at].opset.datafile)
    /\ pc' = "exit"
    /\ UNCHANGED <<def, optionTmp, fdlist, at, formlist, currentform, references, outputfiles,
                   efslist, warned, lines, read>>

SkipFile ==
    /\ pc = "convert" /\ at <= Len(fdlist) /\ ~Binary(fdlist[at])
    /\ ~NoRoom(outputfiles, fdlist[at].opset.datafile)
    /\ outputfiles' = output_file(outputfiles, fdlist[at].opset.datafile)
    /\ at' = at + 1
    /\ read' = Append(read, <<>>)
    /\ UNCHANGED <<pc, def, optionTmp, fdlist, formlist, currentform, references, efslist, warned, lines>>

ConvertFile(content, fill) ==
    LET f     == fdlist[at]
        data  == f.opset.datafile
        cname == mk_cname(f.filename, at)
        outs  == output_file(outputfiles, data)
        s     == TakeTags([formlist |-> formlist, currentform |-> currentform,
                           references |-> references, failed |-> FALSE],
                          Seen(content, fill), "NOWARN" \in f.opset.opmask)
    IN  /\ pc = "convert" /\ at <= Len(fdlist) /\ Binary(fdlist[at])
        /\ ~NoRoom(outputfiles, data)
        /\ read' = Append(read, content)
        /\ fdlist' = [fdlist EXCEPT ![at].caname = cname]
        /\ formlist' = s.formlist /\ currentform' = s.currentform /\ references' = s.references
        /\ outputfiles' = Put(Put(outs, data, <<Item("array", cname, at)>>),
                              def.hdrfile, <<Item("extern", cname, at)>>)
        /\ pc' = IF s.failed THEN "exit" ELSE pc
        /\ at' = at + 1
        /\ UNCHANGED <<def, optionTmp, efslist, warned, lines>>

\* The pass over the files is over: the default files are opened.
OpenDefaults ==
    LET data == output_file(outputfiles, def.datafile)
        code == output_file(data, CodeFile)
        full == NoRoom(outputfiles, def.datafile) \/ NoRoom(data, CodeFile)
    IN  /\ pc = "convert" /\ at > Len(fdlist)
        /\ outputfiles' = IF full THEN outputfiles ELSE code
        /\ pc' = IF full THEN "exit" ELSE "efs"
        /\ at' = 1
        /\ UNCHANGED <<def, optionTmp, fdlist, formlist, currentform, references, efslist, warned, lines, read>>

----------------------------------------------------------------------------
(* efslist, the stubs and the tokens *)

Token(n) == maketoken(fdlist[n].filename)

\* efslist's entry for the file reached, linked to the next one.
Entry(array, routine, token) ==
    [link |-> IF at < Len(fdlist) THEN at + 1 ELSE 0, name |-> fdlist[at].filename,
     array |-> array, routine |-> routine, token |-> token,
     flags |-> fdlist[at].opset.opmask \ {"CACHE", "NOWARN"}]

AtFile == pc = "efs" /\ at <= Len(fdlist)

ArrayEntry ==
    /\ AtFile /\ Binary(fdlist[at])
    /\ efslist' = Append(efslist, Entry(fdlist[at].caname, <<>>, <<>>))
    /\ at' = at + 1
    /\ UNCHANGED <<pc, def, optionTmp, fdlist, formlist, currentform, references, outputfiles,
                   warned, lines, read>>

ExpressionEntry ==
    /\ AtFile /\ fdlist[at].opset.opmask \cap NON_BINARY_FILE = {"CEXP"}
    /\ efslist' = Append(efslist, Entry(<<>>, <<>>, Token(at)))
    /\ at' = at + 1
    /\ UNCHANGED <<pc, def, optionTmp, fdlist, formlist, currentform, references, outputfiles,
                   warned, lines, read>>

\* The newest form with this action; 0 if there is none.
FormOf(filename) == Max({0} \cup {k \in DOMAIN formlist : formlist[k].action = filename})

\* What a form's stub asks for.
Asks(k) == Without(formlist[k].controls, {<<>>, SUBMIT})

bldform(f) ==
    LET k    == FormOf(f.filename)
        stub == Typed("stub", f.opset.routine, at, "text")
    IN  IF k = 0
        THEN [stub |-> stub, forms |-> formlist,
              warn |-> ~ref_lookup(references, f.filename) /\ "NOWARN" \notin f.opset.opmask]
        ELSE [stub |-> [stub EXCEPT !.asks = Asks(k)], warn |-> FALSE,
              forms |-> [formlist EXCEPT ![k].flags = @ \cup {"CCODED"}]]

\* SSI and PUSH files, whose stub returns an int.
StubEntry ==
    LET f    == fdlist[at]
        type == IF "FORM" \in f.opset.opmask THEN "text" ELSE "int"
    IN  /\ AtFile /\ f.opset.opmask \cap {"SSI", "PUSH"} # {}
        /\ efslist' = Append(efslist, Entry(<<>>, f.opset.routine, <<>>))
        /\ outputfiles' = Put(Put(outputfiles, def.hdrfile, <<Typed("proto", f.opset.routine, at, type)>>),
                              CodeFile, <<Typed("stub", f.opset.routine, at, "int")>>)
        /\ at' = at + 1
        /\ UNCHANGED <<pc, def, optionTmp, fdlist, formlist, currentform, references, warned, lines, read>>

FormEntry ==
    LET f == fdlist[at]
        b == bldform(f)
    IN  /\ AtFile /\ f.opset.opmask \cap Routines = {"FORM"}
        /\ efslist' = Append(efslist, Entry(<<>>, f.opset.routine, <<>>))
        /\ outputfiles' = Put(Put(outputfiles, def.hdrfile, <<Typed("proto", f.opset.routine, at, "text")>>),
                              CodeFile, <<b.stub>>)
        /\ formlist' = b.forms
        /\ warned' = warned \cup (IF b.warn THEN {[warning |-> "unreffed", name |-> f.filename]} ELSE {})
        /\ at' = at + 1
        /\ UNCHANGED <<pc, def, optionTmp, fdlist, currentform, references, lines, read>>

\* The files with an expression, in the order of the list.
Coded == Without([n \in DOMAIN fdlist |-> n], {n \in DOMAIN fdlist : ~fdlist[n].ccode})

TokenItems(item) == [k \in DOMAIN Coded |-> Item(item, Token(Coded[k]), Coded[k])]

BuildSwitch ==
    /\ pc = "efs" /\ at > Len(fdlist)
    /\ outputfiles' = Put(Put(outputfiles, CodeFile, TokenItems("case")), def.hdrfile, TokenItems("define"))
    /\ pc' = "forms"
    /\ UNCHANGED <<def, optionTmp, fdlist, at, formlist, currentform, references, efslist, warned, lines, read>>

CheckForms ==
    LET listed == {fdlist[n].filename : n \in DOMAIN fdlist}
        missed == {k \in DOMAIN formlist : formlist[k].flags = {} /\ formlist[k].action \notin listed \cup {<<>>}}
    IN  /\ pc = "forms"
        /\ warned' = warned \cup {[warning |-> "no handler", name |-> formlist[k].action] : k \in missed}
        /\ pc' = "done"
        /\ UNCHANGED <<def, optionTmp, fdlist, at, formlist, currentform, references, outputfiles,
                       efslist, lines, read>>

Init ==
    /\ pc = "args" /\ at = 0 /\ currentform = 0
    /\ def = [mask |-> {}, datafile |-> DataFile, hdrfile |-> HdrFile]
    /\ optionTmp = [opmask |-> {}, datafile |-> <<>>, hdrfile |-> <<>>, routine |-> <<>>,
                    ccode |-> FALSE, skip |-> 0, cut |-> FALSE, failed |-> FALSE]
    /\ fdlist = <<>> /\ formlist = <<>> /\ references = {} /\ outputfiles = <<>> /\ efslist = <<>>
    /\ warned = {} /\ lines = <<>> /\ read = <<>>

Next ==
    \/ \E argv \in CommandLines : parseargs(argv)
    \/ \E line \in Lines : ReadLine(line)
    \/ EndOfList \/ GiveUp \/ SkipFile
    \/ \E content \in Contents : \E fill \in Fills(content) : ConvertFile(content, fill)
    \/ OpenDefaults
    \/ ArrayEntry \/ ExpressionEntry \/ StubEntry \/ FormEntry
    \/ BuildSwitch \/ CheckForms

Spec == Init /\ [][Next]_vars

----------------------------------------------------------------------------
(* Properties *)

\* The items of a kind in all output files, with where they are.
Items(item) == {w \in UNION {{<<o, k>> : k \in DOMAIN outputfiles[o].text} : o \in DOMAIN outputfiles} :
                      outputfiles[w[1]].text[w[2]].item = item}
At(w) == outputfiles[w[1]].text[w[2]]

\* There is one item of the kind with this name, and it is this one's file's.
Once(item, name, n) ==
    LET those == {w \in Items(item) : At(w).name = name}
    IN  Cardinality(those) = 1 /\ \A w \in those : At(w).of = n

\* One stub and one prototype of the same type.
Typeset(name) == {At(w).type : w \in {v \in Items("proto") \cup Items("stub") : At(v).name = name}}

Routed(n)   == fdlist[n].opset.opmask \cap Routines
Alone(n, S) == \A m \in S \ {n} : fdlist[m].opset.routine # fdlist[n].opset.routine
Files       == DOMAIN fdlist

\* The image compiles and links: every array and routine that efslist names is declared in the
\* header and defined, once; every token is a number that selects its own file's expression.
\* That takes distinct names where fsbuilder does not make them so: arrays, names whose ends
\* cannot be taken for the number behind them; routines, one line each, of one kind; tokens, names
\* that differ in more than case and punctuation.
ImageLinks ==
    pc = "done" =>
        \A n \in Files :
            LET e == efslist[n]
            IN  /\ (e.array # <<>> /\ \A m \in Files : Last(fdlist[m].filename) \notin Digit)
                     => Once("array", e.array, n) /\ Once("extern", e.array, n)
                /\ (e.routine # <<>> /\ Cardinality(Routed(n)) = 1 /\ Alone(n, {m \in Files : Routed(m) # {}}))
                     => /\ Once("proto", e.routine, n) /\ Once("stub", e.routine, n)
                        /\ Cardinality(Typeset(e.routine)) = 1
                /\ (e.token # <<>> /\ \A m \in Files \ {n} : fdlist[m].ccode => Token(m) # Token(n))
                     => Once("define", e.token, n) /\ Once("case", e.token, n)

Parameters(l) == CASE l \in {"o", "g", "s", "f", "p"} -> 1 [] l = "e" -> 2 [] OTHER -> 0

\* The words that are options: all that no option before them takes as its parameter.
Options(args) ==
    CHOOSE shown \in SUBSET DOMAIN args :
        \A i \in DOMAIN args :
            i \in shown <=> ~\E j \in shown : j < i /\ i <= j + Parameters(args[j].opt)

\* Those a line has are the ones before an expression, and the expression.
OptionWords(args) == {j \in Options(args) : \A k \in Options(args) : args[k].opt = "e" => j <= k}

\* The bits a line's options set, and the word the last of some of them asks for.
LineBits(args) == {MaskBit[args[i].opt] : i \in {j \in OptionWords(args) : args[j].opt \notin {"o", "g"}}}
Asked(args, letters, without) ==
    LET those == {j \in OptionWords(args) : args[j].opt \in letters}
    IN  IF those = {} THEN without ELSE args[Max(those) + 1].text

\* One scratch structure serves all lines, and one loop skips what options have used: still each
\* file's entry is that of its own line and of the command line, in the order of the list, and
\* links to the next: its flags are those of the line's options and the command line's, its
\* routine the line's last -s, -f or -p, if any, and its array is in the file of the line's last -o,
\* or the command line's, unless that name begins another output file's.
EntriesOfTheirLines ==
    pc = "done" =>
        /\ Len(efslist) = Len(lines)
        /\ \A n \in DOMAIN lines :
            LET e    == efslist[n]
                args == lines[n].args
                data == Asked(args, {"o"}, def.datafile)
            IN  /\ e.name = lines[n].name
                /\ e.link = IF n < Len(lines) THEN n + 1 ELSE 0
                /\ e.flags = (def.mask \cup LineBits(args)) \ {"CACHE", "NOWARN"}
                /\ e.routine = Asked(args, {"s", "f", "p"}, <<>>)
                /\ \A w \in Items("array") :
                      At(w).of = n => LET file == outputfiles[w[1]].name
                                      IN  file = data \/ IsStrictPrefix(data, file)

\* Where the forms of a content end and begin.
Bounds(content) == {i \in DOMAIN content : content[i].tag \in {"form", "endform"}}
FormTags(content) == {i \in Bounds(content) : content[i].tag = "form" /\ content[i].name # <<>>}
\* Each form is ended before the next begins, and before the file ends.
Closed(content) ==
    \A i \in {k \in Bounds(content) : content[k].tag = "form"} :
        \E j \in Bounds(content) : j > i /\ content[j].tag = "endform" /\ \A k \in Bounds(content) : k <= i \/ k >= j
\* The named controls, from a form's tag to its end, the last one first.
Inside(content, i) ==
    LET end == Min({k \in Bounds(content) : k > i})
        back(k) == content[end - k]
        names == FlattenSeq([k \in 1 .. end - i - 1 |-> IF back(k).tag = "input" THEN <<back(k).name>> ELSE <<>>])
    IN  Without(names, {<<>>, SUBMIT})

\* Every tag of a form in what has been read, with the file it is in.
FormsRead == UNION {{<<n, i>> : i \in FormTags(read[n])} : n \in DOMAIN read}
ActionOf(w) == read[w[1]][w[2]].value
Quiet(n)    == "NOWARN" \in fdlist[n].opset.opmask
Later(w, v) == w[1] > v[1] \/ (w[1] = v[1] /\ w[2] >= v[2])

\* A form meets its handler by name over two passes: the stub asks for the controls of the last
\* form with that action, as long as pages end their forms; and a warning is printed for
\* exactly the actions nobody handles and the handlers nothing names.  That is so of pages none
\* of whose tags is cut off by the end of a block, as pages shorter than readbuf that end their
\* last tag are; of a longer one the code promises nothing.
FormsMeetHandlers ==
    pc = "done" /\ (\A n \in DOMAIN read : Cuts(read[n]) = {}) =>
        LET listed == {lines[n].name : n \in DOMAIN lines}
            named  == {ActionOf(w) : w \in FormsRead} \ {<<>>}
            refs   == UNION {{read[n][i].value : i \in {k \in DOMAIN read[n] : read[n][k].tag = "ref"}} : n \in DOMAIN read}
        IN  /\ (\A n \in DOMAIN read : Closed(read[n])) =>
                  \A w \in Items("stub"), v \in FormsRead :
                      (/\ Routed(At(w).of) = {"FORM"} /\ ActionOf(v) = fdlist[At(w).of].filename
                       /\ \A u \in FormsRead : ActionOf(u) = ActionOf(v) => Later(v, u))
                      => At(w).asks = Inside(read[v[1]], v[2])
            /\ {u.name : u \in {t \in warned : t.warning = "no handler"}} =
                  {a \in named \ listed : \E w \in FormsRead : ActionOf(w) = a /\ ~Quiet(w[1])}
            /\ {u.name : u \in {t \in warned : t.warning = "unreffed"}} =
                  {fdlist[n].filename : n \in {m \in Files :
                      /\ Routed(m) = {"FORM"} /\ ~Quiet(m) /\ fdlist[m].filename \notin named
                      /\ ~\E r \in refs : r[1] # SCRIPT /\ IsPrefix(fdlist[m].filename, r)}}
=============================================================================
