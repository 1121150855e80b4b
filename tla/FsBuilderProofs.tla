--------------------------- MODULE FsBuilderProofs ---------------------------
(***************************************************************************)
(* fsbuilder for every list, command line and contents, and every size of  *)
(* its tables: what each pass leaves to the next, down to the arrays,      *)
(* stubs and tokens of the image, and the warnings.                        *)
(***************************************************************************)
EXTENDS FsBuilder, SequenceLemmas, FiniteSetTheorems

----------------------------------------------------------------------------
(* What the passes leave to each other *)

Bits      == {"AUTH", "CACHE", "SSI", "PUSH", "FORM", "CEXP", "NOWARN"}
Kinds     == {"array", "extern", "proto", "stub", "define", "case"}
OptionSet == [opmask : SUBSET Bits, datafile : Name, hdrfile : Name, routine : Name,
              ccode : BOOLEAN, skip : Nat, cut : BOOLEAN, failed : BOOLEAN]
FileRec   == [filename : Name \ {<<>>}, caname : Name, ccode : BOOLEAN,
              opset : [opmask : SUBSET Bits, datafile : Name, routine : Name]]
FormRec   == [action : Name, controls : Seq(Name), flags : SUBSET {"NOWARN", "CCODED"}]
ItemRec   == [item : Kinds, name : Name, of : Nat, type : {"", "int", "text"}, asks : Seq(Name)]
OutRec    == [name : Name, text : Seq(ItemRec)]
EntryRec  == [link : Nat, name : Name, array : Name, routine : Name, token : Name, flags : SUBSET Bits]

Types ==
    /\ pc \in {"args", "list", "convert", "efs", "forms", "done", "exit"}
    /\ def \in [mask : SUBSET Bits, datafile : Name, hdrfile : Name]
    /\ optionTmp \in OptionSet
    /\ fdlist \in Seq(FileRec) /\ Len(fdlist) <= MaxFiles
    /\ lines \in Seq(Line) /\ Len(lines) = Len(fdlist)
    /\ at \in Nat
    /\ formlist \in Seq(FormRec) /\ currentform \in 0 .. Len(formlist) /\ references \in SUBSET Name
    /\ outputfiles \in Seq(OutRec)
    /\ efslist \in Seq(EntryRec)
    /\ warned \in SUBSET [warning : {"unreffed", "no handler"}, name : Name]
    /\ read \in Seq(Seq(Tag))

Listing == pc \in {"efs", "forms", "done"}

\* How far the pass over the contents has come, and the one that writes efslist.
ConvertedTo == IF pc = "convert" THEN at - 1 ELSE IF Listing THEN Len(fdlist) ELSE 0
ListedTo    == IF pc = "efs" THEN at - 1 ELSE IF pc \in {"forms", "done"} THEN Len(fdlist) ELSE 0

\* What a pass has not come to yet is empty.
Passes ==
    /\ pc \in {"args", "list"} => /\ outputfiles = <<>>
                                  /\ formlist = <<>> /\ currentform = 0 /\ references = {}
    /\ pc = "args" => fdlist = <<>>
    /\ pc \in {"convert", "efs"} => at \in 1 .. Len(fdlist) + 1
    /\ Len(read) = ConvertedTo /\ Len(efslist) = ListedTo
    /\ ~Listing => warned = {}
    /\ ~optionTmp.failed

\* Only a line of the list sets an expression, and a line that sets one has its code.
Expressions ==
    /\ def.mask \subseteq {"AUTH", "CACHE"}
    /\ \A n \in DOMAIN fdlist : /\ fdlist[n].filename = lines[n].name
                                /\ fdlist[n].ccode <=> "CEXP" \in fdlist[n].opset.opmask
    /\ \A n \in DOMAIN fdlist : n <= ConvertedTo /\ Binary(fdlist[n]) => fdlist[n].caname = mk_cname(fdlist[n].filename, n)

\* The entry of a file, once it is written.
EntryFor(n) ==
    [link |-> IF n < Len(fdlist) THEN n + 1 ELSE 0, name |-> fdlist[n].filename,
     array |-> IF Binary(fdlist[n]) THEN fdlist[n].caname ELSE <<>>,
     routine |-> IF Routed(n) # {} THEN fdlist[n].opset.routine ELSE <<>>,
     token |-> IF fdlist[n].opset.opmask \cap NON_BINARY_FILE = {"CEXP"} THEN Token(n) ELSE <<>>,
     flags |-> fdlist[n].opset.opmask \ {"CACHE", "NOWARN"}]

Entries == \A n \in 1 .. ListedTo : efslist[n] = EntryFor(n)

\* The files that are written to later are open.
Opened ==
    /\ pc \notin {"args", "list"} => Matches(outputfiles, def.hdrfile) # {}
    /\ Listing => Matches(outputfiles, CodeFile) # {}

\* The items of a kind in outs are these, and no two are about one file.
ItemAt(outs, w) == outs[w[1]].text[w[2]]
ItemsIn(outs, kind) ==
    {w \in UNION {{<<o, k>> : k \in DOMAIN outs[o].text} : o \in DOMAIN outs} : ItemAt(outs, w).item = kind}
Recorded(outs, kind, R) ==
    /\ {ItemAt(outs, w) : w \in ItemsIn(outs, kind)} = R
    /\ \A w, v \in ItemsIn(outs, kind) : ItemAt(outs, w).of = ItemAt(outs, v).of => w = v

\* What is written about the files that a pass has seen.
ArrayItems(kind) ==
    {Item(kind, fdlist[n].caname, n) : n \in {m \in DOMAIN fdlist : m <= ConvertedTo /\ Binary(fdlist[m])}}

ProtoOf(n) == Typed("proto", fdlist[n].opset.routine, n, IF "FORM" \in fdlist[n].opset.opmask THEN "text" ELSE "int")
StubOf(n) ==
    LET k == FormOf(fdlist[n].filename)
    IN  IF Routed(n) # {"FORM"} THEN Typed("stub", fdlist[n].opset.routine, n, "int")
        ELSE IF k = 0 THEN Typed("stub", fdlist[n].opset.routine, n, "text")
        ELSE [Typed("stub", fdlist[n].opset.routine, n, "text") EXCEPT !.asks = Asks(k)]
Handlers   == {n \in DOMAIN fdlist : n <= ListedTo /\ Routed(n) # {}}
ProtoItems == {ProtoOf(n) : n \in Handlers}
StubItems  == {StubOf(n) : n \in Handlers}

CodeItems(kind) ==
    {Item(kind, Token(n), n) : n \in {m \in DOMAIN fdlist : pc \in {"forms", "done"} /\ fdlist[m].ccode}}

Output ==
    pc \notin {"args", "list"} =>
        /\ Recorded(outputfiles, "array", ArrayItems("array"))
        /\ Recorded(outputfiles, "extern", ArrayItems("extern"))
        /\ Recorded(outputfiles, "proto", ProtoItems)
        /\ Recorded(outputfiles, "stub", StubItems)
        /\ Recorded(outputfiles, "define", CodeItems("define"))
        /\ Recorded(outputfiles, "case", CodeItems("case"))

ImageInv == Types /\ (pc # "exit" => Passes /\ Expressions /\ Entries /\ Opened /\ Output)

----------------------------------------------------------------------------
(* The loops over words and tags *)

\* A function on 0 .. n is given by its first value and how each follows from the one before.
Runs(base, F, k, g) == g[0] = base /\ \A i \in 1 .. k : g[i] = F[<<g[i - 1], i>>]

LEMMA Recursion ==
    ASSUME NEW S, NEW n \in Nat, NEW base \in S, NEW F \in [S \X (1 .. n) -> S]
    PROVE  \E f \in [0 .. n -> S] : Runs(base, F, n, f)
<1> DEFINE G == {k \in 0 .. n : \E g \in [0 .. k -> S] : Runs(base, F, k, g)}
<1>1. 0 \in G
  <2>1. [i \in 0 .. 0 |-> base] \in [0 .. 0 -> S] /\ Runs(base, F, 0, [i \in 0 .. 0 |-> base])
    BY DEF Runs
  <2>2. 0 \in 0 .. n
    OBVIOUS
  <2>3. QED
    BY <2>1, <2>2
<1>2. ASSUME NEW k \in 1 .. n, k - 1 \in G
      PROVE  k \in G
  <2>1. PICK g \in [0 .. k - 1 -> S] : Runs(base, F, k - 1, g)
    BY <1>2
  <2>2. k \in Nat /\ k - 1 \in 0 .. k - 1 /\ k \in 0 .. n /\ 0 \in 0 .. k - 1
    OBVIOUS
  <2>3. PICK x : x = F[<<g[k - 1], k>>]
    OBVIOUS
  <2>4. x \in S
    <3>1. g[k - 1] \in S
      BY <2>2
    <3>2. QED
      BY <2>3, <3>1
  <2>5. PICK h : h = [i \in 0 .. k |-> IF i = k THEN x ELSE g[i]]
    OBVIOUS
  <2>6. \A i \in 0 .. k : h[i] = IF i = k THEN x ELSE g[i]
    BY <2>5
  <2>7. h \in [0 .. k -> S]
    <3>1. \A i \in 0 .. k : i # k => i \in 0 .. k - 1
      BY <2>2
    <3>2. \A i \in 0 .. k : h[i] \in S
      BY <2>4, <2>6, <3>1
    <3>3. QED
      BY <2>5, <3>2
  <2>8. Runs(base, F, k, h)
    <3>1. h[0] = base
      BY <2>1, <2>2, <2>6 DEF Runs
    <3>2. ASSUME NEW i \in 1 .. k
          PROVE  h[i] = F[<<h[i - 1], i>>]
      <4>1. i - 1 \in 0 .. k /\ i - 1 # k /\ i \in 0 .. k /\ (i # k => i \in 1 .. k - 1)
        BY <2>2
      <4>2. h[i - 1] = g[i - 1]
        BY <2>6, <4>1
      <4>3. i = k => h[i] = F[<<g[i - 1], i>>]
        BY <2>3, <2>6, <4>1
      <4>4. i # k => h[i] = F[<<g[i - 1], i>>]
        BY <2>1, <2>6, <4>1 DEF Runs
      <4>5. QED
        BY <4>2, <4>3, <4>4
    <3>3. QED
      BY <3>1, <3>2 DEF Runs
  <2>9. QED
    BY <2>2, <2>7, <2>8
<1>3. n \in G
  <2> HIDE DEF G
  <2>1. \A k \in 0 .. n : k \in G
    BY <1>1, <1>2, Upwards
  <2>2. QED
    BY <2>1
<1>4. QED
  BY <1>3

\* Words that keep the scratch structure in S, and the values it has in turn.
ArgsKeep(S, args, allowed) == \A x \in S, i \in 1 .. Len(args) : TakeArg(x, args, i, allowed) \in S
ArgStates(S, o, args, allowed, f) ==
    /\ f \in [0 .. Len(args) -> S] /\ f[0] = o /\ TakeArgs(o, args, allowed) = f[Len(args)]
    /\ \A i \in 1 .. Len(args) : f[i] = TakeArg(f[i - 1], args, i, allowed)

LEMMA Taken ==
    ASSUME NEW allowed, NEW S, NEW args \in Seq(Word), NEW o \in S, ArgsKeep(S, args, allowed)
    PROVE  \E f : ArgStates(S, o, args, allowed, f)
<1> DEFINE n == Len(args)
           F == [x \in S \X (1 .. n) |-> TakeArg(x[1], args, x[2], allowed)]
           Same(f) == f = [i \in 0 .. n |-> IF i = 0 THEN o ELSE TakeArg(f[i - 1], args, i, allowed)]
<1>1. n \in Nat
  OBVIOUS
<1>2. F \in [S \X (1 .. n) -> S]
  BY DEF ArgsKeep
<1>3. \A x \in S, i \in 1 .. n : F[<<x, i>>] = TakeArg(x, args, i, allowed)
  OBVIOUS
<1>4. PICK f \in [0 .. n -> S] : Runs(o, F, n, f)
  <2> HIDE DEF F, n
  <2>1. QED
    BY <1>1, <1>2, Recursion
<1>5. \A i \in 1 .. n : i - 1 \in 0 .. n /\ f[i - 1] \in S /\ f[i] = TakeArg(f[i - 1], args, i, allowed)
  <2>1. \A i \in 1 .. n : i - 1 \in 0 .. n
    BY <1>1
  <2> HIDE DEF F, n
  <2>2. QED
    BY <1>3, <1>4, <2>1 DEF Runs
<1>6. f[0] = o
  <2> HIDE DEF F, n
  <2>1. QED
    BY <1>4 DEF Runs
<1>7. Same(f)
  <2> HIDE DEF F
  <2>1. \A i \in 0 .. n : f[i] = IF i = 0 THEN o ELSE TakeArg(f[i - 1], args, i, allowed)
    BY <1>5, <1>6
  <2>2. QED
    BY <2>1
<1>8. ASSUME NEW g, Same(g)
      PROVE  g[n] = f[n]
  <2> DEFINE G == {k \in 0 .. n : g[k] = f[k]}
  <2>1. \A i \in 0 .. n : g[i] = IF i = 0 THEN o ELSE TakeArg(g[i - 1], args, i, allowed)
    BY <1>8
  <2>2. 0 \in G
    BY <1>1, <1>6, <2>1
  <2>3. \A k \in 1 .. n : k - 1 \in G => k \in G
    <3> TAKE k \in 1 .. n
    <3> HAVE k - 1 \in G
    <3>1. g[k - 1] = f[k - 1] /\ k \in 0 .. n /\ k # 0
      BY <1>1
    <3>2. g[k] = TakeArg(g[k - 1], args, k, allowed)
      BY <2>1, <3>1
    <3>3. QED
      BY <1>5, <3>1, <3>2
  <2> HIDE DEF G, Same, F, n
  <2>4. \A k \in 0 .. n : k \in G
    BY <1>1, <2>2, <2>3, Upwards
  <2>5. QED
    BY <1>1, <2>4 DEF G
<1>9. TakeArgs(o, args, allowed) = (CHOOSE g : Same(g))[n]
  BY Zenon DEF TakeArgs
<1> HIDE DEF Same, F, n
<1>10. Same(CHOOSE g : Same(g))
  BY <1>7, Zenon
<1>11. TakeArgs(o, args, allowed) = f[n]
  BY <1>8, <1>9, <1>10
<1> USE DEF n
<1>12. QED
  BY <1>4, <1>5, <1>6, <1>11 DEF ArgStates

TagState == [formlist : Seq(FormRec), currentform : Nat, references : SUBSET Name, failed : BOOLEAN]

TagsKeep(S, content, nowarn) == \A x \in S, i \in 1 .. Len(content) : TakeTag(x, content[i], nowarn) \in S
TagRun(S, s, content, nowarn, f) ==
    /\ f \in [0 .. Len(content) -> S] /\ f[0] = s /\ TakeTags(s, content, nowarn) = f[Len(content)]
    /\ \A i \in 1 .. Len(content) : f[i] = TakeTag(f[i - 1], content[i], nowarn)

LEMMA TagsTaken ==
    ASSUME NEW nowarn, NEW S, NEW content \in Seq(Tag), NEW s \in S, TagsKeep(S, content, nowarn)
    PROVE  \E f : TagRun(S, s, content, nowarn, f)
<1> DEFINE n == Len(content)
           F == [x \in S \X (1 .. n) |-> TakeTag(x[1], content[x[2]], nowarn)]
           Same(f) == f = [i \in 0 .. n |-> IF i = 0 THEN s ELSE TakeTag(f[i - 1], content[i], nowarn)]
<1>1. n \in Nat
  OBVIOUS
<1>2. F \in [S \X (1 .. n) -> S]
  BY DEF TagsKeep
<1>3. \A x \in S, i \in 1 .. n : F[<<x, i>>] = TakeTag(x, content[i], nowarn)
  OBVIOUS
<1>4. PICK f \in [0 .. n -> S] : Runs(s, F, n, f)
  <2> HIDE DEF F, n
  <2>1. QED
    BY <1>1, <1>2, Recursion
<1>5. \A i \in 1 .. n : i - 1 \in 0 .. n /\ f[i - 1] \in S /\ f[i] = TakeTag(f[i - 1], content[i], nowarn)
  <2>1. \A i \in 1 .. n : i - 1 \in 0 .. n
    BY <1>1
  <2> HIDE DEF F, n
  <2>2. QED
    BY <1>3, <1>4, <2>1 DEF Runs
<1>6. f[0] = s
  <2> HIDE DEF F, n
  <2>1. QED
    BY <1>4 DEF Runs
<1>7. Same(f)
  <2> HIDE DEF F
  <2>1. \A i \in 0 .. n : f[i] = IF i = 0 THEN s ELSE TakeTag(f[i - 1], content[i], nowarn)
    BY <1>5, <1>6
  <2>2. QED
    BY <2>1
<1>8. ASSUME NEW g, Same(g)
      PROVE  g[n] = f[n]
  <2> DEFINE G == {k \in 0 .. n : g[k] = f[k]}
  <2>1. \A i \in 0 .. n : g[i] = IF i = 0 THEN s ELSE TakeTag(g[i - 1], content[i], nowarn)
    BY <1>8
  <2>2. 0 \in G
    BY <1>1, <1>6, <2>1
  <2>3. \A k \in 1 .. n : k - 1 \in G => k \in G
    <3> TAKE k \in 1 .. n
    <3> HAVE k - 1 \in G
    <3>1. g[k - 1] = f[k - 1] /\ k \in 0 .. n /\ k # 0
      BY <1>1
    <3>2. g[k] = TakeTag(g[k - 1], content[k], nowarn)
      BY <2>1, <3>1
    <3>3. QED
      BY <1>5, <3>1, <3>2
  <2> HIDE DEF G, Same, F, n
  <2>4. \A k \in 0 .. n : k \in G
    BY <1>1, <2>2, <2>3, Upwards
  <2>5. QED
    BY <1>1, <2>4 DEF G
<1>9. TakeTags(s, content, nowarn) = (CHOOSE g : Same(g))[n]
  BY Zenon DEF TakeTags
<1> HIDE DEF Same, F, n
<1>10. Same(CHOOSE g : Same(g))
  BY <1>7, Zenon
<1>11. TakeTags(s, content, nowarn) = f[n]
  BY <1>8, <1>9, <1>10
<1> USE DEF n
<1>12. QED
  BY <1>4, <1>5, <1>6, <1>11 DEF TagRun

----------------------------------------------------------------------------
(* Names and options *)

LEMMA WrittenName ==
    ASSUME NEW n \in Nat
    PROVE  Written(n) \in Name
<1>1. Base \in Nat \ {0}
  BY LimitsAssumption
<1>2. n \div Base \in Nat /\ n % Base \in Nat
  BY <1>1
<1>3. QED
  BY <1>1, <1>2 DEF Written, Name

LEMMA MadeNames ==
    ASSUME NEW name \in Name, NEW n \in Nat
    PROVE  mk_cname(name, n) \in Name /\ maketoken(name) \in Name /\ maketoken(name) # <<>>
<1>1. Written(n) \in Seq(Nat)
  BY WrittenName DEF Name
<1>2. PICK m \in Nat : DOMAIN name = 1 .. m /\ name \in [1 .. m -> Nat]
  BY DEF Name
<1>3. [i \in DOMAIN name |-> IF name[i] \in 48 .. 122 THEN name[i] ELSE USCORE] \in Seq(Nat)
  BY <1>2 DEF USCORE
<1>4. [i \in DOMAIN name |-> IF name[i] \in Lower THEN name[i] - 32
                   ELSE IF name[i] \in Upper \cup Digit THEN name[i] ELSE USCORE] \in Seq(Nat)
  <2>1. \A k \in Lower : k - 32 \in Nat
    BY DEF Lower
  <2>2. QED
    BY <1>2, <2>1 DEF USCORE
<1>5. WI_EFS_ \in Seq(Nat) /\ Len(WI_EFS_) = 1
  BY DEF WI_EFS_
<1>6. mk_cname(name, n) \in Name
  BY <1>1, <1>3 DEF mk_cname, Name
<1>7. PICK u \in Seq(Nat) : maketoken(name) = WI_EFS_ \o u
  BY <1>4 DEF maketoken
<1>8. maketoken(name) \in Seq(Nat) /\ Len(maketoken(name)) = 1 + Len(u)
  <2>1. PICK p \in Seq(Nat) : p = WI_EFS_ /\ Len(p) = 1
    BY <1>5
  <2>2. p \o u \in Seq(Nat) /\ Len(p \o u) = Len(p) + Len(u)
    BY ConcatProperties
  <2>3. QED
    BY <1>7, <2>1, <2>2
<1>9. QED
  BY <1>6, <1>8 DEF Name

Letters == {"a", "c", "o", "h", "g", "s", "f", "p", "e", "w"}

LEMMA Allowed == CmdOptions \subseteq Letters /\ FileOptions \subseteq Letters
BY DEF CmdOptions, FileOptions, Letters

LEMMA MaskBits ==
    /\ MaskBit["a"] = "AUTH" /\ MaskBit["c"] = "CACHE" /\ MaskBit["s"] = "SSI" /\ MaskBit["p"] = "PUSH"
    /\ MaskBit["f"] = "FORM" /\ MaskBit["e"] = "CEXP" /\ MaskBit["w"] = "NOWARN"
BY DEF MaskBit

\* Options' updates of the scratch structure.
Updated(o, y, m, k, c) ==
    y \in OptionSet /\ y.opmask = m /\ y.skip = k /\ y.cut = c /\ y.failed = o.failed /\ y.ccode = (o.ccode \/ (c /\ ~o.cut))

LEMMA OptionUpdates ==
    ASSUME NEW o \in OptionSet, NEW p \in Name, NEW b \in Bits
    PROVE  /\ [o EXCEPT !.failed = TRUE] \in OptionSet /\ [o EXCEPT !.failed = TRUE].failed
           /\ o.skip > 0 => Updated(o, [o EXCEPT !.skip = @ - 1], o.opmask, o.skip - 1, o.cut)
           /\ Updated(o, [o EXCEPT !.opmask = @ \cup {b}], o.opmask \cup {b}, o.skip, o.cut)
           /\ Updated(o, [o EXCEPT !.skip = 1, !.datafile = p], o.opmask, 1, o.cut)
           /\ Updated(o, [o EXCEPT !.skip = 1, !.hdrfile = p], o.opmask, 1, o.cut)
           /\ Updated(o, [o EXCEPT !.skip = 1], o.opmask, 1, o.cut)
           /\ Updated(o, [o EXCEPT !.opmask = @ \cup {b}, !.routine = p, !.skip = 1], o.opmask \cup {b}, 1, o.cut)
           /\ ~o.cut => Updated(o, [o EXCEPT !.opmask = @ \cup {b}, !.ccode = TRUE, !.skip = 2, !.cut = TRUE],
                                o.opmask \cup {b}, 2, TRUE)
<1> /\ o.opmask \in SUBSET Bits /\ o.datafile \in Name /\ o.hdrfile \in Name /\ o.routine \in Name
    /\ o.ccode \in BOOLEAN /\ o.skip \in Nat /\ o.cut \in BOOLEAN /\ o.failed \in BOOLEAN
  BY DEF OptionSet
<1>1. o.opmask \cup {b} \in SUBSET Bits
  OBVIOUS
<1>2. [o EXCEPT !.failed = TRUE] \in OptionSet /\ [o EXCEPT !.failed = TRUE].failed
  BY DEF OptionSet
<1>3. o.skip > 0 => Updated(o, [o EXCEPT !.skip = @ - 1], o.opmask, o.skip - 1, o.cut)
  BY DEF OptionSet, Updated
<1>4. Updated(o, [o EXCEPT !.opmask = @ \cup {b}], o.opmask \cup {b}, o.skip, o.cut)
  BY <1>1 DEF OptionSet, Updated
<1>5. Updated(o, [o EXCEPT !.skip = 1, !.datafile = p], o.opmask, 1, o.cut)
  BY DEF OptionSet, Updated
<1>6. Updated(o, [o EXCEPT !.skip = 1, !.hdrfile = p], o.opmask, 1, o.cut)
  BY DEF OptionSet, Updated
<1>7. Updated(o, [o EXCEPT !.skip = 1], o.opmask, 1, o.cut)
  BY DEF OptionSet, Updated
<1>8. Updated(o, [o EXCEPT !.opmask = @ \cup {b}, !.routine = p, !.skip = 1], o.opmask \cup {b}, 1, o.cut)
  BY <1>1 DEF OptionSet, Updated
<1>9. ~o.cut => Updated(o, [o EXCEPT !.opmask = @ \cup {b}, !.ccode = TRUE, !.skip = 2, !.cut = TRUE],
                                o.opmask \cup {b}, 2, TRUE)
  BY <1>1 DEF OptionSet, Updated
<1>10. QED
  BY <1>2, <1>3, <1>4, <1>5, <1>6, <1>7, <1>8, <1>9

Used(l) == IF l \in {"a", "c", "w"} THEN 0 ELSE IF l = "e" THEN 2 ELSE 1
Gives(l) == IF l \in {"o", "h", "g"} THEN {} ELSE {MaskBit[l]}

\* What an option does, if its parameter is there.
LEMMA OptionSets ==
    ASSUME NEW args \in Seq(Word), NEW i \in 1 .. Len(args),
           NEW o \in OptionSet, ~o.failed, ~o.cut, o.skip = 0,
           NEW allowed \in SUBSET Letters
    PROVE  LET l == args[i].opt
               y == setoption(o, args, i, allowed)
           IN  y \in OptionSet /\ (~y.failed => l \in allowed /\ Updated(o, y, o.opmask \cup Gives(l), Used(l), l = "e"))
<1> DEFINE l == args[i].opt
           y == setoption(o, args, i, allowed)
<1>1. args[i] \in Word
  OBVIOUS
<1>2. l \in {"", "a", "c", "o", "h", "g", "s", "f", "p", "e", "w"}
  BY <1>1 DEF Word
<1>3. CASE l \notin allowed \/ (l \notin {"a", "c", "w"} /\ i = Len(args))
  <2>1. y = [o EXCEPT !.failed = TRUE]
    BY <1>3 DEF setoption
  <2> HIDE DEF y
  <2>2. y \in OptionSet /\ y.failed
    <3>1. <<>> \in Name /\ "AUTH" \in Bits
      BY DEF Name, Bits
    <3>2. QED
      BY <2>1, <3>1, OptionUpdates
  <2>3. QED
    BY <2>2 DEF y
<1>4. CASE l \in allowed /\ ~(l \notin {"a", "c", "w"} /\ i = Len(args))
  <2>1. \E p \in Name : l \notin {"a", "c", "w"} => args[i + 1].text = p
    <3>1. CASE l \in {"a", "c", "w"}
      <4>1. <<>> \in Name
        BY DEF Name
      <4>2. QED
        BY <3>1, <4>1
    <3>2. CASE i # Len(args)
      <4>1. i + 1 \in 1 .. Len(args)
        BY <3>2
      <4>2. args[i + 1] \in Word
        BY <4>1
      <4>3. QED
        BY <4>2 DEF Word
    <3>3. QED
      BY <1>4, <3>1, <3>2
  <2>2. PICK p \in Name : l \notin {"a", "c", "w"} => args[i + 1].text = p
    BY <2>1
  <2>3. l # ""
    BY <1>4 DEF Letters
  <2>4. CASE l \in {"a", "c", "w"}
    <3>1. PICK b \in Bits : b = MaskBit[l]
      BY <2>4, MaskBits DEF Bits
    <3>2. y = [o EXCEPT !.opmask = @ \cup {b}]
      BY <1>4, <2>4, <3>1 DEF setoption, opt_setbool
    <3>3. Gives(l) = {b} /\ Used(l) = 0 /\ l # "e"
      BY <2>4, <3>1 DEF Gives, Used
    <3> HIDE DEF y, l
    <3>4. Updated(o, y, o.opmask \cup {b}, o.skip, o.cut)
      BY <2>2, <3>2, OptionUpdates
    <3>5. y \in OptionSet
      BY <3>4 DEF Updated
    <3>6. o.cut = FALSE
      BY DEF OptionSet
    <3>7. Updated(o, y, o.opmask \cup Gives(l), Used(l), l = "e")
      BY <3>3, <3>4, <3>6
    <3>8. QED
      BY <1>4, <3>5, <3>7 DEF l, y
  <2>5. CASE l \in {"o", "h", "g"}
    <3>1. y = IF l = "o" THEN [o EXCEPT !.skip = 1, !.datafile = p]
              ELSE IF l = "h" THEN [o EXCEPT !.skip = 1, !.hdrfile = p] ELSE [o EXCEPT !.skip = 1]
      <4>1. y = opt_setstring(o, l, p)
        BY <1>4, <2>2, <2>5 DEF setoption
      <4>2. QED
        BY <2>5, <4>1 DEF opt_setstring, OptionSet
    <3>2. Gives(l) = {} /\ Used(l) = 1 /\ l # "e"
      BY <2>5 DEF Gives, Used
    <3>3. "AUTH" \in Bits
      BY DEF Bits
    <3> HIDE DEF y, l
    <3>4. Updated(o, y, o.opmask, 1, o.cut)
      BY <2>2, <3>1, <3>3, OptionUpdates
    <3>5. y \in OptionSet
      BY <3>4 DEF Updated
    <3>6. o.cut = FALSE /\ o.opmask \cup Gives(l) = o.opmask
      BY <3>2 DEF OptionSet
    <3>7. Updated(o, y, o.opmask \cup Gives(l), Used(l), l = "e")
      BY <3>2, <3>4, <3>6
    <3>8. QED
      BY <1>4, <3>5, <3>7 DEF l, y
  <2>6. CASE l \in {"s", "f", "p"}
    <3>1. PICK b \in Bits : b = MaskBit[l]
      BY <2>6, MaskBits DEF Bits
    <3>2. y = [o EXCEPT !.opmask = @ \cup {b}, !.routine = p, !.skip = 1]
      <4>1. y = opt_makefunc(o, l, p)
        BY <1>4, <2>2, <2>6 DEF setoption
      <4>2. QED
        BY <3>1, <4>1 DEF opt_makefunc, opt_setbool, OptionSet
    <3>3. Gives(l) = {b} /\ Used(l) = 1 /\ l # "e"
      BY <2>6, <3>1 DEF Gives, Used
    <3> HIDE DEF y, l
    <3>4. Updated(o, y, o.opmask \cup {b}, 1, o.cut)
      BY <2>2, <3>2, OptionUpdates
    <3>5. y \in OptionSet
      BY <3>4 DEF Updated
    <3>6. o.cut = FALSE
      BY DEF OptionSet
    <3>7. Updated(o, y, o.opmask \cup Gives(l), Used(l), l = "e")
      BY <3>3, <3>4, <3>6
    <3>8. QED
      BY <1>4, <3>5, <3>7 DEF l, y
  <2>7. CASE l = "e"
    <3>1. PICK b \in Bits : b = MaskBit["e"]
      BY MaskBits DEF Bits
    <3>2. y = [o EXCEPT !.opmask = @ \cup {b}, !.ccode = TRUE, !.skip = 2, !.cut = TRUE]
      <4>1. y = opt_setcexp(o)
        BY <1>4, <2>7 DEF setoption
      <4>2. QED
        BY <3>1, <4>1 DEF opt_setcexp, opt_setbool, OptionSet
    <3>3. Gives(l) = {b} /\ Used(l) = 2
      BY <2>7, <3>1 DEF Gives, Used
    <3> HIDE DEF y, l
    <3>4. Updated(o, y, o.opmask \cup {b}, 2, TRUE)
      BY <2>2, <3>2, OptionUpdates
    <3>5. y \in OptionSet
      BY <3>4 DEF Updated
    <3>6. (l = "e") = TRUE
      BY <2>7
    <3>7. Updated(o, y, o.opmask \cup Gives(l), Used(l), l = "e")
      BY <3>3, <3>4, <3>6
    <3>8. QED
      BY <1>4, <3>5, <3>7 DEF l, y
  <2>8. QED
    BY <1>2, <2>3, <2>4, <2>5, <2>6, <2>7
<1>5. QED
  BY <1>3, <1>4

\* What one word of a line does.
LEMMA ArgTaken ==
    ASSUME NEW args \in Seq(Word), NEW i \in 1 .. Len(args), NEW o \in OptionSet, NEW allowed \in SUBSET Letters
    PROVE  LET l == args[i].opt
               y == TakeArg(o, args, i, allowed)
           IN  /\ y \in OptionSet
               /\ o.failed => y = o
               /\ ~o.failed /\ o.skip > 0 => Updated(o, y, o.opmask, o.skip - 1, o.cut)
               /\ ~o.failed /\ o.skip = 0 /\ o.cut => y = o
               /\ ~o.failed /\ o.skip = 0 /\ ~o.cut /\ ~y.failed =>
                     l \in allowed /\ Updated(o, y, o.opmask \cup Gives(l), Used(l), l = "e")
<1> DEFINE l == args[i].opt
           y == TakeArg(o, args, i, allowed)
<1>1. o.skip \in Nat /\ o.failed \in BOOLEAN /\ o.cut \in BOOLEAN
  BY DEF OptionSet
<1>2. CASE o.failed \/ (o.cut /\ o.skip = 0)
  <2>1. y = o
    BY <1>2 DEF TakeArg
  <2> HIDE DEF y
  <2>2. QED
    BY <1>1, <1>2, <2>1 DEF y
<1>3. CASE ~o.failed /\ o.skip > 0
  <2>1. y = [o EXCEPT !.skip = @ - 1]
    BY <1>1, <1>3 DEF TakeArg
  <2>2. <<>> \in Name /\ "AUTH" \in Bits
    BY DEF Name, Bits
  <2> HIDE DEF y
  <2>3. Updated(o, y, o.opmask, o.skip - 1, o.cut)
    BY <1>3, <2>1, <2>2, OptionUpdates
  <2>4. y \in OptionSet
    BY <2>3 DEF Updated
  <2>5. QED
    BY <1>1, <1>3, <2>3, <2>4 DEF y
<1>4. CASE ~o.failed /\ ~o.cut /\ o.skip = 0
  <2>1. y = setoption(o, args, i, allowed)
    BY <1>4 DEF TakeArg
  <2> HIDE DEF y, l
  <2>2. y \in OptionSet /\ (~y.failed => l \in allowed /\ Updated(o, y, o.opmask \cup Gives(l), Used(l), l = "e"))
    BY <1>4, <2>1, OptionSets DEF l
  <2>3. QED
    BY <1>4, <2>2 DEF y, l
<1>5. QED
  BY <1>1, <1>2, <1>3, <1>4

\* The command line sets no bit but those of its options, a line "CEXP" with its code.
LEMMA CommandTaken ==
    ASSUME NEW args \in Seq(Word), NEW o \in OptionSet, o.opmask \subseteq {"AUTH", "CACHE"}
    PROVE  LET y == TakeArgs(o, args, CmdOptions)
           IN  y \in OptionSet /\ (~y.failed => y.opmask \subseteq {"AUTH", "CACHE"})
<1> DEFINE S == {x \in OptionSet : ~x.failed => x.opmask \subseteq {"AUTH", "CACHE"}}
<1>1. ASSUME NEW x \in S, NEW i \in 1 .. Len(args)
      PROVE  TakeArg(x, args, i, CmdOptions) \in S
  <2> DEFINE l == args[i].opt
  <2>1. PICK y : y = TakeArg(x, args, i, CmdOptions)
    OBVIOUS
  <2>2. /\ y \in OptionSet
        /\ x.failed => y = x
        /\ ~x.failed /\ x.skip > 0 => Updated(x, y, x.opmask, x.skip - 1, x.cut)
        /\ ~x.failed /\ x.skip = 0 /\ x.cut => y = x
        /\ ~x.failed /\ x.skip = 0 /\ ~x.cut /\ ~y.failed =>
              l \in CmdOptions /\ Updated(x, y, x.opmask \cup Gives(l), Used(l), l = "e")
    BY <2>1, ArgTaken, Allowed
  <2>3. l \in CmdOptions => Gives(l) \subseteq {"AUTH", "CACHE"}
    BY MaskBits DEF Gives, CmdOptions
  <2> HIDE DEF l
  <2>4. x.skip \in Nat
    BY DEF OptionSet
  <2>5. QED
    BY <2>1, <2>2, <2>3, <2>4 DEF Updated
<1>2. o \in S
  OBVIOUS
<1> HIDE DEF S
<1>3. ArgsKeep(S, args, CmdOptions)
  BY <1>1 DEF ArgsKeep
<1>4. PICK f : ArgStates(S, o, args, CmdOptions, f)
  BY <1>2, <1>3, Taken
<1>5. TakeArgs(o, args, CmdOptions) \in S
  <2>1. Len(args) \in 0 .. Len(args)
    OBVIOUS
  <2>2. QED
    BY <1>4, <2>1 DEF ArgStates
<1>6. QED
  BY <1>5 DEF S

LEMMA LineTaken ==
    ASSUME NEW args \in Seq(Word), NEW o \in OptionSet, o.ccode <=> "CEXP" \in o.opmask
    PROVE  LET y == TakeArgs(o, args, FileOptions)
           IN  y \in OptionSet /\ (~y.failed => (y.ccode <=> "CEXP" \in y.opmask))
<1> DEFINE S == {x \in OptionSet : ~x.failed => (x.ccode <=> "CEXP" \in x.opmask)}
<1>1. ASSUME NEW x \in S, NEW i \in 1 .. Len(args)
      PROVE  TakeArg(x, args, i, FileOptions) \in S
  <2> DEFINE l == args[i].opt
  <2>1. PICK y : y = TakeArg(x, args, i, FileOptions)
    OBVIOUS
  <2>2. /\ y \in OptionSet
        /\ x.failed => y = x
        /\ ~x.failed /\ x.skip > 0 => Updated(x, y, x.opmask, x.skip - 1, x.cut)
        /\ ~x.failed /\ x.skip = 0 /\ x.cut => y = x
        /\ ~x.failed /\ x.skip = 0 /\ ~x.cut /\ ~y.failed =>
              l \in FileOptions /\ Updated(x, y, x.opmask \cup Gives(l), Used(l), l = "e")
    BY <2>1, ArgTaken, Allowed
  <2>3. l \in FileOptions => ("CEXP" \in Gives(l) <=> l = "e")
    BY MaskBits DEF Gives, FileOptions
  <2> HIDE DEF l
  <2>4. x.skip \in Nat /\ x.ccode \in BOOLEAN /\ y.ccode \in BOOLEAN /\ x.cut \in BOOLEAN
    BY <2>2 DEF OptionSet
  <2>5. x.failed => y = x
    BY <2>2
  <2>6. ASSUME ~x.failed, ~y.failed
        PROVE  y.ccode <=> "CEXP" \in y.opmask
    <3>1. CASE x.skip > 0
      BY <2>2, <2>4, <2>6, <3>1 DEF Updated
    <3>2. CASE x.skip = 0 /\ x.cut
      BY <2>2, <2>6, <3>2
    <3>3. CASE x.skip = 0 /\ ~x.cut
      BY <2>2, <2>3, <2>4, <2>6, <3>3 DEF Updated
    <3>4. QED
      BY <2>4, <3>1, <3>2, <3>3
  <2>7. QED
    BY <2>1, <2>2, <2>5, <2>6
<1>2. o \in S
  OBVIOUS
<1> HIDE DEF S
<1>3. ArgsKeep(S, args, FileOptions)
  BY <1>1 DEF ArgsKeep
<1>4. PICK f : ArgStates(S, o, args, FileOptions, f)
  BY <1>2, <1>3, Taken
<1>5. TakeArgs(o, args, FileOptions) \in S
  <2>1. Len(args) \in 0 .. Len(args)
    OBVIOUS
  <2>2. QED
    BY <1>4, <2>1 DEF ArgStates
<1>6. QED
  BY <1>5 DEF S

----------------------------------------------------------------------------
(* Tags *)

TagStates == {s \in TagState : s.currentform \in 0 .. Len(s.formlist)}

LEMMA FormUpdates ==
    ASSUME NEW forms \in Seq(FormRec), NEW k \in 1 .. Len(forms)
    PROVE  /\ \A c \in Seq(Name) : [forms EXCEPT ![k].controls = c] \in Seq(FormRec)
           /\ \A c : Len([forms EXCEPT ![k].controls = c]) = Len(forms)
           /\ \A f \in SUBSET {"NOWARN", "CCODED"} : [forms EXCEPT ![k].flags = f] \in Seq(FormRec)
           /\ \A f : Len([forms EXCEPT ![k].flags = f]) = Len(forms)
<1>1. forms[k] \in FormRec /\ Len(forms) \in Nat
  OBVIOUS
<1>2. \A c \in Seq(Name) : [forms[k] EXCEPT !.controls = c] \in FormRec
  BY <1>1 DEF FormRec
<1>3. \A f \in SUBSET {"NOWARN", "CCODED"} : [forms[k] EXCEPT !.flags = f] \in FormRec
  BY <1>1 DEF FormRec
<1>4. \A r : [forms EXCEPT ![k] = r] = [i \in 1 .. Len(forms) |-> IF i = k THEN r ELSE forms[i]]
  OBVIOUS
<1>5. \A r \in FormRec : [forms EXCEPT ![k] = r] \in Seq(FormRec)
  BY <1>1
<1>6. \A r : Len([forms EXCEPT ![k] = r]) = Len(forms)
  BY <1>1
<1>7. QED
  BY <1>2, <1>3, <1>5, <1>6

LEMMA TagTypes ==
    ASSUME NEW s \in TagStates, NEW t \in Tag, NEW nowarn \in BOOLEAN
    PROVE  TakeTag(s, t, nowarn) \in TagStates
<1>1. /\ s.formlist \in Seq(FormRec) /\ s.currentform \in 0 .. Len(s.formlist) /\ s.references \in SUBSET Name
      /\ s.failed \in BOOLEAN /\ s \in TagState
  BY DEF TagStates, TagState
<1> Len(s.formlist) \in Nat /\ 0 \in 0 .. Len(s.formlist)
  BY <1>1
<1>2. t.name \in Name /\ t.value \in Name
  BY DEF Tag
<1>3. [s EXCEPT !.currentform = 0] \in TagStates /\ [s EXCEPT !.failed = TRUE] \in TagStates
  BY <1>1 DEF TagStates, TagState
<1>4. newform(s, t, nowarn) \in TagStates
  <2>1. CASE t.name = <<>>
    BY <1>3, <2>1 DEF newform
  <2>2. CASE t.name # <<>>
    <3> DEFINE r == [action |-> t.value, controls |-> <<>>, flags |-> IF nowarn THEN {"NOWARN"} ELSE {}]
    <3>1. r \in FormRec
      BY <1>2 DEF FormRec
    <3> HIDE DEF r
    <3>2. Append(s.formlist, r) \in Seq(FormRec) /\ Len(Append(s.formlist, r)) = Len(s.formlist) + 1
      BY <1>1, <3>1
    <3>3. newform(s, t, nowarn) = [s EXCEPT !.formlist = Append(s.formlist, r), !.currentform = Len(s.formlist) + 1]
      BY <1>1, <2>2 DEF newform, r
    <3>4. Len(s.formlist) + 1 \in Nat /\ Len(s.formlist) + 1 \in 0 .. Len(s.formlist) + 1
      OBVIOUS
    <3>5. QED
      BY <1>1, <3>2, <3>3, <3>4 DEF TagStates, TagState
  <2>3. QED
    BY <1>2, <2>1, <2>2
<1>5. NewControl(s, t) \in TagStates
  <2>1. CASE s.currentform = 0 \/ t.value = <<>>
    BY <1>3, <2>1 DEF NewControl
  <2>2. CASE s.currentform # 0 /\ t.value # <<>>
    <3> DEFINE k == s.currentform
               c == <<t.name>> \o s.formlist[k].controls
               g == [s.formlist EXCEPT ![k].controls = c]
    <3>1. k \in 1 .. Len(s.formlist) /\ s.formlist[k] \in FormRec
      BY <1>1, <2>2
    <3>2. c \in Seq(Name)
      <4>1. s.formlist[k].controls \in Seq(Name)
        BY <3>1 DEF FormRec
      <4>2. QED
        BY <1>2, <4>1
    <3>3. NewControl(s, t) = [s EXCEPT !.formlist = g]
      BY <1>1, <2>2 DEF NewControl, TagState
    <3>4. g \in Seq(FormRec) /\ Len(g) = Len(s.formlist)
      <4> HIDE DEF c, k
      <4>1. QED
        BY <1>1, <3>1, <3>2, FormUpdates
    <3> HIDE DEF g
    <3>5. QED
      BY <1>1, <3>3, <3>4 DEF TagStates, TagState
  <2>3. QED
    BY <1>1, <1>2, <2>1, <2>2
<1>6. newref(s, t.value) \in TagStates
  BY <1>1, <1>2 DEF newref, TagStates, TagState
<1>7. QED
  BY <1>1, <1>3, <1>4, <1>5, <1>6 DEF TakeTag, Tag

LEMMA TagsTypes ==
    ASSUME NEW s \in TagStates, NEW content \in Seq(Tag), NEW nowarn \in BOOLEAN
    PROVE  TakeTags(s, content, nowarn) \in TagStates
<1>1. TagsKeep(TagStates, content, nowarn)
  <2>1. \A i \in 1 .. Len(content) : content[i] \in Tag
    OBVIOUS
  <2>2. QED
    BY <2>1, TagTypes DEF TagsKeep
<1>2. PICK f : TagRun(TagStates, s, content, nowarn, f)
  BY <1>1, TagsTaken
<1>3. Len(content) \in 0 .. Len(content)
  OBVIOUS
<1>4. QED
  BY <1>2, <1>3 DEF TagRun

----------------------------------------------------------------------------
(* The output files *)

LEMMA PrefixOfItself ==
    ASSUME NEW name \in Name
    PROVE  IsPrefix(name, name)
BY DEF IsPrefix, Name

\* o is outs with a file whose name begins with this one, which is outs' last if it has none.
OpenedIn(outs, name, o) ==
    /\ o \in Seq(OutRec) /\ Matches(o, name) # {}
    /\ DOMAIN outs \subseteq DOMAIN o /\ \A i \in DOMAIN outs : o[i] = outs[i]
    /\ \A i \in DOMAIN o : i \notin DOMAIN outs => o[i].text = <<>>
    /\ \A m : Matches(outs, m) # {} => Matches(o, m) # {}

LEMMA OutputFile ==
    ASSUME NEW outs \in Seq(OutRec), NEW name \in Name
    PROVE  OpenedIn(outs, name, output_file(outs, name))
<1> PICK o : o = output_file(outs, name)
  OBVIOUS
<1> DEFINE r == [name |-> name, text |-> <<>>]
<1>1. CASE Matches(outs, name) # {}
  BY <1>1 DEF output_file, OpenedIn
<1>2. CASE Matches(outs, name) = {}
  <2>1. o = Append(outs, r)
    BY <1>2 DEF output_file
  <2>2. r \in OutRec /\ r.name = name /\ r.text = <<>>
    BY DEF OutRec
  <2> HIDE DEF r
  <2>3. /\ o \in Seq(OutRec) /\ Len(o) = Len(outs) + 1 /\ o[Len(outs) + 1] = r
        /\ \A i \in 1 .. Len(outs) : o[i] = outs[i]
    BY <2>1, <2>2
  <2>4. DOMAIN outs = 1 .. Len(outs) /\ DOMAIN o = 1 .. Len(outs) + 1 /\ Len(outs) \in Nat
    BY <2>3
  <2>5. DOMAIN outs \subseteq DOMAIN o /\ \A i \in DOMAIN o : i \notin DOMAIN outs => i = Len(outs) + 1
    BY <2>4
  <2>6. Len(outs) + 1 \in Matches(o, name)
    <3>1. argcmp(o[Len(outs) + 1].name, name)
      BY <2>2, <2>3, PrefixOfItself DEF argcmp
    <3>2. QED
      BY <2>4, <3>1 DEF Matches
  <2>7. \A m : Matches(outs, m) \subseteq Matches(o, m)
    BY <2>3, <2>4, <2>5 DEF Matches
  <2>8. QED
    BY <2>2, <2>3, <2>4, <2>5, <2>6, <2>7 DEF OpenedIn
<1>3. QED
  BY <1>1, <1>2

\* items are at the end of a file whose name begins with the one that was looked for.
Placed(outs, name, items, p, o) ==
    /\ p \in 1 .. Len(outs) /\ IsPrefix(name, outs[p].name)
    /\ o \in Seq(OutRec) /\ Len(o) = Len(outs) /\ \A i \in 1 .. Len(outs) : o[i].name = outs[i].name
    /\ \A i \in 1 .. Len(outs) : i # p => o[i].text = outs[i].text
    /\ o[p].text = outs[p].text \o items
    /\ \A m : Matches(o, m) = Matches(outs, m)

LEMMA PutFile ==
    ASSUME NEW outs \in Seq(OutRec), NEW name, Matches(outs, name) # {}, NEW items \in Seq(ItemRec)
    PROVE  Placed(outs, name, items, Place(outs, name), Put(outs, name, items))
<1> DEFINE p == Place(outs, name)
           o == Put(outs, name, items)
<1>1. Matches(outs, name) \subseteq Nat /\ DOMAIN outs = 1 .. Len(outs) /\ Len(outs) \in Nat
  BY DEF Matches
<1>2. p \in Matches(outs, name)
  <2>1. \E m \in Matches(outs, name) : \A n \in Matches(outs, name) : m <= n
    BY <1>1, LeastNat
  <2>2. QED
    BY <2>1 DEF Place, Min
<1> HIDE DEF p
<1>3. p \in 1 .. Len(outs) /\ IsPrefix(name, outs[p].name)
  BY <1>1, <1>2 DEF Matches, argcmp
<1>4. outs[p] \in OutRec /\ outs[p].text \in Seq(ItemRec)
  <2>1. outs[p] \in OutRec
    BY <1>3
  <2>2. QED
    BY <2>1 DEF OutRec
<1>5. PICK t \in Seq(ItemRec) : t = outs[p].text \o items
  BY <1>4, ConcatProperties
<1>6. o = [outs EXCEPT ![p] = [outs[p] EXCEPT !.text = t]]
  BY <1>3, <1>5 DEF Put, p
<1> HIDE DEF o
<1>7. PICK r \in OutRec : r = [outs[p] EXCEPT !.text = t] /\ r.name = outs[p].name /\ r.text = t
  <2>1. PICK r : r = [outs[p] EXCEPT !.text = t]
    OBVIOUS
  <2>2. r \in OutRec /\ r.name = outs[p].name /\ r.text = t
    BY <1>4, <2>1 DEF OutRec
  <2>3. QED
    BY <2>1, <2>2
<1>8. o = [i \in 1 .. Len(outs) |-> IF i = p THEN r ELSE outs[i]]
  BY <1>1, <1>6, <1>7
<1>9. o \in Seq(OutRec) /\ Len(o) = Len(outs) /\ \A i \in 1 .. Len(outs) : o[i] = IF i = p THEN r ELSE outs[i]
  BY <1>1, <1>7, <1>8
<1>10. \A m : Matches(o, m) = Matches(outs, m)
  <2>1. DOMAIN o = 1 .. Len(outs)
    BY <1>8
  <2>2. \A i \in 1 .. Len(outs) : o[i].name = outs[i].name
    BY <1>7, <1>9
  <2>3. QED
    BY <1>1, <2>1, <2>2 DEF Matches
<1>11. QED
  BY <1>3, <1>5, <1>7, <1>9, <1>10 DEF Placed, p, o

LEMMA ItemsAre ==
    ASSUME NEW outs \in Seq(OutRec), NEW kind
    PROVE  /\ \A w \in ItemsIn(outs, kind) :
                 /\ w = <<w[1], w[2]>> /\ w[1] \in 1 .. Len(outs) /\ w[2] \in 1 .. Len(outs[w[1]].text)
                 /\ ItemAt(outs, w).item = kind
           /\ \A x \in 1 .. Len(outs) : \A k \in 1 .. Len(outs[x].text) :
                 outs[x].text[k].item = kind => << x, k >> \in ItemsIn(outs, kind)
<1>1. DOMAIN outs = 1 .. Len(outs)
  OBVIOUS
<1>2. \A x \in 1 .. Len(outs) : DOMAIN outs[x].text = 1 .. Len(outs[x].text)
  BY DEF OutRec
<1>3. \A w \in ItemsIn(outs, kind) : \E x \in DOMAIN outs : \E k \in DOMAIN outs[x].text : w = << x, k >>
  BY DEF ItemsIn
<1>4. \A w \in ItemsIn(outs, kind) : ItemAt(outs, w).item = kind
  BY DEF ItemsIn
<1>5. \A x \in DOMAIN outs : \A k \in DOMAIN outs[x].text :
          outs[x].text[k].item = kind => << x, k >> \in ItemsIn(outs, kind)
  BY DEF ItemsIn, ItemAt
<1>6. QED
  BY <1>1, <1>2, <1>3, <1>4, <1>5

LEMMA OneItem ==
    ASSUME NEW x \in ItemRec
    PROVE  << x >> \in Seq(ItemRec) /\ Len(<< x >>) = 1 /\ << x >>[1] = x
OBVIOUS

\* A file that is opened has nothing in it yet.
SameItems(outs, kind, o) ==
    /\ ItemsIn(o, kind) = ItemsIn(outs, kind)
    /\ \A w \in ItemsIn(outs, kind) : ItemAt(o, w) = ItemAt(outs, w) /\ o[w[1]] = outs[w[1]]

LEMMA OpenItems ==
    ASSUME NEW outs \in Seq(OutRec), NEW name \in Name, NEW kind
    PROVE  SameItems(outs, kind, output_file(outs, name))
<1>1. PICK o : o = output_file(outs, name)
  OBVIOUS
<1>2. /\ o \in Seq(OutRec)
      /\ DOMAIN outs \subseteq DOMAIN o /\ \A i \in DOMAIN outs : o[i] = outs[i]
      /\ \A i \in DOMAIN o : i \notin DOMAIN outs => o[i].text = <<>>
  BY <1>1, OutputFile DEF OpenedIn
<1>3. ItemsIn(o, kind) = ItemsIn(outs, kind) /\ \A w \in ItemsIn(outs, kind) : ItemAt(o, w) = ItemAt(outs, w) /\ o[w[1]] = outs[w[1]]
  <2>1. ASSUME NEW w \in ItemsIn(outs, kind)
        PROVE  w \in ItemsIn(o, kind) /\ ItemAt(o, w) = ItemAt(outs, w) /\ o[w[1]] = outs[w[1]]
    <3>1. /\ w = << w[1], w[2] >> /\ w[1] \in DOMAIN outs /\ w[2] \in 1 .. Len(outs[w[1]].text)
          /\ ItemAt(outs, w).item = kind
      BY ItemsAre
    <3>2. w[1] \in 1 .. Len(o) /\ o[w[1]] = outs[w[1]]
      BY <1>2, <3>1
    <3>3. ItemAt(o, w) = ItemAt(outs, w)
      BY <3>2 DEF ItemAt
    <3>4. QED
      BY <1>2, <3>1, <3>2, <3>3, ItemsAre DEF ItemAt
  <2>2. ASSUME NEW w \in ItemsIn(o, kind)
        PROVE  w \in ItemsIn(outs, kind)
    <3>1. /\ w = << w[1], w[2] >> /\ w[1] \in DOMAIN o /\ w[2] \in 1 .. Len(o[w[1]].text)
          /\ ItemAt(o, w).item = kind
      BY <1>2, ItemsAre
    <3>2. w[1] \in DOMAIN outs
      <4>1. w[1] \notin DOMAIN outs => o[w[1]].text = <<>>
        BY <1>2, <3>1
      <4>2. QED
        BY <3>1, <4>1
    <3>3. o[w[1]] = outs[w[1]] /\ w[1] \in 1 .. Len(outs)
      BY <1>2, <3>2
    <3>4. QED
      BY <3>1, <3>3, ItemsAre DEF ItemAt
  <2>3. QED
    BY <2>1, <2>2
<1>4. QED
  BY <1>1, <1>3 DEF SameItems

LEMMA OpenRecords ==
    ASSUME NEW outs \in Seq(OutRec), NEW name \in Name, NEW kind, NEW R, Recorded(outs, kind, R)
    PROVE  Recorded(output_file(outs, name), kind, R)
BY OpenItems DEF SameItems, Recorded

\* What is put into a file joins what is there.
NewItems(items, kind) == {k \in 1 .. Len(items) : items[k].item = kind}

\* They are behind what the file held.
Joined(outs, kind, items, o, p, a) ==
    /\ p \in 1 .. Len(outs) /\ Len(o) = Len(outs) /\ \A i \in 1 .. Len(outs) : o[i].name = outs[i].name
    /\ \A w \in ItemsIn(outs, kind) : w \in ItemsIn(o, kind) /\ ItemAt(o, w) = ItemAt(outs, w)
    /\ \A k \in NewItems(items, kind) : << p, a + k >> \in ItemsIn(o, kind) /\ ItemAt(o, << p, a + k >>) = items[k]
    /\ \A w \in ItemsIn(o, kind) : w \in ItemsIn(outs, kind) \/ \E k \in NewItems(items, kind) : w = << p, a + k >>

LEMMA PutItems ==
    ASSUME NEW outs \in Seq(OutRec), NEW name, Matches(outs, name) # {}, NEW items \in Seq(ItemRec), NEW kind
    PROVE  \E a \in Nat : Joined(outs, kind, items, Put(outs, name, items), Place(outs, name), a)
<1> DEFINE K == NewItems(items, kind)
<1>1. PICK p : p = Place(outs, name)
  OBVIOUS
<1>2. PICK o : o = Put(outs, name, items)
  OBVIOUS
<1>3. /\ p \in 1 .. Len(outs)
      /\ o \in Seq(OutRec) /\ Len(o) = Len(outs)
      /\ \A i \in 1 .. Len(outs) : i # p => o[i].text = outs[i].text
      /\ o[p].text = outs[p].text \o items
      /\ \A i \in 1 .. Len(outs) : o[i].name = outs[i].name
  <2>1. Placed(outs, name, items, p, o)
    BY <1>1, <1>2, PutFile
  <2>2. QED
    BY <2>1 DEF Placed
<1>4. PICK t \in Seq(ItemRec) : t = outs[p].text
  <2>1. outs[p] \in OutRec
    BY <1>3
  <2>2. QED
    BY <2>1 DEF OutRec
<1>5. PICK a \in Nat : a = Len(t)
  OBVIOUS
<1>6. /\ Len(o[p].text) = a + Len(items) /\ Len(items) \in Nat
      /\ \A k \in 1 .. a : k \in 1 .. Len(o[p].text) /\ o[p].text[k] = t[k]
      /\ \A k \in 1 .. Len(items) : o[p].text[a + k] = items[k]
  <2>1. o[p].text = t \o items
    BY <1>3, <1>4
  <2>2. /\ Len(t \o items) = Len(t) + Len(items)
        /\ \A i \in 1 .. Len(t) + Len(items) : (t \o items)[i] = IF i <= Len(t) THEN t[i] ELSE items[i - Len(t)]
    BY ConcatProperties
  <2>3. \A k \in 1 .. Len(items) : a + k \in 1 .. Len(t) + Len(items) /\ ~(a + k <= Len(t)) /\ (a + k) - Len(t) = k
    BY <1>5
  <2>4. \A k \in 1 .. a : k \in 1 .. Len(t) + Len(items) /\ k <= Len(t)
    BY <1>5
  <2>5. QED
    BY <1>5, <2>1, <2>2, <2>3, <2>4
<1>7. ASSUME NEW w \in ItemsIn(outs, kind)
      PROVE  w \in ItemsIn(o, kind) /\ ItemAt(o, w) = ItemAt(outs, w)
  <2>1. /\ w = << w[1], w[2] >> /\ w[1] \in 1 .. Len(outs) /\ w[2] \in 1 .. Len(outs[w[1]].text)
        /\ ItemAt(outs, w).item = kind
    BY ItemsAre
  <2>2. w[2] \in 1 .. Len(o[w[1]].text) /\ o[w[1]].text[w[2]] = outs[w[1]].text[w[2]]
    <3>1. CASE w[1] = p
      <4>1. w[2] \in 1 .. a
        BY <1>4, <1>5, <2>1, <3>1
      <4>2. QED
        BY <1>4, <1>6, <3>1, <4>1
    <3>2. CASE w[1] # p
      BY <1>3, <2>1, <3>2
    <3>3. QED
      BY <3>1, <3>2
  <2>3. ItemAt(o, w) = ItemAt(outs, w)
    BY <2>2 DEF ItemAt
  <2>4. o[w[1]].text[w[2]].item = kind
    BY <2>1, <2>2 DEF ItemAt
  <2>5. << w[1], w[2] >> \in ItemsIn(o, kind)
    <3>1. PICK x \in 1 .. Len(o), y \in 1 .. Len(o[w[1]].text) : x = w[1] /\ y = w[2]
      BY <1>3, <2>1, <2>2
    <3>2. \A z \in 1 .. Len(o) : \A k \in 1 .. Len(o[z].text) :
              o[z].text[k].item = kind => << z, k >> \in ItemsIn(o, kind)
      BY <1>3, ItemsAre
    <3>3. QED
      BY <2>4, <3>1, <3>2
  <2>6. QED
    BY <2>1, <2>3, <2>5
<1>8. ASSUME NEW k \in K
      PROVE  << p, a + k >> \in ItemsIn(o, kind) /\ ItemAt(o, << p, a + k >>) = items[k]
  <2>1. k \in 1 .. Len(items) /\ items[k].item = kind
    BY DEF NewItems
  <2>2. a + k \in 1 .. Len(o[p].text) /\ o[p].text[a + k] = items[k]
    BY <1>6, <2>1
  <2>3. QED
    BY <1>3, <2>1, <2>2, ItemsAre DEF ItemAt
<1>9. ASSUME NEW w \in ItemsIn(o, kind)
      PROVE  w \in ItemsIn(outs, kind) \/ \E k \in K : w = << p, a + k >>
  <2>1. /\ w = << w[1], w[2] >> /\ w[1] \in 1 .. Len(outs) /\ w[2] \in 1 .. Len(o[w[1]].text)
        /\ o[w[1]].text[w[2]].item = kind
    BY <1>3, ItemsAre DEF ItemAt
  <2>2. CASE w[1] # p
    <3>1. o[w[1]].text = outs[w[1]].text
      BY <1>3, <2>1, <2>2
    <3>2. QED
      BY <2>1, <3>1, ItemsAre
  <2>3. CASE w[1] = p /\ w[2] \in 1 .. a
    <3>1. w[2] \in 1 .. Len(outs[p].text) /\ outs[p].text[w[2]].item = kind
      BY <1>4, <1>5, <1>6, <2>1, <2>3
    <3>2. QED
      BY <1>3, <2>1, <2>3, <3>1, ItemsAre
  <2>4. CASE w[1] = p /\ w[2] \notin 1 .. a
    <3>1. PICK k \in 1 .. Len(items) : w[2] = a + k
      <4>1. w[2] \in 1 .. a + Len(items)
        BY <1>6, <2>1, <2>4
      <4>2. w[2] - a \in 1 .. Len(items) /\ w[2] = a + (w[2] - a)
        BY <1>6, <2>4, <4>1
      <4>3. QED
        BY <4>2
    <3>2. items[k].item = kind
      BY <1>6, <2>1, <2>4, <3>1
    <3>3. k \in K
      BY <3>2 DEF NewItems
    <3>4. QED
      BY <2>1, <2>4, <3>1, <3>3
  <2>5. QED
    BY <2>2, <2>3, <2>4
<1>10. QED
  BY <1>1, <1>2, <1>3, <1>7, <1>8, <1>9 DEF Joined, K

LEMMA PutRecords ==
    ASSUME NEW outs \in Seq(OutRec), NEW name, Matches(outs, name) # {}, NEW items \in Seq(ItemRec),
           NEW kind, NEW R, Recorded(outs, kind, R),
           \A j, k \in NewItems(items, kind) : items[j].of = items[k].of => j = k,
           \A k \in NewItems(items, kind), r \in R : items[k].of # r.of
    PROVE  Recorded(Put(outs, name, items), kind, R \cup {items[k] : k \in NewItems(items, kind)})
<1> DEFINE K == NewItems(items, kind)
<1>1. PICK p, o : p = Place(outs, name) /\ o = Put(outs, name, items)
  OBVIOUS
<1>2. PICK a \in Nat : Joined(outs, kind, items, o, p, a)
  BY <1>1, PutItems
<1>3. \A w \in ItemsIn(outs, kind) : w \in ItemsIn(o, kind) /\ ItemAt(o, w) = ItemAt(outs, w)
  BY <1>2 DEF Joined
<1>4. \A k \in K : << p, a + k >> \in ItemsIn(o, kind) /\ ItemAt(o, << p, a + k >>) = items[k]
  BY <1>2 DEF Joined
<1>5. \A w \in ItemsIn(o, kind) : w \in ItemsIn(outs, kind) \/ \E k \in K : w = << p, a + k >>
  BY <1>2 DEF Joined
<1> HIDE DEF K
<1>6. \A w \in ItemsIn(outs, kind) : ItemAt(outs, w) \in R
  BY DEF Recorded
<1>7. {ItemAt(o, w) : w \in ItemsIn(o, kind)} = R \cup {items[k] : k \in K}
  <2>1. \A w \in ItemsIn(o, kind) : ItemAt(o, w) \in R \cup {items[k] : k \in K}
    BY <1>3, <1>4, <1>5, <1>6
  <2>2. \A r \in R : \E w \in ItemsIn(o, kind) : r = ItemAt(o, w)
    <3>1. \A r \in R : \E w \in ItemsIn(outs, kind) : r = ItemAt(outs, w)
      BY DEF Recorded
    <3>2. QED
      BY <1>3, <3>1
  <2>3. \A k \in K : \E w \in ItemsIn(o, kind) : items[k] = ItemAt(o, w)
    BY <1>4
  <2>4. QED
    BY <2>1, <2>2, <2>3
<1>8. ASSUME NEW w \in ItemsIn(o, kind), NEW v \in ItemsIn(o, kind), ItemAt(o, w).of = ItemAt(o, v).of
       PROVE  w = v
  <2>1. CASE w \in ItemsIn(outs, kind) /\ v \in ItemsIn(outs, kind)
    BY <1>3, <1>8, <2>1 DEF Recorded
  <2>2. ASSUME NEW x \in ItemsIn(outs, kind), NEW k \in K
        PROVE  ItemAt(o, x).of # ItemAt(o, << p, a + k >>).of
    <3>1. ItemAt(o, x) \in R
      BY <1>3, <1>6
    <3>2. ItemAt(o, << p, a + k >>) = items[k]
      BY <1>4
    <3>3. QED
      BY <3>1, <3>2 DEF K
  <2>3. ASSUME NEW j \in K, NEW k \in K, w = << p, a + j >>, v = << p, a + k >>
        PROVE  w = v
    <3>1. items[j].of = items[k].of
      BY <1>4, <1>8, <2>3
    <3>2. j = k
      BY <3>1 DEF K
    <3>3. QED
      BY <2>3, <3>2
  <2>4. QED
    BY <1>5, <1>8, <2>1, <2>2, <2>3
<1>9. QED
  BY <1>1, <1>7, <1>8 DEF Recorded, K

----------------------------------------------------------------------------
(* Parts of sequences *)

LEMMA WithoutType ==
    ASSUME NEW S, NEW s \in Seq(S), NEW X
    PROVE  Without(s, X) \in Seq(S)
<1> DEFINE q == [i \in DOMAIN s |-> IF s[i] \in X THEN <<>> ELSE << s[i] >>]
<1>1. DOMAIN s = 1 .. Len(s) /\ Len(s) \in Nat /\ \A i \in 1 .. Len(s) : s[i] \in S
  OBVIOUS
<1>2. \A i \in 1 .. Len(s) : (IF s[i] \in X THEN <<>> ELSE << s[i] >>) \in Seq(S)
  BY <1>1
<1>3. q \in [1 .. Len(s) -> Seq(S)]
  BY <1>1, <1>2
<1> HIDE DEF q
<1>4. q \in Seq(Seq(S))
  BY <1>1, <1>3, ListIs
<1>5. FlattenSeq(q) \in Seq(S)
  BY <1>4, FlatType
<1>6. QED
  BY <1>5 DEF Without, q

\* w has all numbers of T, each once.
Lists(w, T) ==
    /\ w \in Seq(Nat)
    /\ \A k \in 1 .. Len(w) : w[k] \in T
    /\ \A n \in T : \E k \in 1 .. Len(w) : w[k] = n
    /\ \A j, k \in 1 .. Len(w) : w[j] = w[k] => j = k

LEMMA ListsMore ==
    ASSUME NEW w, NEW T, Lists(w, T), NEW n \in Nat, n \notin T
    PROVE  Lists(w \o << n >>, T \cup {n})
<1>1. w \in Seq(Nat) /\ Len(w) \in Nat
  BY DEF Lists
<1>2. PICK v \in Seq(Nat) : v = w \o << n >>
  <2>1. << n >> \in Seq(Nat)
    OBVIOUS
  <2>2. QED
    BY <1>1, <2>1, ConcatProperties
<1>3. Len(v) = Len(w) + 1 /\ v[Len(w) + 1] = n /\ \A k \in 1 .. Len(w) : v[k] = w[k]
  BY <1>1, <1>2
<1>4. \A k \in 1 .. Len(v) : k \in 1 .. Len(w) \/ k = Len(w) + 1
  BY <1>1, <1>3
<1>5. Len(w) + 1 \in 1 .. Len(v) /\ \A k \in 1 .. Len(w) : k \in 1 .. Len(v)
  BY <1>1, <1>3
<1>6. \A k \in 1 .. Len(v) : v[k] \in T \cup {n}
  BY <1>3, <1>4 DEF Lists
<1>7. \A m \in T \cup {n} : \E k \in 1 .. Len(v) : v[k] = m
  BY <1>3, <1>5 DEF Lists
<1>8. ASSUME NEW j \in 1 .. Len(v), NEW k \in 1 .. Len(v), v[j] = v[k]
      PROVE  j = k
  <2>1. \A i \in 1 .. Len(w) : v[i] # n
    BY <1>3 DEF Lists
  <2>2. QED
    BY <1>3, <1>4, <1>8, <2>1 DEF Lists
<1>9. QED
  BY <1>2, <1>6, <1>7, <1>8 DEF Lists

LEMMA WithoutNumbers ==
    ASSUME NEW n \in Nat, NEW X
    PROVE  Lists(Without([i \in 1 .. n |-> i], X), (1 .. n) \ X)
<1> DEFINE q == [i \in 1 .. n |-> IF i \in X THEN <<>> ELSE << i >>]
           G == {k \in 0 .. n : Lists(FlattenSeq(SubSeq(q, 1, k)), (1 .. k) \ X)}
<1>1. q \in Seq(Seq(Nat)) /\ Len(q) = n
  <2>1. \A i \in 1 .. n : (IF i \in X THEN <<>> ELSE << i >>) \in Seq(Nat)
    OBVIOUS
  <2>2. q \in [1 .. n -> Seq(Nat)]
    BY <2>1
  <2> HIDE DEF q
  <2>3. QED
    BY <2>2, ListIs
<1>2. \A i \in 1 .. n : q[i] = IF i \in X THEN <<>> ELSE << i >>
  OBVIOUS
<1>3. FlattenSeq(q) = Without([i \in 1 .. n |-> i], X)
  <2>1. PICK s : s = [i \in 1 .. n |-> i]
    OBVIOUS
  <2>2. DOMAIN s = 1 .. n /\ \A i \in 1 .. n : s[i] = i
    BY <2>1
  <2>3. q = [i \in DOMAIN s |-> IF s[i] \in X THEN <<>> ELSE << s[i] >>]
    BY <2>2
  <2> HIDE DEF q
  <2>4. QED
    BY <2>1, <2>3 DEF Without
<1> HIDE DEF q
<1>4. 0 \in G
  <2>1. SubSeq(q, 1, 0) = <<>>
    BY <1>1, WholePart
  <2>2. Lists(<<>>, (1 .. 0) \ X)
    BY DEF Lists
  <2>3. 0 \in 0 .. n
    OBVIOUS
  <2>4. QED
    BY <2>1, <2>2, <2>3, FlatEmpty
<1>5. ASSUME NEW k \in 1 .. n, k - 1 \in G
      PROVE  k \in G
  <2>1. /\ SubSeq(q, 1, k - 1) \in Seq(Seq(Nat)) /\ q[k] \in Seq(Nat)
        /\ SubSeq(q, 1, k) = Append(SubSeq(q, 1, k - 1), q[k])
    BY <1>1, PartAppend
  <2>2. PICK w : w = FlattenSeq(SubSeq(q, 1, k - 1))
    OBVIOUS
  <2>3. FlattenSeq(SubSeq(q, 1, k)) = w \o q[k]
    BY <2>1, <2>2, FlatAppend
  <2>4. Lists(w, (1 .. k - 1) \ X)
    BY <1>5, <2>2
  <2>5. w \in Seq(Nat) /\ k \in 0 .. n /\ k \in Nat
    BY <2>4 DEF Lists
  <2>6. CASE k \in X
    <3>1. q[k] = <<>>
      BY <1>2, <2>6
    <3> w \o q[k] = w
      BY <2>5, <3>1, ConcatEmptySeq
    <3>2. (1 .. k) \ X = (1 .. k - 1) \ X
      BY <2>5, <2>6
    <3>3. QED
      BY <2>3, <2>4, <2>5, <3>2
  <2>7. CASE k \notin X
    <3>1. w \o q[k] = w \o << k >>
      BY <1>2, <2>7
    <3>2. (1 .. k) \ X = ((1 .. k - 1) \ X) \cup {k} /\ k \notin (1 .. k - 1) \ X
      BY <2>5, <2>7
    <3>3. Lists(w \o << k >>, ((1 .. k - 1) \ X) \cup {k})
      BY <2>4, <2>5, <3>2, ListsMore
    <3>4. QED
      BY <2>3, <2>5, <3>1, <3>2, <3>3
  <2>8. QED
    BY <2>6, <2>7
<1>6. n \in G
  <2> HIDE DEF G
  <2>1. \A k \in 0 .. n : k \in G
    BY <1>4, <1>5, Upwards
  <2>2. QED
    BY <2>1
<1>7. SubSeq(q, 1, n) = q
  BY <1>1, WholePart
<1>8. QED
  BY <1>3, <1>6, <1>7

LEMMA CodedFiles ==
    ASSUME Types
    PROVE  Lists(Coded, {n \in DOMAIN fdlist : fdlist[n].ccode})
<1>1. DOMAIN fdlist = 1 .. Len(fdlist) /\ Len(fdlist) \in Nat
  <2>1. fdlist \in Seq(FileRec)
    BY DEF Types
  <2>2. QED
    BY <2>1
<1> DEFINE X == {n \in DOMAIN fdlist : ~fdlist[n].ccode}
<1>2. Coded = Without([i \in 1 .. Len(fdlist) |-> i], X)
  BY <1>1 DEF Coded
<1>3. (1 .. Len(fdlist)) \ X = {n \in DOMAIN fdlist : fdlist[n].ccode}
  BY <1>1
<1> HIDE DEF X
<1>4. QED
  BY <1>1, <1>2, <1>3, WithoutNumbers

----------------------------------------------------------------------------
(* Types *)

ItemType == {"", "int", "text"}
IsItem(x, kind, name, n, type) ==
    x \in ItemRec /\ x.item = kind /\ x.name = name /\ x.of = n /\ x.type = type

LEMMA ItemIs == \A kind \in Kinds, name \in Name, n \in Nat : IsItem(Item(kind, name, n), kind, name, n, "")
<1>1. <<>> \in Seq(Name)
  BY EmptySeq
<1>2. QED
  BY <1>1 DEF Item, ItemRec, IsItem

LEMMA TypedIs ==
    \A kind \in Kinds, name \in Name, n \in Nat, type \in ItemType :
        IsItem(Typed(kind, name, n, type), kind, name, n, type)
<1> TAKE kind \in Kinds, name \in Name, n \in Nat, type \in ItemType
<1>1. PICK x : x = Item(kind, name, n)
  OBVIOUS
<1>2. IsItem(x, kind, name, n, "")
  BY <1>1, ItemIs
<1>3. Typed(kind, name, n, type) = [x EXCEPT !.type = type]
  BY <1>1 DEF Typed
<1>4. IsItem([x EXCEPT !.type = type], kind, name, n, type)
  BY <1>2 DEF IsItem, ItemRec, ItemType
<1>5. QED
  BY <1>3, <1>4

LEMMA AskedIs ==
    \A kind \in Kinds, name \in Name, n \in Nat, type \in ItemType, asks \in Seq(Name) :
        LET x == [Typed(kind, name, n, type) EXCEPT !.asks = asks]
        IN  IsItem(x, kind, name, n, type) /\ x.asks = asks
<1> TAKE kind \in Kinds, name \in Name, n \in Nat, type \in ItemType, asks \in Seq(Name)
<1>1. PICK x : x = Typed(kind, name, n, type)
  OBVIOUS
<1>2. IsItem(x, kind, name, n, type)
  BY <1>1, TypedIs
<1>3. IsItem([x EXCEPT !.asks = asks], kind, name, n, type) /\ [x EXCEPT !.asks = asks].asks = asks
  BY <1>2 DEF IsItem, ItemRec
<1>4. QED
  BY <1>1, <1>3

LEMMA TypesInit == Init => Types
<1> SUFFICES ASSUME Init PROVE Types
  OBVIOUS
<1>1. <<>> \in Name /\ DataFile \in Name /\ HdrFile \in Name
  BY ListAssumption DEF Name
<1>2. def \in [mask : SUBSET Bits, datafile : Name, hdrfile : Name]
  BY <1>1 DEF Init
<1>3. optionTmp \in OptionSet
  BY <1>1 DEF Init, OptionSet
<1>4. fdlist = <<>> /\ lines = <<>> /\ formlist = <<>> /\ outputfiles = <<>> /\ efslist = <<>> /\ read = <<>>
  BY DEF Init
<1>5. fdlist \in Seq(FileRec) /\ Len(fdlist) <= MaxFiles /\ lines \in Seq(Line) /\ Len(lines) = Len(fdlist)
  BY <1>4, LimitsAssumption
<1>6. formlist \in Seq(FormRec) /\ outputfiles \in Seq(OutRec) /\ efslist \in Seq(EntryRec) /\ read \in Seq(Seq(Tag))
  BY <1>4
<1>7. currentform \in 0 .. Len(formlist) /\ references \in SUBSET Name /\ at \in Nat /\ warned = {} /\ pc = "args"
  BY <1>4 DEF Init
<1>8. QED
  BY <1>2, <1>3, <1>5, <1>6, <1>7 DEF Types

LEMMA AtFileIs ==
    ASSUME Types, NEW n \in DOMAIN fdlist
    PROVE  LET f == fdlist[n]
           IN  /\ n \in 1 .. Len(fdlist) /\ n \in Nat /\ f \in FileRec /\ f.filename \in Name \ {<<>>} /\ f.caname \in Name /\ f.ccode \in BOOLEAN
               /\ f.opset.opmask \in SUBSET Bits /\ f.opset.datafile \in Name /\ f.opset.routine \in Name
               /\ mk_cname(f.filename, n) \in Name /\ Token(n) \in Name
<1>1. fdlist \in Seq(FileRec)
  BY DEF Types
<1>2. n \in 1 .. Len(fdlist) /\ n \in Nat /\ fdlist[n] \in FileRec
  BY <1>1
<1>3. fdlist[n].filename \in Name
  BY <1>2 DEF FileRec
<1>4. mk_cname(fdlist[n].filename, n) \in Name /\ Token(n) \in Name
  BY <1>2, <1>3, MadeNames DEF Token
<1>5. QED
  BY <1>2, <1>4 DEF FileRec

LEMMA AsksType ==
    ASSUME Types, NEW k \in DOMAIN formlist
    PROVE  Asks(k) \in Seq(Name)
<1>1. formlist \in Seq(FormRec)
  BY DEF Types
<1>2. formlist[k] \in FormRec
  BY <1>1
<1>3. formlist[k].controls \in Seq(Name)
  BY <1>2 DEF FormRec
<1>4. QED
  BY <1>3, WithoutType DEF Asks

LEMMA FormOfIs ==
    ASSUME Types, NEW name, NEW k, k = FormOf(name)
    PROVE  /\ k \in 0 .. Len(formlist)
           /\ k # 0 => k \in DOMAIN formlist /\ formlist[k].action = name
           /\ \A j \in DOMAIN formlist : formlist[j].action = name => k >= j
<1>1. formlist \in Seq(FormRec)
  BY DEF Types
<1>2. DOMAIN formlist = 1 .. Len(formlist) /\ Len(formlist) \in Nat
  BY <1>1
<1> DEFINE T == {0} \cup {j \in DOMAIN formlist : formlist[j].action = name}
           G == {m \in 0 .. Len(formlist) : \E x \in T : \A y \in T : y <= m => x >= y}
<1>3. 0 \in G
  <2>1. \A y \in T : y <= 0 => 0 >= y
    BY <1>2
  <2>2. 0 \in T /\ 0 \in 0 .. Len(formlist)
    BY <1>2
  <2>3. QED
    BY <2>1, <2>2
<1>4. ASSUME NEW m \in 1 .. Len(formlist), m - 1 \in G
      PROVE  m \in G
  <2>1. PICK x \in T : \A y \in T : y <= m - 1 => x >= y
    BY <1>4
  <2>2. \A y \in T : y \in 0 .. Len(formlist)
    BY <1>2
  <2>3. m \in 0 .. Len(formlist)
    BY <1>2
  <2> HIDE DEF T
  <2>4. CASE m \in T
    <3>1. \A y \in T : y <= m => m >= y
      BY <2>2, <2>3
    <3>2. QED
      BY <2>3, <2>4, <3>1
  <2>5. CASE m \notin T
    <3>1. \A y \in T : y <= m => y <= m - 1
      BY <1>2, <2>2, <2>3, <2>5
    <3>2. QED
      BY <2>1, <2>3, <3>1
  <2>6. QED
    BY <2>4, <2>5
<1>5. Len(formlist) \in G
  <2> HIDE DEF G
  <2>1. \A m \in 0 .. Len(formlist) : m \in G
    BY <1>2, <1>3, <1>4, Upwards
  <2>2. QED
    BY <1>2, <2>1
<1>6. \E x \in T : \A y \in T : x >= y
  <2>1. \A y \in T : y <= Len(formlist)
    BY <1>2
  <2>2. QED
    BY <1>5, <2>1
<1>7. k \in T /\ \A y \in T : k >= y
  <2>1. k = CHOOSE x \in T : \A y \in T : x >= y
    BY DEF FormOf, Max
  <2> HIDE DEF T
  <2>2. QED
    BY <1>6, <2>1
<1>8. QED
  BY <1>2, <1>7

WithFlags(forms, k, f) == [forms EXCEPT ![k].flags = f]

LEMMA FlagsSet ==
    ASSUME NEW forms \in Seq(FormRec), NEW k \in 1 .. Len(forms), NEW f \in SUBSET {"NOWARN", "CCODED"}
    PROVE  WithFlags(forms, k, f) \in Seq(FormRec) /\ Len(WithFlags(forms, k, f)) = Len(forms)
<1>1. forms[k] \in FormRec /\ Len(forms) \in Nat
  OBVIOUS
<1>2. PICK r \in FormRec : r = [forms[k] EXCEPT !.flags = f]
  <2>1. [forms[k] EXCEPT !.flags = f] \in FormRec
    BY <1>1 DEF FormRec
  <2>2. QED
    BY <2>1
<1>3. WithFlags(forms, k, f) = [forms EXCEPT ![k] = r]
  BY <1>2 DEF WithFlags
<1>4. QED
  BY <1>1, <1>3

LEMMA BldformIs ==
    ASSUME Types, NEW n \in DOMAIN fdlist, n = at, NEW b, b = bldform(fdlist[n])
    PROVE  LET f    == fdlist[n]
               k    == FormOf(f.filename)
               stub == Typed("stub", f.opset.routine, n, "text")
           IN  /\ b.stub = IF k = 0 THEN stub ELSE [stub EXCEPT !.asks = Asks(k)]
               /\ IsItem(b.stub, "stub", f.opset.routine, n, "text")
               /\ b.forms = IF k = 0 THEN formlist ELSE [formlist EXCEPT ![k].flags = @ \cup {"CCODED"}]
               /\ b.forms \in Seq(FormRec) /\ Len(b.forms) = Len(formlist)
               /\ b.warn = (k = 0 /\ ~ref_lookup(references, f.filename) /\ "NOWARN" \notin f.opset.opmask)
<1> DEFINE f == fdlist[n]
           k == FormOf(f.filename)
           stub == Typed("stub", f.opset.routine, n, "text")
<1>1. /\ formlist \in Seq(FormRec) /\ DOMAIN formlist = 1 .. Len(formlist)
      /\ k \in 0 .. Len(formlist) /\ (k # 0 => k \in DOMAIN formlist)
  <2>1. formlist \in Seq(FormRec)
    BY DEF Types
  <2>2. QED
    BY <2>1, FormOfIs
<1>2. f.opset.routine \in Name /\ n \in Nat /\ "stub" \in Kinds /\ "text" \in ItemType
  BY AtFileIs DEF Kinds, ItemType
<1>3. CASE k = 0
  <2>1. b = [stub |-> stub, forms |-> formlist,
             warn |-> ~ref_lookup(references, f.filename) /\ "NOWARN" \notin f.opset.opmask]
    BY <1>3 DEF bldform
  <2>2. IsItem(stub, "stub", f.opset.routine, n, "text")
    BY <1>2, TypedIs
  <2> HIDE DEF k, f, stub
  <2>3. QED
    BY <1>1, <1>3, <2>1, <2>2 DEF k, f, stub
<1>4. CASE k # 0
  <2> DEFINE g == [formlist EXCEPT ![k].flags = @ \cup {"CCODED"}]
             s == [stub EXCEPT !.asks = Asks(k)]
  <2>1. b = [stub |-> s, warn |-> FALSE, forms |-> g]
    BY <1>4 DEF bldform
  <2>2. formlist[k] \in FormRec /\ k \in 1 .. Len(formlist)
    BY <1>1, <1>4
  <2>3. formlist[k].flags \cup {"CCODED"} \in SUBSET {"NOWARN", "CCODED"}
    BY <2>2 DEF FormRec
  <2>4. g \in Seq(FormRec) /\ Len(g) = Len(formlist)
    <3>1. PICK h \in SUBSET {"NOWARN", "CCODED"} : h = formlist[k].flags \cup {"CCODED"}
      BY <2>3
    <3>2. g = WithFlags(formlist, k, h)
      BY <3>1 DEF WithFlags
    <3> HIDE DEF g, k
    <3>3. QED
      BY <1>1, <2>2, <3>1, <3>2, FlagsSet
  <2>5. IsItem(s, "stub", f.opset.routine, n, "text")
    <3>1. Asks(k) \in Seq(Name)
      BY <1>1, <1>4, AsksType
    <3>2. QED
      BY <1>2, <3>1, AskedIs
  <2>6. b.stub = s /\ b.forms = g /\ b.warn = FALSE
    BY <2>1
  <2> HIDE DEF k, f, stub
  <2>7. QED
    BY <1>4, <2>4, <2>5, <2>6 DEF k, f, stub
<1>5. QED
  BY <1>3, <1>4

LEMMA ArgsTypes ==
    ASSUME NEW args \in Seq(Word), NEW o \in OptionSet, NEW allowed \in SUBSET Letters
    PROVE  TakeArgs(o, args, allowed) \in OptionSet
<1>1. ArgsKeep(OptionSet, args, allowed)
  BY ArgTaken DEF ArgsKeep
<1>2. PICK f : ArgStates(OptionSet, o, args, allowed, f)
  BY <1>1, Taken
<1>3. Len(args) \in 0 .. Len(args)
  OBVIOUS
<1>4. QED
  BY <1>2, <1>3 DEF ArgStates

\* o has the files of outs, with more in one of them.
PutIn(outs, o) == o \in Seq(OutRec) /\ \A m : Matches(o, m) = Matches(outs, m)

LEMMA PutTypes ==
    ASSUME NEW outs \in Seq(OutRec), NEW name, Matches(outs, name) # {}, NEW items \in Seq(ItemRec)
    PROVE  PutIn(outs, Put(outs, name, items))
<1>1. Placed(outs, name, items, Place(outs, name), Put(outs, name, items))
  BY PutFile
<1>2. QED
  BY <1>1 DEF Placed, PutIn

LEMMA TokenItemsType ==
    ASSUME Types, NEW kind \in Kinds
    PROVE  /\ TokenItems(kind) \in Seq(ItemRec) /\ Len(TokenItems(kind)) = Len(Coded)
           /\ \A k \in 1 .. Len(Coded) : /\ TokenItems(kind)[k] = Item(kind, Token(Coded[k]), Coded[k])
                                         /\ Coded[k] \in DOMAIN fdlist
                                         /\ IsItem(TokenItems(kind)[k], kind, Token(Coded[k]), Coded[k], "")
<1>1. Coded \in Seq(Nat) /\ \A k \in 1 .. Len(Coded) : Coded[k] \in DOMAIN fdlist
  BY CodedFiles DEF Lists
<1>2. DOMAIN Coded = 1 .. Len(Coded) /\ Len(Coded) \in Nat
  BY <1>1
<1>3. TokenItems(kind) = [k \in 1 .. Len(Coded) |-> Item(kind, Token(Coded[k]), Coded[k])]
  BY <1>2 DEF TokenItems
<1>4. \A k \in 1 .. Len(Coded) : IsItem(Item(kind, Token(Coded[k]), Coded[k]), kind, Token(Coded[k]), Coded[k], "")
  <2> TAKE k \in 1 .. Len(Coded)
  <2>1. Coded[k] \in Nat /\ Token(Coded[k]) \in Name
    BY <1>1, AtFileIs
  <2>2. QED
    BY <2>1, ItemIs
<1>5. TokenItems(kind) \in [1 .. Len(Coded) -> ItemRec]
  BY <1>3, <1>4 DEF IsItem
<1>6. TokenItems(kind) \in Seq(ItemRec) /\ Len(TokenItems(kind)) = Len(Coded)
  BY <1>2, <1>5, ListIs
<1>7. \A k \in 1 .. Len(Coded) : TokenItems(kind)[k] = Item(kind, Token(Coded[k]), Coded[k])
  BY <1>3
<1>8. QED
  BY <1>1, <1>4, <1>6, <1>7

\* Sequences grow by one.
LEMMA OneMore ==
    ASSUME NEW S, NEW q \in Seq(S), NEW x \in S
    PROVE  /\ Append(q, x) \in Seq(S) /\ Len(Append(q, x)) = Len(q) + 1 /\ Len(q) \in Nat
           /\ Append(q, x)[Len(q) + 1] = x
           /\ \A i \in 1 .. Len(q) : Append(q, x)[i] = q[i]
           /\ DOMAIN q = 1 .. Len(q) /\ DOMAIN Append(q, x) = 1 .. Len(q) + 1
OBVIOUS

Base0 == Types /\ (pc # "exit" => Passes /\ Opened)

LEMMA Base0Init == Init => Base0
<1> SUFFICES ASSUME Init PROVE Base0
  OBVIOUS
<1>1. Types
  BY TypesInit
<1>2. Passes /\ Opened
  BY DEF Init, Passes, Opened, Listing, ConvertedTo, ListedTo
<1>3. QED
  BY <1>1, <1>2 DEF Base0

LEMMA TypesAre ==
    ASSUME Types
    PROVE  /\ def.mask \in SUBSET Bits /\ def.datafile \in Name /\ def.hdrfile \in Name
           /\ optionTmp \in OptionSet
           /\ fdlist \in Seq(FileRec) /\ Len(fdlist) <= MaxFiles /\ DOMAIN fdlist = 1 .. Len(fdlist) /\ Len(fdlist) \in Nat
           /\ lines \in Seq(Line) /\ Len(lines) = Len(fdlist) /\ DOMAIN lines = 1 .. Len(fdlist)
           /\ at \in Nat
           /\ formlist \in Seq(FormRec) /\ currentform \in 0 .. Len(formlist) /\ references \in SUBSET Name
           /\ DOMAIN formlist = 1 .. Len(formlist) /\ Len(formlist) \in Nat
           /\ outputfiles \in Seq(OutRec) /\ DOMAIN outputfiles = 1 .. Len(outputfiles)
           /\ efslist \in Seq(EntryRec)
           /\ read \in Seq(Seq(Tag)) /\ DOMAIN read = 1 .. Len(read) /\ Len(read) \in Nat
<1>1. fdlist \in Seq(FileRec) /\ Len(fdlist) <= MaxFiles
  BY DEF Types
<1>2. lines \in Seq(Line) /\ Len(lines) = Len(fdlist)
  BY DEF Types
<1>3. formlist \in Seq(FormRec) /\ currentform \in 0 .. Len(formlist)
  BY DEF Types
<1>4. outputfiles \in Seq(OutRec) /\ efslist \in Seq(EntryRec) /\ read \in Seq(Seq(Tag))
  BY DEF Types
<1>5. def \in [mask : SUBSET Bits, datafile : Name, hdrfile : Name]
  BY DEF Types
<1>6. optionTmp \in OptionSet /\ at \in Nat /\ references \in SUBSET Name
  BY DEF Types
<1>7. DOMAIN fdlist = 1 .. Len(fdlist) /\ Len(fdlist) \in Nat
  BY <1>1
<1>8. DOMAIN lines = 1 .. Len(fdlist)
  BY <1>2
<1>9. DOMAIN formlist = 1 .. Len(formlist) /\ Len(formlist) \in Nat
  BY <1>3
<1>10. DOMAIN outputfiles = 1 .. Len(outputfiles)
  BY <1>4
<1>11. DOMAIN read = 1 .. Len(read) /\ Len(read) \in Nat
  BY <1>4
<1>12. QED
  BY <1>1, <1>2, <1>3, <1>4, <1>5, <1>6, <1>7, <1>8, <1>9, <1>10, <1>11

LEMMA BaseArgs ==
    ASSUME Base0, NEW argv \in CommandLines, parseargs(argv)
    PROVE  Base0'
<1>1. Types /\ Passes /\ Opened /\ pc = "args"
  BY DEF Base0, parseargs
<1> DEFINE o == [optionTmp EXCEPT !.opmask = {}, !.datafile = DataFile, !.hdrfile = HdrFile]
<1>2. o \in OptionSet
  <2>1. optionTmp \in OptionSet
    BY <1>1, TypesAre
  <2>2. DataFile \in Name /\ HdrFile \in Name
    BY ListAssumption
  <2>3. QED
    BY <2>1, <2>2 DEF OptionSet
<1>3. PICK y : y = TakeArgs(o, argv, CmdOptions)
  OBVIOUS
<1> HIDE DEF o
<1>4. y \in OptionSet
  <2>1. argv \in Seq(Word)
    BY ListAssumption
  <2>2. QED
    BY <1>2, <1>3, <2>1, ArgsTypes, Allowed
<1>5. def' = [mask |-> y.opmask, datafile |-> y.datafile, hdrfile |-> y.hdrfile]
  BY <1>3 DEF parseargs, o
<1>6. def' \in [mask : SUBSET Bits, datafile : Name, hdrfile : Name]
  BY <1>4, <1>5 DEF OptionSet
<1>7. /\ pc' \in {"list", "exit"}
      /\ UNCHANGED << optionTmp, fdlist, at, formlist, currentform, references, outputfiles, efslist, warned, lines, read >>
  BY DEF parseargs
<1>8. Types'
  BY <1>1, <1>6, <1>7 DEF Types
<1>9. pc' # "exit" => Passes' /\ Opened'
  BY <1>1, <1>7 DEF Passes, Opened, Listing, ConvertedTo, ListedTo
<1>10. QED
  BY <1>8, <1>9 DEF Base0

LEMMA DefaultsType ==
    ASSUME Types
    PROVE  Defaults(optionTmp) \in OptionSet /\ Defaults(optionTmp).opmask = def.mask /\ ~Defaults(optionTmp).ccode
           /\ ~Defaults(optionTmp).cut /\ Defaults(optionTmp).skip = 0 /\ Defaults(optionTmp).failed = optionTmp.failed
           /\ Defaults(optionTmp).datafile = def.datafile /\ Defaults(optionTmp).routine = <<>>
<1>1. optionTmp \in OptionSet /\ def.mask \in SUBSET Bits /\ def.datafile \in Name /\ def.hdrfile \in Name /\ <<>> \in Name
  <2>1. <<>> \in Name
    BY DEF Name
  <2>2. QED
    BY <2>1, TypesAre
<1>2. QED
  BY <1>1 DEF Defaults, OptionSet

LEMMA LineRead ==
    ASSUME Types, NEW line \in Lines, NEW y, y = TakeArgs(Defaults(optionTmp), line.args, FileOptions)
    PROVE  /\ line \in Line /\ line.name \in Name \ {<<>>} /\ line.args \in Seq(Word)
           /\ y \in OptionSet /\ FileData(line, y) \in FileRec
           /\ FileData(line, y).filename = line.name /\ FileData(line, y).ccode = y.ccode
           /\ FileData(line, y).opset.opmask = y.opmask
           /\ FileData(line, y).opset.datafile = y.datafile /\ FileData(line, y).opset.routine = y.routine
<1>1. line \in Line /\ line.name # <<>>
  BY ListAssumption
<1>2. line.name \in Name /\ line.args \in Seq(Word)
  BY <1>1 DEF Line
<1>3. y \in OptionSet
  BY <1>2, DefaultsType, ArgsTypes, Allowed
<1>4. <<>> \in Name
  BY DEF Name
<1>5. FileData(line, y) \in FileRec
  BY <1>1, <1>2, <1>3, <1>4 DEF FileData, FileRec, OptionSet
<1>6. QED
  BY <1>1, <1>2, <1>3, <1>5 DEF FileData

LEMMA BaseLine ==
    ASSUME Base0, NEW line \in Lines, ReadLine(line)
    PROVE  Base0'
<1>1. Types /\ Passes /\ Opened /\ pc = "list"
  BY DEF Base0, ReadLine
<1>2. PICK y : y = TakeArgs(Defaults(optionTmp), line.args, FileOptions)
  OBVIOUS
<1>3. line \in Line /\ y \in OptionSet /\ FileData(line, y) \in FileRec
  BY <1>1, <1>2, LineRead
<1>4. /\ lines' = Append(lines, line) /\ optionTmp' = y /\ fdlist' = Append(fdlist, FileData(line, y))
      /\ Len(fdlist) < MaxFiles /\ pc' = IF y.failed THEN "exit" ELSE "list"
  BY <1>2 DEF ReadLine
<1>5. UNCHANGED << def, at, formlist, currentform, references, outputfiles, efslist, warned, read >>
  BY DEF ReadLine
<1>6. fdlist' \in Seq(FileRec) /\ lines' \in Seq(Line) /\ Len(lines') = Len(fdlist') /\ Len(fdlist') <= MaxFiles
  <2>1. fdlist' \in Seq(FileRec) /\ Len(fdlist') = Len(fdlist) + 1 /\ Len(fdlist) \in Nat
    BY <1>1, <1>3, <1>4, TypesAre, OneMore
  <2>2. lines' \in Seq(Line) /\ Len(lines') = Len(lines) + 1
    BY <1>1, <1>3, <1>4, TypesAre, OneMore
  <2>3. QED
    BY <1>1, <1>4, <2>1, <2>2, TypesAre, LimitsAssumption
<1>7. Types'
  BY <1>1, <1>3, <1>4, <1>5, <1>6 DEF Types
<1>8. pc' # "exit" => Passes' /\ Opened'
  <2>1. y.failed \in BOOLEAN
    BY <1>3 DEF OptionSet
  <2>2. QED
    BY <1>1, <1>4, <1>5, <2>1 DEF Passes, Opened, Listing, ConvertedTo, ListedTo
<1>9. QED
  BY <1>7, <1>8 DEF Base0

LEMMA BaseEnd ==
    ASSUME Base0, EndOfList
    PROVE  Base0'
<1>1. Types /\ Passes /\ Opened /\ pc = "list"
  BY DEF Base0, EndOfList
<1>2. /\ outputfiles' = output_file(outputfiles, def.hdrfile)
      /\ pc' = "convert" /\ at' = 1
      /\ UNCHANGED << def, optionTmp, fdlist, formlist, currentform, references, efslist, warned, lines, read >>
  BY DEF EndOfList
<1>3. outputfiles' \in Seq(OutRec) /\ Matches(outputfiles', def.hdrfile) # {}
  BY <1>1, <1>2, TypesAre, OutputFile DEF OpenedIn
<1>4. Types'
  BY <1>1, <1>2, <1>3 DEF Types
<1>5. Passes'
  BY <1>1, <1>2, TypesAre DEF Passes, Listing, ConvertedTo, ListedTo
<1>6. Opened'
  BY <1>2, <1>3 DEF Opened, Listing
<1>7. QED
  BY <1>4, <1>5, <1>6 DEF Base0

LEMMA BaseSkip ==
    ASSUME Base0, GiveUp \/ SkipFile
    PROVE  Base0'
<1>1. Types /\ Passes /\ Opened /\ pc = "convert" /\ at <= Len(fdlist)
  BY DEF Base0, GiveUp, SkipFile
<1>2. at \in 1 .. Len(fdlist) + 1 /\ at \in DOMAIN fdlist
  BY <1>1, TypesAre DEF Passes
<1>3. CASE GiveUp
  <2>1. pc' = "exit" /\ UNCHANGED << def, optionTmp, fdlist, at, formlist, currentform, references,
                                     outputfiles, efslist, warned, lines, read >>
    BY <1>3 DEF GiveUp
  <2>2. Types'
    BY <1>1, <2>1 DEF Types
  <2>3. QED
    BY <2>1, <2>2 DEF Base0
<1>4. CASE SkipFile
  <2> DEFINE data == fdlist[at].opset.datafile
  <2>1. /\ outputfiles' = output_file(outputfiles, data) /\ at' = at + 1 /\ read' = Append(read, <<>>)
        /\ UNCHANGED << pc, def, optionTmp, fdlist, formlist, currentform, references, efslist, warned, lines >>
    BY <1>4 DEF SkipFile
  <2>2. data \in Name
    BY <1>1, <1>2, AtFileIs
  <2> HIDE DEF data
  <2>3. outputfiles' \in Seq(OutRec) /\ (Matches(outputfiles, def.hdrfile) # {} => Matches(outputfiles', def.hdrfile) # {})
    BY <1>1, <2>1, <2>2, TypesAre, OutputFile DEF OpenedIn
  <2>4. read' \in Seq(Seq(Tag)) /\ Len(read') = Len(read) + 1 /\ at' \in Nat
    <3>1. <<>> \in Seq(Tag)
      BY EmptySeq
    <3>2. QED
      BY <1>1, <2>1, <3>1, TypesAre, OneMore
  <2>5. Types'
    BY <1>1, <2>1, <2>3, <2>4 DEF Types
  <2>6. Passes'
    BY <1>1, <1>2, <2>1, <2>4, TypesAre DEF Passes, Listing, ConvertedTo, ListedTo
  <2>7. Opened'
    BY <1>1, <2>1, <2>3 DEF Opened, Listing
  <2>8. QED
    BY <2>5, <2>6, <2>7 DEF Base0
<1>5. QED
  BY <1>3, <1>4

\* The output files after a file is converted: one is opened, two are written to.
LEMMA ConvertOuts ==
    ASSUME Types, Opened, pc = "convert", at \in DOMAIN fdlist
    PROVE  LET data  == fdlist[at].opset.datafile
               cname == mk_cname(fdlist[at].filename, at)
               outs  == output_file(outputfiles, data)
               put   == Put(outs, data, << Item("array", cname, at) >>)
           IN  /\ outs \in Seq(OutRec) /\ put \in Seq(OutRec)
               /\ Matches(outs, data) # {} /\ Matches(put, def.hdrfile) # {}
               /\ cname \in Name /\ at \in Nat
               /\ << Item("array", cname, at) >> \in Seq(ItemRec) /\ << Item("extern", cname, at) >> \in Seq(ItemRec)
               /\ IsItem(Item("array", cname, at), "array", cname, at, "") /\ IsItem(Item("extern", cname, at), "extern", cname, at, "")
<1> DEFINE data  == fdlist[at].opset.datafile
           cname == mk_cname(fdlist[at].filename, at)
           outs  == output_file(outputfiles, data)
           put   == Put(outs, data, << Item("array", cname, at) >>)
<1>1. data \in Name /\ cname \in Name /\ at \in Nat
  BY AtFileIs
<1>2. "array" \in Kinds /\ "extern" \in Kinds
  BY DEF Kinds
<1>3. IsItem(Item("array", cname, at), "array", cname, at, "") /\ IsItem(Item("extern", cname, at), "extern", cname, at, "")
  <2> HIDE DEF cname
  <2>1. QED
    BY <1>1, <1>2, ItemIs
<1> HIDE DEF cname, data
<1>4. << Item("array", cname, at) >> \in Seq(ItemRec) /\ << Item("extern", cname, at) >> \in Seq(ItemRec)
  BY <1>3, OneItem DEF IsItem
<1>5. outs \in Seq(OutRec) /\ Matches(outs, data) # {} /\ Matches(outs, def.hdrfile) # {}
  <2>1. Matches(outputfiles, def.hdrfile) # {}
    BY DEF Opened
  <2>2. OpenedIn(outputfiles, data, outs)
    BY <1>1, TypesAre, OutputFile
  <2>3. QED
    BY <2>1, <2>2 DEF OpenedIn
<1> HIDE DEF outs
<1>6. put \in Seq(OutRec) /\ Matches(put, def.hdrfile) # {}
  <2>1. PutIn(outs, put)
    BY <1>4, <1>5, PutTypes
  <2>2. QED
    BY <1>5, <2>1 DEF PutIn
<1>7. QED
  BY <1>1, <1>3, <1>4, <1>5, <1>6 DEF put, outs, data, cname

\* What a file is read as: what it holds, if no tag is cut off.
LEMMA SeenIs ==
    ASSUME NEW content \in Seq(Tag), NEW fill \in Fills(content)
    PROVE  Seen(content, fill) \in Seq(Tag) /\ (Cuts(content) = {} => Seen(content, fill) = content)
<1>1. DOMAIN fill = Cuts(content) /\ \A i \in Cuts(content) : fill[i] \in Tag
  BY BlockAssumption DEF Fills
<1>2. DOMAIN content = 1 .. Len(content) /\ Len(content) \in Nat /\ \A i \in 1 .. Len(content) : content[i] \in Tag
  OBVIOUS
<1>3. \A i \in 1 .. Len(content) : (IF i \in DOMAIN fill THEN fill[i] ELSE content[i]) \in Tag
  BY <1>1, <1>2
<1>4. Seen(content, fill) \in [1 .. Len(content) -> Tag]
  BY <1>2, <1>3 DEF Seen
<1>5. Seen(content, fill) \in Seq(Tag)
  <2> HIDE DEF Seen
  <2>1. QED
    BY <1>2, <1>4
<1>6. ASSUME Cuts(content) = {}
      PROVE  Seen(content, fill) = content
  <2>1. Seen(content, fill) = [i \in 1 .. Len(content) |-> content[i]]
    BY <1>1, <1>2, <1>6 DEF Seen
  <2>2. QED
    BY <2>1
<1>7. QED
  BY <1>5, <1>6

LEMMA BaseConvert ==
    ASSUME Base0, NEW content \in Contents, NEW fill \in Fills(content), ConvertFile(content, fill)
    PROVE  Base0'
<1>1. Types /\ Passes /\ Opened /\ pc = "convert" /\ at <= Len(fdlist)
  BY DEF Base0, ConvertFile
<1>2. at \in 1 .. Len(fdlist) + 1 /\ at \in DOMAIN fdlist
  BY <1>1, TypesAre DEF Passes
<1> DEFINE f     == fdlist[at]
           data  == f.opset.datafile
           cname == mk_cname(f.filename, at)
           outs  == output_file(outputfiles, data)
           put   == Put(outs, data, << Item("array", cname, at) >>)
           s     == TakeTags([formlist |-> formlist, currentform |-> currentform,
                              references |-> references, failed |-> FALSE],
                             Seen(content, fill), "NOWARN" \in f.opset.opmask)
<1>3. /\ read' = Append(read, content)
      /\ fdlist' = [fdlist EXCEPT ![at].caname = cname]
      /\ formlist' = s.formlist /\ currentform' = s.currentform /\ references' = s.references
      /\ outputfiles' = Put(put, def.hdrfile, << Item("extern", cname, at) >>)
      /\ pc' = IF s.failed THEN "exit" ELSE pc
      /\ at' = at + 1
      /\ UNCHANGED << def, optionTmp, efslist, warned, lines >>
  BY DEF ConvertFile
<1>4. /\ put \in Seq(OutRec) /\ Matches(put, def.hdrfile) # {} /\ cname \in Name
      /\ << Item("extern", cname, at) >> \in Seq(ItemRec)
  BY <1>1, <1>2, ConvertOuts
<1>5. content \in Seq(Tag) /\ Seen(content, fill) \in Seq(Tag)
  BY ListAssumption, SeenIs
<1>6. s \in TagStates
  <2>1. PICK s0 : s0 = [formlist |-> formlist, currentform |-> currentform, references |-> references, failed |-> FALSE]
    OBVIOUS
  <2>2. s0 \in TagStates
    BY <1>1, <2>1, TypesAre DEF TagStates, TagState
  <2>3. ("NOWARN" \in f.opset.opmask) \in BOOLEAN
    OBVIOUS
  <2>4. s = TakeTags(s0, Seen(content, fill), "NOWARN" \in f.opset.opmask)
    BY <2>1
  <2> HIDE DEF s, f
  <2>5. QED
    BY <1>5, <2>2, <2>3, <2>4, TagsTypes
<1> HIDE DEF put, s, cname
<1>7. outputfiles' \in Seq(OutRec) /\ Matches(outputfiles', def.hdrfile) # {}
  <2>1. PutIn(put, outputfiles')
    BY <1>3, <1>4, PutTypes
  <2>2. QED
    BY <1>4, <2>1 DEF PutIn
<1>8. fdlist' \in Seq(FileRec) /\ Len(fdlist') = Len(fdlist)
  <2>1. f \in FileRec /\ at \in 1 .. Len(fdlist)
    BY <1>1, <1>2, AtFileIs
  <2>2. PICK r \in FileRec : r = [f EXCEPT !.caname = cname]
    <3>1. [f EXCEPT !.caname = cname] \in FileRec
      BY <1>4, <2>1 DEF FileRec
    <3>2. QED
      BY <3>1
  <2>3. fdlist' = [fdlist EXCEPT ![at] = r]
    BY <1>3, <2>2
  <2>4. QED
    BY <1>1, <2>1, <2>3, TypesAre
<1>9. read' \in Seq(Seq(Tag)) /\ Len(read') = Len(read) + 1 /\ at' \in Nat
  BY <1>1, <1>3, <1>5, TypesAre, OneMore
<1>10. /\ formlist' \in Seq(FormRec) /\ currentform' \in 0 .. Len(formlist') /\ references' \in SUBSET Name
       /\ s.failed \in BOOLEAN
  BY <1>3, <1>6 DEF TagStates, TagState
<1>11. Types'
  <2>1. pc' \in {"exit", "convert"}
    BY <1>1, <1>3
  <2>2. QED
    BY <1>1, <1>3, <1>7, <1>8, <1>9, <1>10, <2>1 DEF Types
<1>12. pc' # "exit" => pc' = "convert"
  BY <1>1, <1>3
<1>13. ASSUME pc' # "exit"
       PROVE  Passes'
  <2>1. pc' = "convert" /\ Len(fdlist) \in Nat /\ at \in Nat
    BY <1>1, <1>12, <1>13, TypesAre
  <2>2. /\ Len(read) = at - 1 /\ Len(efslist) = 0 /\ warned = {} /\ ~optionTmp.failed
    BY <1>1 DEF Passes, Listing, ConvertedTo, ListedTo
  <2>3. at' \in 1 .. Len(fdlist') + 1 /\ Len(read') = at' - 1
    BY <1>1, <1>2, <1>3, <1>8, <1>9, <2>1, <2>2
  <2>4. ~Listing' /\ ConvertedTo' = at' - 1 /\ ListedTo' = 0
    BY <2>1 DEF Listing, ConvertedTo, ListedTo
  <2>5. QED
    BY <1>3, <2>1, <2>2, <2>3, <2>4 DEF Passes
<1>14. pc' # "exit" => Opened'
  BY <1>3, <1>7, <1>12 DEF Opened, Listing
<1>15. QED
  BY <1>11, <1>13, <1>14 DEF Base0

LEMMA BaseDefaults ==
    ASSUME Base0, OpenDefaults
    PROVE  Base0'
<1>1. Types /\ Passes /\ Opened /\ pc = "convert" /\ at > Len(fdlist)
  BY DEF Base0, OpenDefaults
<1>2. at = Len(fdlist) + 1
  BY <1>1, TypesAre DEF Passes
<1> DEFINE data == output_file(outputfiles, def.datafile)
           code == output_file(data, CodeFile)
           full == NoRoom(outputfiles, def.datafile) \/ NoRoom(data, CodeFile)
<1>3. /\ outputfiles' = IF full THEN outputfiles ELSE code
      /\ pc' = IF full THEN "exit" ELSE "efs"
      /\ at' = 1
      /\ UNCHANGED << def, optionTmp, fdlist, formlist, currentform, references, efslist, warned, lines, read >>
  BY DEF OpenDefaults
<1>4. data \in Seq(OutRec) /\ Matches(data, def.hdrfile) # {}
  <2>1. Matches(outputfiles, def.hdrfile) # {}
    BY <1>1 DEF Opened
  <2>2. QED
    BY <1>1, <2>1, TypesAre, OutputFile DEF OpenedIn
<1> HIDE DEF data, full
<1>5. code \in Seq(OutRec) /\ Matches(code, CodeFile) # {} /\ Matches(code, def.hdrfile) # {}
  <2>1. CodeFile \in Name
    BY ListAssumption
  <2>2. QED
    BY <1>4, <2>1, OutputFile DEF OpenedIn, code
<1> HIDE DEF code
<1>6. outputfiles' \in Seq(OutRec) /\ pc' \in {"exit", "efs"} /\ at' \in Nat
  BY <1>1, <1>3, <1>5, TypesAre
<1>7. Types'
  BY <1>1, <1>3, <1>6 DEF Types
<1>8. pc' # "exit" => Passes'
  BY <1>1, <1>2, <1>3, <1>6, TypesAre DEF Passes, Listing, ConvertedTo, ListedTo
<1>9. pc' # "exit" => Opened'
  BY <1>3, <1>5, <1>6 DEF Opened, Listing
<1>10. QED
  BY <1>7, <1>8, <1>9 DEF Base0

LEMMA EntryType ==
    ASSUME Types, at \in DOMAIN fdlist, NEW a \in Name, NEW r \in Name, NEW t \in Name
    PROVE  Entry(a, r, t) \in EntryRec
<1>1. fdlist[at].filename \in Name /\ fdlist[at].opset.opmask \in SUBSET Bits /\ at + 1 \in Nat
  BY AtFileIs, TypesAre
<1>2. (IF at < Len(fdlist) THEN at + 1 ELSE 0) \in Nat
  BY <1>1
<1>3. (fdlist[at].opset.opmask \ {"CACHE", "NOWARN"}) \in SUBSET Bits
  BY <1>1
<1>4. QED
  BY <1>1, <1>2, <1>3 DEF Entry, EntryRec

\* A file with a stub: the prototype is put into the header, the stub into the code file.
LEMMA StubOuts ==
    ASSUME Types, Opened, Listing, NEW p \in ItemRec, NEW s \in Seq(ItemRec)
    PROVE  LET put == Put(outputfiles, def.hdrfile, << p >>)
           IN  /\ PutIn(outputfiles, put) /\ PutIn(put, Put(put, CodeFile, s))
               /\ Matches(outputfiles, def.hdrfile) # {} /\ Matches(put, CodeFile) # {}
               /\ put \in Seq(OutRec) /\ << p >> \in Seq(ItemRec)
<1>1. outputfiles \in Seq(OutRec) /\ Matches(outputfiles, def.hdrfile) # {} /\ Matches(outputfiles, CodeFile) # {}
  BY TypesAre DEF Opened, Listing
<1>2. << p >> \in Seq(ItemRec)
  BY OneItem
<1>3. PICK put : put = Put(outputfiles, def.hdrfile, << p >>)
  OBVIOUS
<1>4. PutIn(outputfiles, put)
  BY <1>1, <1>2, <1>3, PutTypes
<1>5. put \in Seq(OutRec) /\ Matches(put, CodeFile) # {}
  BY <1>1, <1>4 DEF PutIn
<1>6. PutIn(put, Put(put, CodeFile, s))
  BY <1>5, PutTypes
<1>7. QED
  BY <1>1, <1>2, <1>3, <1>4, <1>5, <1>6

StubType(f) == IF "FORM" \in f.opset.opmask THEN "text" ELSE "int"

LEMMA StubItemsAre ==
    ASSUME Types, at \in DOMAIN fdlist, NEW type \in ItemType
    PROVE  LET r == fdlist[at].opset.routine
           IN  /\ IsItem(Typed("proto", r, at, type), "proto", r, at, type)
               /\ IsItem(Typed("stub", r, at, type), "stub", r, at, type)
               /\ Typed("proto", r, at, type) \in ItemRec /\ Typed("stub", r, at, type) \in ItemRec
<1>1. PICK r \in Name : r = fdlist[at].opset.routine
  BY AtFileIs
<1>2. at \in Nat /\ "proto" \in Kinds /\ "stub" \in Kinds
  BY TypesAre DEF Kinds
<1>3. IsItem(Typed("proto", r, at, type), "proto", r, at, type) /\ IsItem(Typed("stub", r, at, type), "stub", r, at, type)
  BY <1>2, TypedIs
<1>4. QED
  BY <1>1, <1>3 DEF IsItem

\* What the four ways to write an entry have in common.
EntryStep ==
    /\ \E e \in EntryRec : efslist' = Append(efslist, e)
    /\ at' = at + 1
    /\ UNCHANGED << pc, def, optionTmp, fdlist, currentform, references, lines, read >>
    /\ formlist' \in Seq(FormRec) /\ Len(formlist') = Len(formlist)
    /\ PutIn(outputfiles, outputfiles')
    /\ warned' \in SUBSET [warning : {"unreffed", "no handler"}, name : Name]

LEMMA BaseEntry ==
    ASSUME Types, Passes, Opened, AtFile, EntryStep
    PROVE  Base0'
<1> PICK e \in EntryRec : efslist' = Append(efslist, e)
  BY DEF EntryStep
<1> at' = at + 1 /\ UNCHANGED << pc, def, optionTmp, fdlist, currentform, references, lines, read >>
  BY DEF EntryStep
<1>1. pc = "efs" /\ at <= Len(fdlist)
  BY DEF AtFile
<1>2. efslist' \in Seq(EntryRec) /\ Len(efslist') = Len(efslist) + 1 /\ at' \in Nat
  <2>1. efslist \in Seq(EntryRec) /\ at \in Nat
    BY TypesAre
  <2>2. Append(efslist, e) \in Seq(EntryRec) /\ Len(Append(efslist, e)) = Len(efslist) + 1
    BY <2>1, OneMore
  <2>3. QED
    BY <2>1, <2>2
<1>3. Types'
  <2>1. outputfiles' \in Seq(OutRec) /\ formlist' \in Seq(FormRec) /\ Len(formlist') = Len(formlist)
    BY DEF EntryStep, PutIn
  <2>2. warned' \in SUBSET [warning : {"unreffed", "no handler"}, name : Name]
    BY DEF EntryStep
  <2>3. QED
    BY <1>2, <2>1, <2>2, TypesAre DEF Types
<1>4. Passes'
  <2>1. Len(fdlist) \in Nat /\ at \in Nat /\ at \in 1 .. Len(fdlist) + 1
    BY <1>1, TypesAre DEF Passes
  <2>2. Len(read) = Len(fdlist) /\ Len(efslist) = at - 1 /\ ~optionTmp.failed
    BY <1>1 DEF Passes, Listing, ConvertedTo, ListedTo
  <2>3. at' \in 1 .. Len(fdlist) + 1 /\ Len(efslist') = at' - 1
    BY <1>1, <1>2, <2>1, <2>2
  <2>4. pc' = "efs" /\ Listing' /\ ConvertedTo' = Len(fdlist) /\ ListedTo' = at' - 1
    BY <1>1 DEF Listing, ConvertedTo, ListedTo
  <2>5. QED
    BY <2>2, <2>3, <2>4 DEF Passes
<1>5. Opened'
  BY <1>1 DEF Opened, Listing, EntryStep, PutIn
<1>6. QED
  BY <1>3, <1>4, <1>5 DEF Base0

LEMMA InList ==
    ASSUME Types, Passes, AtFile
    PROVE  at \in DOMAIN fdlist /\ Listing
BY TypesAre DEF Passes, AtFile, Listing

LEMMA BasePlain ==
    ASSUME Base0, ArrayEntry \/ ExpressionEntry
    PROVE  Base0'
<1>1. Types /\ Passes /\ Opened /\ AtFile
  BY DEF Base0, ArrayEntry, ExpressionEntry, AtFile
<1>2. at \in DOMAIN fdlist
  BY <1>1, InList
<1>3. /\ at' = at + 1
      /\ UNCHANGED << pc, def, optionTmp, fdlist, formlist, currentform, references, outputfiles, warned, lines, read >>
  BY DEF ArrayEntry, ExpressionEntry
<1>4. <<>> \in Name /\ fdlist[at].caname \in Name /\ Token(at) \in Name
  <2>1. <<>> \in Name
    BY DEF Name
  <2>2. QED
    BY <1>1, <1>2, <2>1, AtFileIs
<1>5. \E e \in EntryRec : efslist' = Append(efslist, e)
  <2>1. CASE ArrayEntry
    <3>1. Entry(fdlist[at].caname, <<>>, <<>>) \in EntryRec
      BY <1>1, <1>2, <1>4, EntryType
    <3>2. QED
      BY <2>1, <3>1 DEF ArrayEntry
  <2>2. CASE ExpressionEntry
    <3>1. Entry(<<>>, <<>>, Token(at)) \in EntryRec
      BY <1>1, <1>2, <1>4, EntryType
    <3>2. QED
      BY <2>2, <3>1 DEF ExpressionEntry
  <2>3. QED
    BY <2>1, <2>2
<1>6. formlist \in Seq(FormRec) /\ outputfiles \in Seq(OutRec) /\ warned \in SUBSET [warning : {"unreffed", "no handler"}, name : Name]
  BY <1>1 DEF Types
<1>7. formlist' \in Seq(FormRec) /\ Len(formlist') = Len(formlist) /\ PutIn(outputfiles, outputfiles')
      /\ warned' \in SUBSET [warning : {"unreffed", "no handler"}, name : Name]
  BY <1>3, <1>6 DEF PutIn
<1>8. EntryStep
  BY <1>3, <1>5, <1>7 DEF EntryStep
<1>9. QED
  BY <1>1, <1>8, BaseEntry

LEMMA BaseStub ==
    ASSUME Base0, StubEntry \/ FormEntry
    PROVE  Base0'
<1>1. Types /\ Passes /\ Opened /\ AtFile
  BY DEF Base0, StubEntry, FormEntry, AtFile
<1>2. at \in DOMAIN fdlist /\ Listing
  BY <1>1, InList
<1> DEFINE f == fdlist[at]
           r == f.opset.routine
<1>3. at' = at + 1 /\ UNCHANGED << pc, def, optionTmp, fdlist, currentform, references, lines, read >>
      /\ efslist' = Append(efslist, Entry(<<>>, r, <<>>))
  BY DEF StubEntry, FormEntry
<1>4. Entry(<<>>, r, <<>>) \in EntryRec
  <2>1. <<>> \in Name
    BY DEF Name
  <2>2. r \in Name
    BY <1>1, <1>2, AtFileIs
  <2>3. QED
    BY <1>1, <1>2, <2>1, <2>2, EntryType
<1>5. warned \in SUBSET [warning : {"unreffed", "no handler"}, name : Name] /\ formlist \in Seq(FormRec)
  BY <1>1 DEF Types
<1>6. /\ formlist' \in Seq(FormRec) /\ Len(formlist') = Len(formlist)
      /\ PutIn(outputfiles, outputfiles')
      /\ warned' \in SUBSET [warning : {"unreffed", "no handler"}, name : Name]
  <2>1. \A p \in ItemRec, s \in ItemRec :
           outputfiles' = Put(Put(outputfiles, def.hdrfile, << p >>), CodeFile, << s >>) =>
              PutIn(outputfiles, outputfiles')
    <3> SUFFICES ASSUME NEW p \in ItemRec, NEW s \in ItemRec,
                        outputfiles' = Put(Put(outputfiles, def.hdrfile, << p >>), CodeFile, << s >>)
                 PROVE  PutIn(outputfiles, outputfiles')
      OBVIOUS
    <3>1. << s >> \in Seq(ItemRec)
      BY OneItem
    <3>2. PICK put : put = Put(outputfiles, def.hdrfile, << p >>)
      OBVIOUS
    <3>3. PutIn(outputfiles, put) /\ PutIn(put, outputfiles')
      BY <1>1, <1>2, <3>1, <3>2, StubOuts
    <3>4. QED
      BY <3>3 DEF PutIn
  <2>2. CASE StubEntry
    <3> DEFINE type == StubType(f)
    <3>1. type \in ItemType /\ "int" \in ItemType
      BY DEF ItemType, StubType
    <3>2. Typed("proto", r, at, type) \in ItemRec /\ Typed("stub", r, at, "int") \in ItemRec
      <4> HIDE DEF type
      <4>1. QED
        BY <1>1, <1>2, <3>1, StubItemsAre
    <3>3. /\ outputfiles' = Put(Put(outputfiles, def.hdrfile, << Typed("proto", r, at, type) >>),
                              CodeFile, << Typed("stub", r, at, "int") >>)
          /\ formlist' = formlist /\ warned' = warned
      BY <2>2 DEF StubEntry, StubType
    <3> HIDE DEF type, r
    <3>4. QED
      BY <1>5, <2>1, <3>2, <3>3
  <2>3. CASE FormEntry
    <3>1. PICK b : b = bldform(f)
      OBVIOUS
    <3>2. /\ outputfiles' = Put(Put(outputfiles, def.hdrfile, << Typed("proto", r, at, "text") >>), CodeFile, << b.stub >>)
          /\ formlist' = b.forms
          /\ warned' = warned \cup (IF b.warn THEN {[warning |-> "unreffed", name |-> f.filename]} ELSE {})
      BY <2>3, <3>1 DEF FormEntry
    <3>3. b.stub \in ItemRec /\ b.forms \in Seq(FormRec) /\ Len(b.forms) = Len(formlist)
      BY <1>1, <1>2, <3>1, BldformIs DEF IsItem
    <3>4. Typed("proto", r, at, "text") \in ItemRec
      <4>1. "text" \in ItemType
        BY DEF ItemType
      <4>2. QED
        BY <1>1, <1>2, <4>1, StubItemsAre
    <3>5. f.filename \in Name
      BY <1>1, <1>2, AtFileIs
    <3> HIDE DEF f, r
    <3>6. warned' \in SUBSET [warning : {"unreffed", "no handler"}, name : Name]
      <4>1. [warning |-> "unreffed", name |-> f.filename] \in [warning : {"unreffed", "no handler"}, name : Name]
        BY <3>5
      <4>2. QED
        BY <1>5, <3>2, <4>1
    <3>7. QED
      BY <2>1, <3>2, <3>3, <3>4, <3>6
  <2>4. QED
    BY <2>2, <2>3
<1>7. EntryStep
  BY <1>3, <1>4, <1>6 DEF EntryStep
<1>8. QED
  BY <1>1, <1>7, BaseEntry

LEMMA BaseSwitch ==
    ASSUME Base0, BuildSwitch
    PROVE  Base0'
<1>1. Types /\ Passes /\ Opened /\ pc = "efs" /\ at > Len(fdlist)
  BY DEF Base0, BuildSwitch
<1>2. /\ outputfiles' = Put(Put(outputfiles, CodeFile, TokenItems("case")), def.hdrfile, TokenItems("define"))
      /\ pc' = "forms"
      /\ UNCHANGED << def, optionTmp, fdlist, at, formlist, currentform, references, efslist, warned, lines, read >>
  BY DEF BuildSwitch
<1>3. TokenItems("case") \in Seq(ItemRec) /\ TokenItems("define") \in Seq(ItemRec)
  <2>1. "case" \in Kinds /\ "define" \in Kinds
    BY DEF Kinds
  <2>2. QED
    BY <1>1, <2>1, TokenItemsType
<1>4. PICK put : put = Put(outputfiles, CodeFile, TokenItems("case"))
  OBVIOUS
<1>5. outputfiles \in Seq(OutRec) /\ Matches(outputfiles, CodeFile) # {} /\ Matches(outputfiles, def.hdrfile) # {}
  BY <1>1, TypesAre DEF Opened, Listing
<1>6. PutIn(outputfiles, put)
  BY <1>3, <1>4, <1>5, PutTypes
<1>7. put \in Seq(OutRec) /\ Matches(put, def.hdrfile) # {}
  BY <1>5, <1>6 DEF PutIn
<1>8. PutIn(put, outputfiles')
  BY <1>2, <1>3, <1>4, <1>7, PutTypes
<1>9. outputfiles' \in Seq(OutRec) /\ \A m : Matches(outputfiles', m) = Matches(outputfiles, m)
  BY <1>6, <1>8 DEF PutIn
<1>10. Types'
  BY <1>1, <1>2, <1>9, TypesAre DEF Types
<1>11. Passes'
  BY <1>1, <1>2, TypesAre DEF Passes, Listing, ConvertedTo, ListedTo
<1>12. Opened'
  BY <1>1, <1>2, <1>5, <1>9 DEF Opened, Listing
<1>13. QED
  BY <1>10, <1>11, <1>12 DEF Base0

LEMMA BaseForms ==
    ASSUME Base0, CheckForms
    PROVE  Base0'
<1>1. Types /\ Passes /\ Opened /\ pc = "forms"
  BY DEF Base0, CheckForms
<1>2. pc' = "done" /\ UNCHANGED << def, optionTmp, fdlist, at, formlist, currentform, references, outputfiles,
                                  efslist, lines, read >>
  BY DEF CheckForms
<1>3. \E T \in SUBSET DOMAIN formlist : warned' = warned \cup {[warning |-> "no handler", name |-> formlist[k].action] : k \in T}
  BY DEF CheckForms
<1>4. \A k \in DOMAIN formlist : formlist[k].action \in Name
  <2>1. \A k \in DOMAIN formlist : formlist[k] \in FormRec
    BY <1>1, TypesAre
  <2>2. QED
    BY <2>1 DEF FormRec
<1>5. warned \in SUBSET [warning : {"unreffed", "no handler"}, name : Name]
  BY <1>1 DEF Types
<1>6. warned' \in SUBSET [warning : {"unreffed", "no handler"}, name : Name]
  <2>1. \A k \in DOMAIN formlist :
           [warning |-> "no handler", name |-> formlist[k].action] \in [warning : {"unreffed", "no handler"}, name : Name]
    BY <1>4
  <2>2. QED
    BY <1>3, <1>5, <2>1
<1>7. Types'
  BY <1>1, <1>2, <1>6 DEF Types
<1>8. Passes' /\ Opened'
  BY <1>1, <1>2 DEF Passes, Opened, Listing, ConvertedTo, ListedTo
<1>9. QED
  BY <1>7, <1>8 DEF Base0

LEMMA Base0Next == Base0 /\ [Next]_vars => Base0'
<1> SUFFICES ASSUME Base0, [Next]_vars PROVE Base0'
  OBVIOUS
<1>1. CASE Next
  BY <1>1, BaseArgs, BaseLine, BaseEnd, BaseSkip, BaseConvert, BaseDefaults, BasePlain, BaseStub, BaseSwitch, BaseForms DEF Next
<1>2. CASE UNCHANGED vars
  BY <1>2 DEF vars, Base0, Types, Passes, Opened, Listing, ConvertedTo, ListedTo
<1>3. QED
  BY <1>1, <1>2

----------------------------------------------------------------------------
(* The expressions, the names of the arrays and the entries *)

LEMMA ExpressionsNext ==
    ASSUME Base0, Base0', pc # "exit", pc' # "exit", Expressions, Next
    PROVE  Expressions'
<1>1. Types /\ Passes /\ Types' /\ Passes'
  BY DEF Base0
<1>2. /\ DOMAIN fdlist = 1 .. Len(fdlist) /\ Len(fdlist) \in Nat /\ at \in Nat
      /\ lines \in Seq(Line) /\ Len(lines) = Len(fdlist)
  BY <1>1, TypesAre
<1>3. ASSUME NEW argv \in CommandLines, parseargs(argv)
      PROVE  Expressions'
  <2> DEFINE o == [optionTmp EXCEPT !.opmask = {}, !.datafile = DataFile, !.hdrfile = HdrFile]
             y == TakeArgs(o, argv, CmdOptions)
  <2>1. o \in OptionSet /\ o.opmask = {}
    <3>1. optionTmp \in OptionSet
      BY <1>1, TypesAre
    <3>2. DataFile \in Name /\ HdrFile \in Name
      BY ListAssumption
    <3>3. QED
      BY <3>1, <3>2 DEF OptionSet
  <2>2. argv \in Seq(Word)
    BY ListAssumption
  <2>3. def'.mask = y.opmask /\ pc' = (IF y.failed THEN "exit" ELSE "list") /\ fdlist' = fdlist /\ pc = "args"
    BY <1>3 DEF parseargs
  <2> HIDE DEF o
  <2>4. ~y.failed => y.opmask \subseteq {"AUTH", "CACHE"}
    BY <2>1, <2>2, CommandTaken
  <2>5. y.failed \in BOOLEAN
    BY <2>1, <2>2, ArgsTypes, Allowed DEF OptionSet
  <2> HIDE DEF y
  <2>6. def'.mask \subseteq {"AUTH", "CACHE"}
    BY <2>3, <2>4, <2>5
  <2>7. DOMAIN fdlist' = {}
    BY <1>1, <2>3 DEF Passes
  <2>8. QED
    BY <2>6, <2>7 DEF Expressions
<1>4. ASSUME NEW line \in Lines, ReadLine(line)
      PROVE  Expressions'
  <2>1. PICK y : y = TakeArgs(Defaults(optionTmp), line.args, FileOptions)
    OBVIOUS
  <2>2. /\ lines' = Append(lines, line) /\ fdlist' = Append(fdlist, FileData(line, y)) /\ def' = def
        /\ pc' = IF y.failed THEN "exit" ELSE "list"
    BY <1>4, <2>1 DEF ReadLine
  <2>3. /\ line \in Line /\ line.args \in Seq(Word) /\ y \in OptionSet /\ FileData(line, y) \in FileRec
        /\ FileData(line, y).filename = line.name /\ FileData(line, y).ccode = y.ccode
        /\ FileData(line, y).opset.opmask = y.opmask
    BY <1>1, <2>1, LineRead
  <2>4. y.ccode <=> "CEXP" \in y.opmask
    <3>1. /\ Defaults(optionTmp) \in OptionSet
          /\ Defaults(optionTmp).ccode <=> "CEXP" \in Defaults(optionTmp).opmask
      BY <1>1, DefaultsType DEF Expressions
    <3>2. ~y.failed
      BY <2>2, <2>3 DEF OptionSet
    <3>3. QED
      BY <2>1, <2>3, <3>1, <3>2, LineTaken
  <2>5. /\ DOMAIN fdlist' = 1 .. Len(fdlist) + 1 /\ fdlist'[Len(fdlist) + 1] = FileData(line, y)
        /\ \A n \in 1 .. Len(fdlist) : fdlist'[n] = fdlist[n]
    BY <1>1, <2>2, <2>3, TypesAre, OneMore
  <2>6. lines'[Len(fdlist) + 1] = line /\ \A n \in 1 .. Len(fdlist) : lines'[n] = lines[n]
    BY <1>2, <2>2, <2>3, OneMore
  <2>7. pc' = "list"
    BY <2>2
  <2>8. ConvertedTo' = 0
    BY <2>7 DEF ConvertedTo, Listing
  <2>9. ASSUME NEW n \in DOMAIN fdlist'
        PROVE  /\ fdlist'[n].filename = lines'[n].name /\ (fdlist'[n].ccode <=> "CEXP" \in fdlist'[n].opset.opmask)
               /\ ~(n <= ConvertedTo')
    <3>1. n \in 1 .. Len(fdlist) \/ n = Len(fdlist) + 1
      BY <1>2, <2>5
    <3>2. n \in 1 .. Len(fdlist) + 1
      BY <2>5
    <3>3. ~(n <= ConvertedTo')
      BY <1>2, <2>8, <3>2
    <3>4. QED
      BY <1>2, <2>3, <2>4, <2>5, <2>6, <3>1, <3>3 DEF Expressions
  <2>10. QED
    BY <2>2, <2>9 DEF Expressions
<1>5. CASE EndOfList
  <2>1. UNCHANGED << fdlist, lines, def >> /\ ConvertedTo' = 0
    BY <1>5 DEF EndOfList, ConvertedTo, Listing
  <2>2. \A n \in DOMAIN fdlist : ~(n <= 0)
    BY <1>2
  <2>3. QED
    BY <2>1, <2>2 DEF Expressions
<1>6. CASE SkipFile
  <2>1. UNCHANGED << fdlist, lines, def >> /\ ConvertedTo' = at /\ ConvertedTo = at - 1 /\ ~Binary(fdlist[at])
    BY <1>2, <1>6 DEF SkipFile, ConvertedTo
  <2>2. \A n \in DOMAIN fdlist : n <= at => n <= at - 1 \/ n = at
    BY <1>2
  <2>3. QED
    BY <2>1, <2>2 DEF Expressions
<1>7. ASSUME NEW content \in Contents, NEW fill \in Fills(content), ConvertFile(content, fill)
      PROVE  Expressions'
  <2>1. UNCHANGED << lines, def >> /\ pc = "convert" /\ at' = at + 1
        /\ fdlist' = [fdlist EXCEPT ![at].caname = mk_cname(fdlist[at].filename, at)]
        /\ pc' \in {"exit", "convert"}
    BY <1>7 DEF ConvertFile
  <2>2. ConvertedTo' = at /\ ConvertedTo = at - 1
    BY <1>2, <2>1 DEF ConvertedTo
  <2>3. at \in DOMAIN fdlist
    BY <1>1, <1>2, <1>7 DEF Passes, ConvertFile
  <2>4. fdlist[at] \in FileRec
    BY <1>1, <2>3, AtFileIs
  <2>5. /\ DOMAIN fdlist' = DOMAIN fdlist /\ \A n \in DOMAIN fdlist : n # at => fdlist'[n] = fdlist[n]
        /\ fdlist'[at] = [fdlist[at] EXCEPT !.caname = mk_cname(fdlist[at].filename, at)]
    BY <2>1, <2>3
  <2>6. /\ fdlist'[at].caname = mk_cname(fdlist'[at].filename, at) /\ fdlist'[at].filename = fdlist[at].filename
        /\ fdlist'[at].ccode = fdlist[at].ccode /\ fdlist'[at].opset = fdlist[at].opset
    BY <2>4, <2>5 DEF FileRec
  <2>7. \A n \in DOMAIN fdlist : n <= at => n <= at - 1 \/ n = at
    BY <1>2
  <2>8. ASSUME NEW n \in DOMAIN fdlist'
        PROVE  /\ fdlist'[n].filename = lines'[n].name /\ (fdlist'[n].ccode <=> "CEXP" \in fdlist'[n].opset.opmask)
               /\ n <= ConvertedTo' /\ Binary(fdlist'[n]) => fdlist'[n].caname = mk_cname(fdlist'[n].filename, n)
    BY <2>1, <2>2, <2>5, <2>6, <2>7 DEF Expressions
  <2>9. QED
    BY <2>1, <2>8 DEF Expressions
<1>8. CASE OpenDefaults
  <2>1. UNCHANGED << fdlist, lines, def >> /\ pc' = "efs" /\ pc = "convert" /\ at > Len(fdlist)
    BY <1>8 DEF OpenDefaults
  <2>2. ConvertedTo' = ConvertedTo
    BY <1>1, <1>2, <2>1 DEF Passes, ConvertedTo, Listing
  <2>3. QED
    BY <2>1, <2>2 DEF Expressions
<1>9. CASE ArrayEntry \/ ExpressionEntry \/ StubEntry \/ FormEntry \/ BuildSwitch \/ CheckForms
  <2>1. UNCHANGED << fdlist, lines, def >> /\ Listing /\ Listing'
    BY <1>9 DEF ArrayEntry, ExpressionEntry, StubEntry, FormEntry, BuildSwitch, CheckForms, AtFile, Listing
  <2>2. ConvertedTo' = ConvertedTo
    BY <2>1 DEF ConvertedTo, Listing
  <2>3. QED
    BY <2>1, <2>2 DEF Expressions
<1>10. CASE GiveUp
  BY <1>10 DEF GiveUp
<1>11. QED
  BY <1>3, <1>4, <1>5, <1>6, <1>7, <1>8, <1>9, <1>10 DEF Next

LEMMA EntriesNext ==
    ASSUME Base0, Base0', pc # "exit", pc' # "exit", Entries, Next
    PROVE  Entries'
<1>1. Types /\ Passes /\ Types' /\ Passes'
  BY DEF Base0
<1>2. /\ DOMAIN fdlist = 1 .. Len(fdlist) /\ Len(fdlist) \in Nat /\ at \in Nat
      /\ efslist \in Seq(EntryRec)
  BY <1>1, TypesAre
<1>3. CASE ArrayEntry \/ ExpressionEntry \/ StubEntry \/ FormEntry
  <2>1. UNCHANGED fdlist /\ pc = "efs" /\ pc' = "efs" /\ at' = at + 1 /\ at \in DOMAIN fdlist /\ AtFile
    BY <1>1, <1>2, <1>3 DEF ArrayEntry, ExpressionEntry, StubEntry, FormEntry, AtFile, Passes
  <2>2. ListedTo = at - 1 /\ ListedTo' = at
    BY <1>2, <2>1 DEF ListedTo
  <2>3. \A n : EntryFor(n)' = EntryFor(n)
    BY <2>1 DEF EntryFor, Routed, Token
  <2>4. efslist' = Append(efslist, EntryFor(at))
    <3> DEFINE f == fdlist[at]
               m == f.opset.opmask
    <3>1. CASE ArrayEntry
      <4>1. Binary(f)
        BY <3>1 DEF ArrayEntry
      <4>2. Routed(at) = {} /\ m \cap NON_BINARY_FILE # {"CEXP"}
        BY <4>1 DEF Binary, NON_BINARY_FILE, Routed, Routines
      <4>3. EntryFor(at) = Entry(f.caname, <<>>, <<>>)
        BY <4>1, <4>2 DEF EntryFor, Entry
      <4>4. QED
        BY <3>1, <4>3 DEF ArrayEntry
    <3>2. CASE ExpressionEntry
      <4>1. m \cap NON_BINARY_FILE = {"CEXP"}
        BY <3>2 DEF ExpressionEntry
      <4>2. Routed(at) = {} /\ ~Binary(f)
        BY <4>1 DEF Binary, NON_BINARY_FILE, Routed, Routines
      <4>3. EntryFor(at) = Entry(<<>>, <<>>, Token(at))
        BY <4>1, <4>2 DEF EntryFor, Entry
      <4>4. QED
        BY <3>2, <4>3 DEF ExpressionEntry
    <3>3. CASE StubEntry \/ FormEntry
      <4>1. m \cap {"SSI", "PUSH", "FORM"} # {}
        BY <3>3 DEF StubEntry, FormEntry, Routines
      <4>2. Routed(at) # {} /\ ~Binary(f) /\ m \cap NON_BINARY_FILE # {"CEXP"}
        BY <4>1 DEF Binary, NON_BINARY_FILE, Routed, Routines
      <4>3. EntryFor(at) = Entry(<<>>, f.opset.routine, <<>>)
        BY <4>2 DEF EntryFor, Entry
      <4>4. QED
        BY <3>3, <4>3 DEF StubEntry, FormEntry
    <3>4. QED
      BY <1>3, <3>1, <3>2, <3>3
  <2>5. Len(efslist) = at - 1
    BY <1>1, <2>2 DEF Passes
  <2>6. EntryFor(at) \in EntryRec
    <3>2. efslist' \in Seq(EntryRec) /\ Len(efslist') = at
      BY <1>1, <2>2 DEF Types, Passes
    <3>3. efslist'[at] \in EntryRec
      BY <1>2, <2>1, <3>2
    <3>4. efslist'[at] = EntryFor(at)
      BY <1>2, <2>1, <2>4, <2>5
    <3>5. QED
      BY <3>3, <3>4
  <2>7. efslist'[at] = EntryFor(at) /\ \A n \in 1 .. at - 1 : efslist'[n] = efslist[n]
    BY <1>2, <2>1, <2>4, <2>5, <2>6, OneMore
  <2>8. \A n \in 1 .. at : n \in 1 .. at - 1 \/ n = at
    BY <1>2
  <2>9. QED
    BY <2>2, <2>3, <2>7, <2>8 DEF Entries
<1>4. CASE pc' \notin {"efs", "forms", "done"}
  BY <1>4 DEF Entries, ListedTo
<1>5. CASE OpenDefaults
  <2>1. ListedTo' = 0
    BY <1>5 DEF OpenDefaults, ListedTo
  <2>2. QED
    BY <2>1 DEF Entries
<1>6. CASE BuildSwitch \/ CheckForms
  <2>1. UNCHANGED << fdlist, efslist >> /\ ListedTo' = ListedTo
    BY <1>1, <1>2, <1>6 DEF BuildSwitch, CheckForms, ListedTo, Passes
  <2>2. \A n : EntryFor(n)' = EntryFor(n)
    BY <2>1 DEF EntryFor, Routed, Token
  <2>3. QED
    BY <2>1, <2>2 DEF Entries
<1>7. QED
  BY <1>3, <1>4, <1>5, <1>6 DEF Next, parseargs, ReadLine, EndOfList, GiveUp, SkipFile, ConvertFile

----------------------------------------------------------------------------
(* What is written *)

LEMMA PutOne ==
    ASSUME NEW outs \in Seq(OutRec), NEW name, Matches(outs, name) # {}, NEW x \in ItemRec,
           NEW kind, NEW R, Recorded(outs, kind, R)
    PROVE  /\ x.item # kind => Recorded(Put(outs, name, << x >>), kind, R)
           /\ x.item = kind /\ (\A r \in R : x.of # r.of) => Recorded(Put(outs, name, << x >>), kind, R \cup {x})
<1>1. PICK items \in Seq(ItemRec) : items = << x >>
  BY OneItem
<1>2. Len(items) = 1 /\ items[1] = x /\ 1 .. 1 = {1}
  BY <1>1
<1>3. CASE x.item # kind
  <2>1. NewItems(items, kind) = {}
    BY <1>2, <1>3 DEF NewItems
  <2>2. Recorded(Put(outs, name, items), kind, R \cup {items[k] : k \in NewItems(items, kind)})
    BY <2>1, PutRecords
  <2>3. R \cup {items[k] : k \in NewItems(items, kind)} = R
    BY <2>1
  <2>4. QED
    BY <1>1, <1>3, <2>2, <2>3
<1>4. CASE x.item = kind /\ (\A r \in R : x.of # r.of)
  <2>1. NewItems(items, kind) = {1}
    BY <1>2, <1>4 DEF NewItems
  <2>2. Recorded(Put(outs, name, items), kind, R \cup {items[k] : k \in NewItems(items, kind)})
    BY <1>2, <1>4, <2>1, PutRecords
  <2>3. {items[k] : k \in NewItems(items, kind)} = {x}
    BY <1>2, <2>1
  <2>4. QED
    BY <1>1, <1>4, <2>2, <2>3
<1>5. QED
  BY <1>3, <1>4

LEMMA NothingRecorded == \A kind : Recorded(<<>>, kind, {})
<1>1. \A kind : ItemsIn(<<>>, kind) = {}
  BY DEF ItemsIn
<1>2. QED
  BY <1>1 DEF Recorded

LEMMA ArrayItemsOf ==
    ASSUME NEW kind
    PROVE  \A r \in ArrayItems(kind) : r.of \in DOMAIN fdlist /\ r.of <= ConvertedTo
<1>1. \A n : Item(kind, fdlist[n].caname, n).of = n
  BY DEF Item
<1>2. QED
  BY <1>1 DEF ArrayItems

LEMMA StubItemsOf ==
    /\ \A r \in ProtoItems : r.of \in DOMAIN fdlist /\ r.of <= ListedTo
    /\ \A r \in StubItems : r.of \in DOMAIN fdlist /\ r.of <= ListedTo
BY DEF ProtoItems, StubItems, ProtoOf, StubOf, Handlers, Typed, Item

\* The next array, with its declaration.
LEMMA ArrayItemsMore ==
    ASSUME Base0, NEW kind, NEW content, NEW fill, ConvertFile(content, fill)
    PROVE  /\ pc' # "exit" => ArrayItems(kind)' = ArrayItems(kind) \cup {Item(kind, mk_cname(fdlist[at].filename, at), at)}
           /\ \A r \in ArrayItems(kind) : r.of # at
<1>1. Types /\ Passes /\ pc = "convert" /\ at <= Len(fdlist)
  BY DEF Base0, ConvertFile
<1>2. /\ DOMAIN fdlist = 1 .. Len(fdlist) /\ Len(fdlist) \in Nat /\ at \in Nat /\ at \in DOMAIN fdlist
  BY <1>1, TypesAre DEF Passes
<1>3. ConvertedTo = at - 1
  BY <1>1 DEF ConvertedTo
<1>4. \A r \in ArrayItems(kind) : r.of # at
  <2>1. \A r \in ArrayItems(kind) : r.of \in DOMAIN fdlist /\ r.of <= ConvertedTo
    BY ArrayItemsOf
  <2>2. \A n \in DOMAIN fdlist : n <= at - 1 => n # at
    BY <1>2
  <2>3. QED
    BY <1>3, <2>1, <2>2
<1>5. ASSUME pc' # "exit"
      PROVE  ArrayItems(kind)' = ArrayItems(kind) \cup {Item(kind, mk_cname(fdlist[at].filename, at), at)}
  <2> DEFINE cname == mk_cname(fdlist[at].filename, at)
  <2>1. fdlist' = [fdlist EXCEPT ![at].caname = cname] /\ Binary(fdlist[at]) /\ at' = at + 1 /\ pc' = "convert"
    BY <1>1, <1>5 DEF ConvertFile
  <2>2. ConvertedTo' = at
    BY <1>2, <2>1 DEF ConvertedTo
  <2>3. fdlist[at] \in FileRec
    BY <1>1, <1>2, AtFileIs
  <2> HIDE DEF cname
  <2>4. /\ DOMAIN fdlist' = DOMAIN fdlist /\ \A n \in DOMAIN fdlist : n # at => fdlist'[n] = fdlist[n]
        /\ fdlist'[at] = [fdlist[at] EXCEPT !.caname = cname]
    BY <1>2, <2>1
  <2>5. fdlist'[at].caname = cname /\ fdlist'[at].opset = fdlist[at].opset
    BY <2>3, <2>4 DEF FileRec
  <2>6. Binary(fdlist'[at])
    BY <2>1, <2>5 DEF Binary
  <2>7. \A n \in DOMAIN fdlist : n <= at <=> n <= at - 1 \/ n = at
    BY <1>2
  <2>8. {m \in DOMAIN fdlist' : m <= ConvertedTo' /\ Binary(fdlist'[m])}
          = {m \in DOMAIN fdlist : m <= ConvertedTo /\ Binary(fdlist[m])} \cup {at}
    <3>1. \A n \in DOMAIN fdlist : (n <= at - 1) => n # at
      BY <1>2
    <3>2. QED
      BY <1>2, <1>3, <2>1, <2>2, <2>4, <2>6, <2>7, <3>1
  <2>9. \A n \in {m \in DOMAIN fdlist : m <= ConvertedTo /\ Binary(fdlist[m])} : fdlist'[n].caname = fdlist[n].caname
    <3>1. \A n \in DOMAIN fdlist : (n <= at - 1) => n # at
      BY <1>2
    <3>2. QED
      BY <1>3, <2>4, <3>1
  <2>10. ArrayItems(kind)' = {Item(kind, fdlist'[n].caname, n) : n \in {m \in DOMAIN fdlist' : m <= ConvertedTo' /\ Binary(fdlist'[m])}}
    BY DEF ArrayItems, Item
  <2>11. QED
    BY <2>5, <2>8, <2>9, <2>10 DEF ArrayItems, cname
<1>6. QED
  BY <1>4, <1>5

\* The pass over the list writes nothing but stubs and prototypes.
StubsMore(n) ==
    /\ ProtoItems' = ProtoItems \cup {ProtoOf(n)} /\ StubItems' = StubItems \cup {StubOf(n)}
    /\ \A r \in ProtoItems \cup StubItems : r.of # n

\* The controls and actions of the forms stay.
FormsStay ==
    /\ DOMAIN formlist' = DOMAIN formlist
    /\ \A k \in DOMAIN formlist : formlist'[k].action = formlist[k].action /\ formlist'[k].controls = formlist[k].controls

LEMMA StubStays ==
    ASSUME fdlist' = fdlist, FormsStay, Types, NEW n
    PROVE  StubOf(n)' = StubOf(n) /\ ProtoOf(n)' = ProtoOf(n) /\ FormOf(fdlist[n].filename)' = FormOf(fdlist[n].filename)
<1>1. ProtoOf(n)' = ProtoOf(n) /\ Routed(n)' = Routed(n)
  BY DEF ProtoOf, Routed
<1> DEFINE name == fdlist[n].filename
           k == FormOf(name)
<1>2. FormOf(name)' = FormOf(name)
  <2>1. {j \in DOMAIN formlist' : formlist'[j].action = name'} = {j \in DOMAIN formlist : formlist[j].action = name}
    BY DEF FormsStay
  <2>2. FormOf(name) = Max({0} \cup {j \in DOMAIN formlist : formlist[j].action = name})
    BY DEF FormOf
  <2>3. FormOf(name)' = Max({0} \cup {j \in DOMAIN formlist' : formlist'[j].action = name'})
    BY DEF FormOf, Max
  <2> HIDE DEF name
  <2>4. QED
    BY <2>1, <2>2, <2>3
<1>3. k # 0 => k \in DOMAIN formlist
  BY FormOfIs
<1>4. \A j \in DOMAIN formlist : Asks(j)' = Asks(j)
  BY DEF Asks, FormsStay, Without
<1> HIDE DEF k
<1>5. k # 0 => Asks(k') = Asks(k) /\ Asks(k)' = Asks(k)
  BY <1>2, <1>3, <1>4 DEF k
<1>6. StubOf(n) = IF Routed(n) # {"FORM"} THEN Typed("stub", fdlist[n].opset.routine, n, "int")
                  ELSE IF k = 0 THEN Typed("stub", fdlist[n].opset.routine, n, "text")
                  ELSE [Typed("stub", fdlist[n].opset.routine, n, "text") EXCEPT !.asks = Asks(k)]
  BY DEF StubOf, k
<1>7. StubOf(n)' = IF Routed(n)' # {"FORM"} THEN Typed("stub", fdlist[n].opset.routine, n, "int")
                   ELSE IF k' = 0 THEN Typed("stub", fdlist[n].opset.routine, n, "text")
                   ELSE [Typed("stub", fdlist[n].opset.routine, n, "text") EXCEPT !.asks = Asks(k)']
  BY DEF StubOf, k, Typed, Item
<1>8. QED
  BY <1>1, <1>2, <1>5, <1>6, <1>7 DEF k

LEMMA FormsStayIn ==
    ASSUME Base0, pc # "exit",
           OpenDefaults \/ ArrayEntry \/ ExpressionEntry \/ StubEntry \/ FormEntry \/ BuildSwitch \/ CheckForms
    PROVE  FormsStay /\ fdlist' = fdlist
<1>1. Types /\ Passes
  BY DEF Base0
<1>2. CASE OpenDefaults \/ ArrayEntry \/ ExpressionEntry \/ StubEntry \/ BuildSwitch \/ CheckForms
  BY <1>2 DEF OpenDefaults, ArrayEntry, ExpressionEntry, StubEntry, BuildSwitch, CheckForms, FormsStay
<1>3. CASE FormEntry
  <2>1. AtFile /\ fdlist' = fdlist
    BY <1>3 DEF FormEntry
  <2>2. at \in DOMAIN fdlist
    BY <1>1, <2>1, InList
  <2>3. PICK b : b = bldform(fdlist[at])
    OBVIOUS
  <2>4. formlist' = b.forms
    BY <1>3, <2>3 DEF FormEntry
  <2> DEFINE k == FormOf(fdlist[at].filename)
  <2>5. formlist' = IF k = 0 THEN formlist ELSE [formlist EXCEPT ![k].flags = @ \cup {"CCODED"}]
    BY <1>1, <2>2, <2>3, <2>4, BldformIs
  <2>6. k # 0 => k \in DOMAIN formlist /\ formlist[k] \in FormRec
    <3>1. k # 0 => k \in DOMAIN formlist
      BY <1>1, FormOfIs
    <3>2. \A j \in DOMAIN formlist : formlist[j] \in FormRec
      BY <1>1, TypesAre
    <3>3. QED
      BY <3>1, <3>2
  <2> HIDE DEF k
  <2>7. CASE k = 0
    BY <2>1, <2>5, <2>7 DEF FormsStay
  <2>8. CASE k # 0
    <3>1. PICK r : r = [formlist[k] EXCEPT !.flags = @ \cup {"CCODED"}]
      OBVIOUS
    <3>2. formlist' = [formlist EXCEPT ![k] = r]
      BY <2>5, <2>8, <3>1
    <3>3. r.action = formlist[k].action /\ r.controls = formlist[k].controls
      BY <2>6, <2>8, <3>1 DEF FormRec
    <3>4. DOMAIN formlist' = DOMAIN formlist /\ \A j \in DOMAIN formlist : formlist'[j] = IF j = k THEN r ELSE formlist[j]
      BY <3>2
    <3>5. QED
      BY <2>1, <3>3, <3>4 DEF FormsStay
  <2>9. QED
    BY <2>7, <2>8
<1>4. QED
  BY <1>2, <1>3

LEMMA HandlersSame ==
    ASSUME Base0, pc # "exit", FormsStay, fdlist' = fdlist, Handlers' = Handlers
    PROVE  ProtoItems' = ProtoItems /\ StubItems' = StubItems
<1>1. Types
  BY DEF Base0
<1>2. \A n : StubOf(n)' = StubOf(n) /\ ProtoOf(n)' = ProtoOf(n)
  BY <1>1, StubStays
<1>3. ProtoItems' = {ProtoOf(n)' : n \in Handlers'} /\ StubItems' = {StubOf(n)' : n \in Handlers'}
  BY DEF ProtoItems, StubItems
<1>4. QED
  BY <1>2, <1>3 DEF ProtoItems, StubItems

LEMMA HandlersMore ==
    ASSUME Base0, Base0', pc # "exit", ArrayEntry \/ ExpressionEntry \/ StubEntry \/ FormEntry
    PROVE  IF StubEntry \/ FormEntry THEN StubsMore(at) ELSE ProtoItems' = ProtoItems /\ StubItems' = StubItems
<1>1. Types /\ Passes /\ AtFile
  BY DEF Base0, ArrayEntry, ExpressionEntry, StubEntry, FormEntry, AtFile
<1>2. /\ DOMAIN fdlist = 1 .. Len(fdlist) /\ at \in Nat /\ at \in DOMAIN fdlist
  BY <1>1, TypesAre, InList
<1>3. FormsStay /\ fdlist' = fdlist
  BY FormsStayIn
<1>4. ListedTo = at - 1 /\ ListedTo' = at
  <2>1. pc = "efs" /\ pc' = "efs" /\ at' = at + 1
    BY <1>1 DEF AtFile, ArrayEntry, ExpressionEntry, StubEntry, FormEntry
  <2>2. QED
    BY <1>2, <2>1 DEF ListedTo
<1>5. Routed(at) # {} <=> StubEntry \/ FormEntry
  <2> DEFINE m == fdlist[at].opset.opmask
  <2>1. CASE StubEntry \/ FormEntry
    <3>1. m \cap {"SSI", "PUSH", "FORM"} # {}
      BY <2>1 DEF StubEntry, FormEntry, Routines
    <3>2. QED
      BY <2>1, <3>1 DEF Routed, Routines
  <2>2. CASE ~(StubEntry \/ FormEntry)
    <3>1. m \cap NON_BINARY_FILE \subseteq {"CEXP"}
      BY <2>2 DEF ArrayEntry, ExpressionEntry, Binary
    <3>2. QED
      BY <2>2, <3>1 DEF Routed, Routines, NON_BINARY_FILE
  <2>3. QED
    BY <2>1, <2>2
<1>6. \A n : Routed(n)' = Routed(n)
  BY <1>3 DEF Routed
<1>7. Handlers' = Handlers \cup (IF Routed(at) # {} THEN {at} ELSE {})
  <2>1. \A n \in DOMAIN fdlist : n <= at <=> n <= at - 1 \/ n = at
    BY <1>2
  <2>2. Handlers' = {n \in DOMAIN fdlist : n <= at /\ Routed(n) # {}}
    BY <1>3, <1>4, <1>6 DEF Handlers
  <2>3. Handlers = {n \in DOMAIN fdlist : n <= at - 1 /\ Routed(n) # {}}
    BY <1>4 DEF Handlers
  <2>4. QED
    BY <1>2, <2>1, <2>2, <2>3
<1>8. CASE ~(StubEntry \/ FormEntry)
  <2>1. Handlers' = Handlers
    BY <1>5, <1>7, <1>8
  <2>2. QED
    BY <1>3, <1>8, <2>1, HandlersSame
<1>9. CASE StubEntry \/ FormEntry
  <2>1. \A n : StubOf(n)' = StubOf(n) /\ ProtoOf(n)' = ProtoOf(n)
    BY <1>1, <1>3, StubStays
  <2>2. ProtoItems' = {ProtoOf(n)' : n \in Handlers'} /\ StubItems' = {StubOf(n)' : n \in Handlers'}
    BY DEF ProtoItems, StubItems
  <2>3. ProtoItems' = ProtoItems \cup {ProtoOf(at)} /\ StubItems' = StubItems \cup {StubOf(at)}
    BY <1>5, <1>7, <1>9, <2>1, <2>2 DEF ProtoItems, StubItems
  <2>4. \A r \in ProtoItems \cup StubItems : r.of # at
    <3>1. \A r \in ProtoItems \cup StubItems : r.of \in DOMAIN fdlist /\ r.of <= at - 1
      BY <1>4, StubItemsOf
    <3>2. \A n \in DOMAIN fdlist : n <= at - 1 => n # at
      BY <1>2
    <3>3. QED
      BY <3>1, <3>2
  <2>5. QED
    BY <1>9, <2>3, <2>4 DEF StubsMore
<1>10. QED
  BY <1>8, <1>9

\* The steps that write nothing of a kind.
LEMMA CodesSame ==
    ASSUME Next, pc # "exit", pc' # "exit", ~BuildSwitch, NEW kind
    PROVE  CodeItems(kind)' = CodeItems(kind)
<1>1. CASE CheckForms
  <2>1. fdlist' = fdlist /\ pc = "forms" /\ pc' = "done"
    BY <1>1 DEF CheckForms
  <2>2. \A n : Item(kind, Token(n), n)' = Item(kind, Token(n), n)
    BY <2>1 DEF Item, Token
  <2>3. QED
    BY <2>1, <2>2 DEF CodeItems
<1>2. CASE ~CheckForms
  <2>1. pc \notin {"forms", "done"} /\ pc' \notin {"forms", "done"}
    BY <1>2 DEF Next, parseargs, ReadLine, EndOfList, GiveUp, SkipFile, ConvertFile, OpenDefaults, ArrayEntry,
                ExpressionEntry, StubEntry, FormEntry, AtFile
  <2>2. CodeItems(kind) = {}
    BY <2>1 DEF CodeItems
  <2>3. CodeItems(kind)' = {}
    BY <2>1 DEF CodeItems
  <2>4. QED
    BY <2>2, <2>3
<1>3. QED
  BY <1>1, <1>2

Unlisted == SkipFile \/ OpenDefaults \/ ArrayEntry \/ ExpressionEntry \/ StubEntry \/ FormEntry \/ BuildSwitch \/ CheckForms

LEMMA ArraysSame ==
    ASSUME Base0, Base0', pc # "exit", pc' # "exit", Unlisted, NEW kind
    PROVE  ArrayItems(kind)' = ArrayItems(kind)
<1>1. Types /\ Passes /\ Types' /\ Passes'
  BY DEF Base0
<1>2. DOMAIN fdlist = 1 .. Len(fdlist) /\ Len(fdlist) \in Nat /\ at \in Nat
  BY <1>1, TypesAre
<1>3. fdlist' = fdlist
  BY FormsStayIn DEF Unlisted, SkipFile
<1>4. \A n \in DOMAIN fdlist : Binary(fdlist[n]) => (n <= ConvertedTo' <=> n <= ConvertedTo)
  <2>1. CASE SkipFile
    <3>1. pc = "convert" /\ pc' = "convert" /\ at' = at + 1 /\ ~Binary(fdlist[at])
      BY <2>1 DEF SkipFile
    <3>2. ConvertedTo = at - 1 /\ ConvertedTo' = at
      BY <1>2, <3>1 DEF ConvertedTo
    <3>3. QED
      BY <1>2, <3>1, <3>2
  <2>2. CASE OpenDefaults
    <3>1. pc = "convert" /\ pc' = "efs" /\ at > Len(fdlist)
      BY <2>2 DEF OpenDefaults
    <3>2. ConvertedTo = at - 1 /\ ConvertedTo' = Len(fdlist)
      BY <1>2, <1>3, <3>1 DEF ConvertedTo, Listing
    <3>3. QED
      BY <1>2, <3>1, <3>2
  <2>3. CASE ArrayEntry \/ ExpressionEntry \/ StubEntry \/ FormEntry \/ BuildSwitch \/ CheckForms
    <3>1. Listing /\ Listing' /\ pc # "convert" /\ pc' # "convert"
      BY <2>3 DEF ArrayEntry, ExpressionEntry, StubEntry, FormEntry, AtFile, BuildSwitch, CheckForms, Listing
    <3>2. QED
      BY <1>3, <3>1 DEF ConvertedTo
  <2>4. QED
    BY <2>1, <2>2, <2>3 DEF Unlisted
<1>5. ArrayItems(kind)' = {Item(kind, fdlist'[n].caname, n) : n \in {m \in DOMAIN fdlist' : m <= ConvertedTo' /\ Binary(fdlist'[m])}}
  BY DEF ArrayItems, Item
<1>6. {m \in DOMAIN fdlist' : m <= ConvertedTo' /\ Binary(fdlist'[m])} = {m \in DOMAIN fdlist : m <= ConvertedTo /\ Binary(fdlist[m])}
  BY <1>3, <1>4
<1>7. QED
  BY <1>3, <1>5, <1>6 DEF ArrayItems

LEMMA StubsSame ==
    ASSUME Base0, Base0', pc # "exit", pc' # "exit",
           SkipFile \/ OpenDefaults \/ BuildSwitch \/ CheckForms \/ \E content \in Contents : \E fill \in Fills(content) : ConvertFile(content, fill)
    PROVE  ProtoItems' = ProtoItems /\ StubItems' = StubItems
<1>1. Types /\ Passes /\ Types' /\ Passes'
  BY DEF Base0
<1>2. DOMAIN fdlist = 1 .. Len(fdlist) /\ Len(fdlist) \in Nat /\ at \in Nat
  BY <1>1, TypesAre
<1>3. CASE BuildSwitch \/ CheckForms
  <2>1. FormsStay /\ fdlist' = fdlist
    BY <1>3, FormsStayIn
  <2>2. ListedTo' = ListedTo
    BY <1>1, <1>2, <1>3, <2>1 DEF BuildSwitch, CheckForms, ListedTo, Passes
  <2>3. \A n : Routed(n)' = Routed(n)
    BY <2>1 DEF Routed
  <2>4. Handlers' = Handlers
    BY <2>1, <2>2, <2>3 DEF Handlers
  <2>5. QED
    BY <2>1, <2>4, HandlersSame
<1>4. CASE ~(BuildSwitch \/ CheckForms)
  <2>1. pc = "convert" /\ (pc' = "convert" \/ (pc' = "efs" /\ at' = 1))
    BY <1>4 DEF SkipFile, OpenDefaults, ConvertFile
  <2>2. ListedTo = 0 /\ ListedTo' = 0
    BY <2>1 DEF ListedTo
  <2>3. DOMAIN fdlist' = 1 .. Len(fdlist') /\ Len(fdlist') \in Nat
    <3>1. fdlist' \in Seq(FileRec)
      BY <1>1 DEF Types
    <3>2. QED
      BY <3>1
  <2>4. Handlers = {} /\ Handlers' = {}
    <3>1. \A n \in DOMAIN fdlist : ~(n <= 0)
      BY <1>2
    <3>2. \A n \in DOMAIN fdlist' : ~(n <= 0)
      BY <2>3
    <3>3. QED
      BY <2>2, <3>1, <3>2 DEF Handlers
  <2>5. ProtoItems = {} /\ StubItems = {}
    BY <2>4 DEF ProtoItems, StubItems
  <2>6. ProtoItems' = {} /\ StubItems' = {}
    BY <2>4 DEF ProtoItems, StubItems
  <2>7. QED
    BY <2>5, <2>6
<1>5. QED
  BY <1>3, <1>4

\* An item is put into one file, another item into another, or into the same.
TwoPut(outs, kind, R, x, y, o) ==
    /\ kind \notin {x.item, y.item} => Recorded(o, kind, R)
    /\ kind = x.item /\ (\A r \in R : x.of # r.of) => Recorded(o, kind, R \cup {x})
    /\ kind = y.item /\ (\A r \in R : y.of # r.of) => Recorded(o, kind, R \cup {y})

LEMMA PutTwo ==
    ASSUME NEW outs \in Seq(OutRec), NEW a, NEW b, NEW x \in ItemRec, NEW y \in ItemRec, x.item # y.item,
           Matches(outs, a) # {}, Matches(Put(outs, a, << x >>), b) # {}, Put(outs, a, << x >>) \in Seq(OutRec),
           NEW kind, NEW R, Recorded(outs, kind, R)
    PROVE  TwoPut(outs, kind, R, x, y, Put(Put(outs, a, << x >>), b, << y >>))
<1>1. PICK put \in Seq(OutRec) : put = Put(outs, a, << x >>)
  OBVIOUS
<1>2. Matches(put, b) # {}
  BY <1>1
<1>3. PICK o : o = Put(put, b, << y >>)
  OBVIOUS
<1>4. CASE kind \notin {x.item, y.item}
  <2>1. Recorded(put, kind, R)
    BY <1>1, <1>4, PutOne
  <2>2. Recorded(o, kind, R)
    BY <1>2, <1>3, <1>4, <2>1, PutOne
  <2>3. QED
    BY <1>1, <1>3, <1>4, <2>2 DEF TwoPut
<1>5. CASE kind = x.item
  <2>1. ASSUME \A r \in R : x.of # r.of
        PROVE  Recorded(o, kind, R \cup {x})
    <3>1. Recorded(put, kind, R \cup {x})
      BY <1>1, <1>5, <2>1, PutOne
    <3>2. QED
      BY <1>2, <1>3, <1>5, <3>1, PutOne
  <2>2. QED
    BY <1>1, <1>3, <1>5, <2>1 DEF TwoPut
<1>6. CASE kind = y.item
  <2>1. Recorded(put, kind, R)
    BY <1>1, <1>6, PutOne
  <2>2. (\A r \in R : y.of # r.of) => Recorded(o, kind, R \cup {y})
    BY <1>2, <1>3, <1>6, <2>1, PutOne
  <2>3. QED
    BY <1>1, <1>3, <1>6, <2>2 DEF TwoPut
<1>7. QED
  BY <1>4, <1>5, <1>6

LEMMA OutputEnd ==
    ASSUME Base0, Base0', EndOfList
    PROVE  Output'
<1>1. /\ outputfiles' = output_file(outputfiles, def.hdrfile) /\ at' = 1 /\ pc' = "convert" /\ pc = "list"
      /\ fdlist' = fdlist
  BY DEF EndOfList
<1>2. Types /\ outputfiles = <<>>
  BY <1>1 DEF Base0, Passes
<1>3. DOMAIN fdlist = 1 .. Len(fdlist) /\ Len(fdlist) \in Nat /\ def.hdrfile \in Name /\ outputfiles \in Seq(OutRec)
  BY <1>2, TypesAre
<1>4. \A kind : Recorded(outputfiles', kind, {})
  <2> TAKE kind
  <2>1. Recorded(outputfiles, kind, {})
    BY <1>2, NothingRecorded
  <2>2. QED
    BY <1>1, <1>3, <2>1, OpenRecords
<1>5. ConvertedTo' = 0 /\ ListedTo' = 0
  BY <1>1 DEF ConvertedTo, ListedTo
<1>6. \A n \in DOMAIN fdlist' : ~(n <= 0)
  BY <1>1, <1>3
<1>7. Handlers' = {} /\ \A kind : ArrayItems(kind)' = {}
  BY <1>5, <1>6 DEF Handlers, ArrayItems
<1>8. ProtoItems' = {} /\ StubItems' = {} /\ \A kind : CodeItems(kind)' = {}
  BY <1>1, <1>7 DEF ProtoItems, StubItems, CodeItems
<1>9. QED
  BY <1>4, <1>7, <1>8 DEF Output

\* What is recorded stays, and the rest of what is written with it.
LEMMA OutputOpen ==
    ASSUME Base0, Base0', pc # "exit", pc' # "exit", Output, SkipFile \/ OpenDefaults
    PROVE  Output'
<1>1. Types /\ pc = "convert"
  BY DEF Base0, SkipFile, OpenDefaults
<1>2. outputfiles \in Seq(OutRec)
  BY <1>1, TypesAre
<1>3. \A kind, R : Recorded(outputfiles, kind, R) => Recorded(outputfiles', kind, R)
  <2> SUFFICES ASSUME NEW kind, NEW R, Recorded(outputfiles, kind, R)
               PROVE  Recorded(outputfiles', kind, R)
    OBVIOUS
  <2>1. CASE SkipFile
    <3>1. PICK name : name = fdlist[at].opset.datafile /\ outputfiles' = output_file(outputfiles, name)
      BY <2>1 DEF SkipFile
    <3>2. at \in DOMAIN fdlist
      BY <1>1, <2>1, TypesAre DEF Base0, Passes, SkipFile
    <3>3. name \in Name
      BY <1>1, <3>1, <3>2, AtFileIs
    <3>4. QED
      BY <1>2, <3>1, <3>3, OpenRecords
  <2>2. CASE OpenDefaults
    <3>1. PICK data : data = output_file(outputfiles, def.datafile)
      OBVIOUS
    <3>2. outputfiles' = outputfiles \/ outputfiles' = output_file(data, CodeFile)
      BY <2>2, <3>1 DEF OpenDefaults
    <3>3. def.datafile \in Name /\ CodeFile \in Name
      BY <1>1, TypesAre, ListAssumption
    <3>4. data \in Seq(OutRec)
      BY <1>2, <3>1, <3>3, OutputFile DEF OpenedIn
    <3>5. Recorded(data, kind, R)
      BY <1>2, <3>1, <3>3, OpenRecords
    <3>6. QED
      BY <3>2, <3>3, <3>4, <3>5, OpenRecords
  <2>3. QED
    BY <2>1, <2>2
<1>4. \A kind : ArrayItems(kind)' = ArrayItems(kind)
  BY ArraysSame DEF Unlisted
<1>5. ProtoItems' = ProtoItems /\ StubItems' = StubItems
  BY StubsSame
<1>6. \A kind : CodeItems(kind)' = CodeItems(kind)
  <2>1. Next /\ ~BuildSwitch
    BY DEF Next, SkipFile, OpenDefaults, BuildSwitch
  <2>2. QED
    BY <2>1, CodesSame
<1>7. QED
  BY <1>1, <1>3, <1>4, <1>5, <1>6 DEF Output

LEMMA OutputConvert ==
    ASSUME Base0, Base0', pc # "exit", pc' # "exit", Output, NEW content \in Contents, NEW fill \in Fills(content), ConvertFile(content, fill)
    PROVE  Output'
<1>1. Types /\ pc = "convert" /\ Opened
  BY DEF Base0, ConvertFile
<1>2. at \in DOMAIN fdlist /\ outputfiles \in Seq(OutRec)
  BY <1>1, TypesAre DEF Base0, Passes, ConvertFile
<1>3. PICK data, cname : data = fdlist[at].opset.datafile /\ cname = mk_cname(fdlist[at].filename, at)
  OBVIOUS
<1>4. PICK outs : outs = output_file(outputfiles, data)
  OBVIOUS
<1>5. PICK x, y : x = Item("array", cname, at) /\ y = Item("extern", cname, at)
  OBVIOUS
<1>6. /\ outs \in Seq(OutRec) /\ Put(outs, data, << x >>) \in Seq(OutRec)
      /\ Matches(outs, data) # {} /\ Matches(Put(outs, data, << x >>), def.hdrfile) # {}
      /\ IsItem(x, "array", cname, at, "") /\ IsItem(y, "extern", cname, at, "")
  BY <1>1, <1>2, <1>3, <1>4, <1>5, ConvertOuts
<1>7. outputfiles' = Put(Put(outs, data, << x >>), def.hdrfile, << y >>)
  BY <1>3, <1>4, <1>5 DEF ConvertFile
<1>8. \A kind, R : Recorded(outputfiles, kind, R) => TwoPut(outs, kind, R, x, y, outputfiles')
  <2> SUFFICES ASSUME NEW kind, NEW R, Recorded(outputfiles, kind, R)
               PROVE  TwoPut(outs, kind, R, x, y, outputfiles')
    OBVIOUS
  <2>1. Recorded(outs, kind, R)
    <3>1. data \in Name
      BY <1>1, <1>2, <1>3, AtFileIs
    <3>2. QED
      BY <1>2, <1>4, <3>1, OpenRecords
  <2>2. x \in ItemRec /\ y \in ItemRec /\ x.item # y.item
    BY <1>6 DEF IsItem
  <2>3. QED
    BY <1>6, <1>7, <2>1, <2>2, PutTwo
<1>9. /\ x.item = "array" /\ y.item = "extern" /\ x.of = at /\ y.of = at
  BY <1>6 DEF IsItem
<1>10. \A kind : /\ ArrayItems(kind)' = ArrayItems(kind) \cup {Item(kind, cname, at)}
                 /\ \A r \in ArrayItems(kind) : r.of # at
  BY <1>3, ArrayItemsMore
<1>11. ProtoItems' = ProtoItems /\ StubItems' = StubItems
  BY StubsSame
<1>12. \A kind : CodeItems(kind)' = CodeItems(kind)
  <2>1. Next /\ ~BuildSwitch
    BY DEF Next, ConvertFile, BuildSwitch
  <2>2. QED
    BY <2>1, CodesSame
<1>13. Recorded(outputfiles', "array", ArrayItems("array")')
  <2>1. TwoPut(outs, "array", ArrayItems("array"), x, y, outputfiles')
    BY <1>1, <1>8 DEF Output
  <2>2. QED
    BY <1>5, <1>9, <1>10, <2>1 DEF TwoPut
<1>14. Recorded(outputfiles', "extern", ArrayItems("extern")')
  <2>1. TwoPut(outs, "extern", ArrayItems("extern"), x, y, outputfiles')
    BY <1>1, <1>8 DEF Output
  <2>2. QED
    BY <1>5, <1>9, <1>10, <2>1 DEF TwoPut
<1>15. \A kind \in {"proto", "stub", "define", "case"} : \A R : Recorded(outputfiles, kind, R) => Recorded(outputfiles', kind, R)
  BY <1>8, <1>9 DEF TwoPut
<1>16. Recorded(outputfiles', "proto", ProtoItems') /\ Recorded(outputfiles', "stub", StubItems')
  BY <1>1, <1>11, <1>15 DEF Output
<1>17. Recorded(outputfiles', "define", CodeItems("define")') /\ Recorded(outputfiles', "case", CodeItems("case")')
  BY <1>1, <1>12, <1>15 DEF Output
<1>18. QED
  BY <1>13, <1>14, <1>16, <1>17 DEF Output

LEMMA OutputPlain ==
    ASSUME Base0, Base0', pc # "exit", pc' # "exit", Output, ArrayEntry \/ ExpressionEntry \/ CheckForms
    PROVE  Output'
<1>1. outputfiles' = outputfiles /\ pc \in {"efs", "forms"}
  BY DEF ArrayEntry, ExpressionEntry, CheckForms, AtFile
<1>2. \A kind : ArrayItems(kind)' = ArrayItems(kind) /\ CodeItems(kind)' = CodeItems(kind)
  <2>1. Next /\ ~BuildSwitch
    BY DEF Next, ArrayEntry, ExpressionEntry, CheckForms, AtFile, BuildSwitch
  <2>2. QED
    BY <2>1, ArraysSame, CodesSame DEF Unlisted
<1>3. ProtoItems' = ProtoItems /\ StubItems' = StubItems
  <2>1. CASE CheckForms
    BY <2>1, StubsSame
  <2>2. CASE ArrayEntry \/ ExpressionEntry
    <3>1. ~(StubEntry \/ FormEntry)
      <4>1. fdlist[at].opset.opmask \cap NON_BINARY_FILE \subseteq {"CEXP"}
        BY <2>2 DEF ArrayEntry, ExpressionEntry, Binary
      <4>2. QED
        BY <4>1 DEF StubEntry, FormEntry, Routines, NON_BINARY_FILE
    <3>2. QED
      BY <2>2, <3>1, HandlersMore
  <2>3. QED
    BY <2>1, <2>2
<1>4. QED
  BY <1>1, <1>2, <1>3 DEF Output

LEMMA OutputStub ==
    ASSUME Base0, Base0', pc # "exit", pc' # "exit", Output, StubEntry \/ FormEntry
    PROVE  Output'
<1>1. Types /\ Passes /\ Opened /\ AtFile /\ Listing
  <2>1. Types /\ Passes /\ Opened /\ AtFile
    BY DEF Base0, StubEntry, FormEntry, AtFile
  <2>2. QED
    BY <2>1, InList
<1>2. at \in DOMAIN fdlist /\ outputfiles \in Seq(OutRec)
  BY <1>1, TypesAre, InList
<1>3. PICK x, y : x = ProtoOf(at) /\ y = StubOf(at)
  OBVIOUS
<1> DEFINE f == fdlist[at]
           r == f.opset.routine
<1>4. /\ x \in ItemRec /\ y \in ItemRec /\ x.item = "proto" /\ y.item = "stub" /\ x.of = at /\ y.of = at
      /\ outputfiles' = Put(Put(outputfiles, def.hdrfile, << x >>), CodeFile, << y >>)
  <2>1. "text" \in ItemType /\ "int" \in ItemType
    BY DEF ItemType
  <2>2. CASE StubEntry
    <3>1. Routed(at) # {"FORM"}
      BY <2>2 DEF Routed, Routines, StubEntry
    <3>2. x = Typed("proto", r, at, IF "FORM" \in f.opset.opmask THEN "text" ELSE "int") /\ y = Typed("stub", r, at, "int")
      BY <1>3, <3>1 DEF ProtoOf, StubOf
    <3>3. IsItem(x, "proto", r, at, x.type) /\ IsItem(y, "stub", r, at, "int")
      <4>1. PICK type \in ItemType : type = IF "FORM" \in f.opset.opmask THEN "text" ELSE "int"
        BY <2>1
      <4>2. IsItem(x, "proto", r, at, type) /\ IsItem(y, "stub", r, at, "int")
        BY <1>1, <1>2, <2>1, <3>2, <4>1, StubItemsAre
      <4>3. QED
        BY <4>2 DEF IsItem
    <3>4. outputfiles' = Put(Put(outputfiles, def.hdrfile, << x >>), CodeFile, << y >>)
      BY <2>2, <3>2 DEF StubEntry
    <3>5. QED
      BY <3>3, <3>4 DEF IsItem
  <2>3. CASE FormEntry
    <3>1. Routed(at) = {"FORM"} /\ "FORM" \in f.opset.opmask
      BY <2>3 DEF Routed, FormEntry
    <3>2. x = Typed("proto", r, at, "text")
      BY <1>3, <3>1 DEF ProtoOf
    <3>3. PICK b : b = bldform(f)
      OBVIOUS
    <3>4. b.stub = y /\ IsItem(b.stub, "stub", r, at, "text")
      <4>1. b.stub = (IF FormOf(f.filename) = 0 THEN Typed("stub", r, at, "text")
                      ELSE [Typed("stub", r, at, "text") EXCEPT !.asks = Asks(FormOf(f.filename))])
            /\ IsItem(b.stub, "stub", r, at, "text")
        BY <1>1, <1>2, <3>3, BldformIs
      <4>2. QED
        BY <1>3, <3>1, <4>1 DEF StubOf
    <3>5. IsItem(x, "proto", r, at, "text")
      BY <1>1, <1>2, <2>1, <3>2, StubItemsAre
    <3>6. outputfiles' = Put(Put(outputfiles, def.hdrfile, << x >>), CodeFile, << b.stub >>)
      BY <2>3, <3>2, <3>3 DEF FormEntry
    <3>7. QED
      BY <3>4, <3>5, <3>6 DEF IsItem
  <2>4. QED
    BY <2>2, <2>3
<1>5. PICK put : put = Put(outputfiles, def.hdrfile, << x >>)
  OBVIOUS
<1>6. /\ put \in Seq(OutRec) /\ Matches(put, CodeFile) # {} /\ Matches(outputfiles, def.hdrfile) # {}
  <2>1. << y >> \in Seq(ItemRec)
    BY <1>4, OneItem
  <2>2. QED
    BY <1>1, <1>4, <1>5, <2>1, StubOuts
<1>7. \A kind, R : Recorded(outputfiles, kind, R) => TwoPut(outputfiles, kind, R, x, y, outputfiles')
  BY <1>2, <1>4, <1>5, <1>6, PutTwo
<1>8. \A kind : ArrayItems(kind)' = ArrayItems(kind) /\ CodeItems(kind)' = CodeItems(kind)
  <2>1. Next /\ ~BuildSwitch
    BY DEF Next, StubEntry, FormEntry, AtFile, BuildSwitch
  <2>2. QED
    BY <2>1, ArraysSame, CodesSame DEF Unlisted
<1>9. StubsMore(at)
  BY HandlersMore
<1>10. pc = "efs"
  BY <1>1 DEF AtFile
<1>11. \A kind \in {"array", "extern", "define", "case"} : \A R : Recorded(outputfiles, kind, R) => Recorded(outputfiles', kind, R)
  BY <1>4, <1>7 DEF TwoPut
<1>12. /\ Recorded(outputfiles', "array", ArrayItems("array")') /\ Recorded(outputfiles', "extern", ArrayItems("extern")')
       /\ Recorded(outputfiles', "define", CodeItems("define")') /\ Recorded(outputfiles', "case", CodeItems("case")')
  BY <1>8, <1>10, <1>11 DEF Output
<1>13. Recorded(outputfiles', "proto", ProtoItems')
  <2>1. TwoPut(outputfiles, "proto", ProtoItems, x, y, outputfiles')
    BY <1>7, <1>10 DEF Output
  <2>2. QED
    BY <1>3, <1>4, <1>9, <2>1 DEF TwoPut, StubsMore
<1>14. Recorded(outputfiles', "stub", StubItems')
  <2>1. TwoPut(outputfiles, "stub", StubItems, x, y, outputfiles')
    BY <1>7, <1>10 DEF Output
  <2>2. QED
    BY <1>3, <1>4, <1>9, <2>1 DEF TwoPut, StubsMore
<1>15. QED
  BY <1>12, <1>13, <1>14 DEF Output

\* One token of a kind for each expression.
LEMMA TokensMade ==
    ASSUME Types, NEW kind \in Kinds, NEW outs \in Seq(OutRec), NEW name, Matches(outs, name) # {}, NEW k, NEW R,
           Recorded(outs, k, R), k = kind => R = {}
    PROVE  Recorded(Put(outs, name, TokenItems(kind)), k,
                    IF k = kind THEN {Item(kind, Token(n), n) : n \in {m \in DOMAIN fdlist : fdlist[m].ccode}} ELSE R)
<1>1. PICK items : items = TokenItems(kind)
  OBVIOUS
<1>2. /\ items \in Seq(ItemRec) /\ Len(items) = Len(Coded)
      /\ \A j \in 1 .. Len(Coded) : /\ items[j] = Item(kind, Token(Coded[j]), Coded[j])
                                    /\ IsItem(items[j], kind, Token(Coded[j]), Coded[j], "")
  BY <1>1, TokenItemsType
<1>3. /\ \A j \in 1 .. Len(Coded) : Coded[j] \in {n \in DOMAIN fdlist : fdlist[n].ccode}
      /\ \A n \in {m \in DOMAIN fdlist : fdlist[m].ccode} : \E j \in 1 .. Len(Coded) : Coded[j] = n
      /\ \A i, j \in 1 .. Len(Coded) : Coded[i] = Coded[j] => i = j
  BY CodedFiles DEF Lists
<1>4. \A j \in 1 .. Len(items) : items[j].item = kind /\ items[j].of = Coded[j]
  BY <1>2 DEF IsItem
<1>5. \A i, j \in NewItems(items, k) : items[i].of = items[j].of => i = j
  <2>1. \A j \in NewItems(items, k) : j \in 1 .. Len(Coded) /\ items[j].of = Coded[j]
    BY <1>2, <1>4 DEF NewItems
  <2>2. QED
    BY <1>3, <2>1
<1>6. \A j \in NewItems(items, k), r \in R : items[j].of # r.of
  BY <1>4 DEF NewItems
<1>7. Recorded(Put(outs, name, items), k, R \cup {items[j] : j \in NewItems(items, k)})
  BY <1>2, <1>5, <1>6, PutRecords
<1>8. CASE k = kind
  <2>1. NewItems(items, k) = 1 .. Len(Coded)
    BY <1>2, <1>4, <1>8 DEF NewItems
  <2>2. {items[j] : j \in NewItems(items, k)} = {Item(kind, Token(n), n) : n \in {m \in DOMAIN fdlist : fdlist[m].ccode}}
    <3> DEFINE G(n) == Item(kind, Token(n), n)
               C == {m \in DOMAIN fdlist : fdlist[m].ccode}
    <3>1. \A j \in 1 .. Len(Coded) : items[j] = G(Coded[j])
      BY <1>2
    <3> HIDE DEF G, C
    <3>2. \A j \in 1 .. Len(Coded) : items[j] \in {G(n) : n \in C}
      BY <1>3, <3>1 DEF C
    <3>3. \A n \in C : \E j \in 1 .. Len(Coded) : items[j] = G(n)
      BY <1>3, <3>1 DEF C
    <3>4. {items[j] : j \in 1 .. Len(Coded)} = {G(n) : n \in C}
      BY <3>2, <3>3
    <3>5. QED
      BY <2>1, <3>4 DEF G, C
  <2>3. QED
    BY <1>1, <1>7, <1>8, <2>2
<1>9. CASE k # kind
  <2>1. NewItems(items, k) = {}
    BY <1>4, <1>9 DEF NewItems
  <2>2. {items[j] : j \in NewItems(items, k)} = {}
    BY <2>1
  <2>3. QED
    BY <1>1, <1>7, <1>9, <2>2
<1>10. QED
  BY <1>8, <1>9

LEMMA OutputSwitch ==
    ASSUME Base0, Base0', pc # "exit", pc' # "exit", Output, BuildSwitch
    PROVE  Output'
<1>1. Types /\ Opened /\ pc = "efs" /\ pc' = "forms" /\ fdlist' = fdlist
      /\ outputfiles' = Put(Put(outputfiles, CodeFile, TokenItems("case")), def.hdrfile, TokenItems("define"))
  BY DEF Base0, BuildSwitch
<1>2. PICK put : put = Put(outputfiles, CodeFile, TokenItems("case"))
  OBVIOUS
<1>3. outputfiles \in Seq(OutRec) /\ Matches(outputfiles, CodeFile) # {} /\ Matches(outputfiles, def.hdrfile) # {}
  BY <1>1, TypesAre DEF Opened, Listing
<1>4. "case" \in Kinds /\ "define" \in Kinds
  BY DEF Kinds
<1>5. put \in Seq(OutRec) /\ Matches(put, def.hdrfile) # {}
  <2>1. TokenItems("case") \in Seq(ItemRec)
    BY <1>1, <1>4, TokenItemsType
  <2>2. PutIn(outputfiles, put)
    BY <1>2, <1>3, <2>1, PutTypes
  <2>3. QED
    BY <1>3, <2>2 DEF PutIn
<1> DEFINE Made(kind) == {Item(kind, Token(n), n) : n \in {m \in DOMAIN fdlist : fdlist[m].ccode}}
<1>6. \A kind : CodeItems(kind) = {} /\ CodeItems(kind)' = Made(kind)
  <2>1. \A kind : CodeItems(kind) = {}
    BY <1>1 DEF CodeItems
  <2>2. \A kind, n : Item(kind, Token(n), n)' = Item(kind, Token(n), n)
    BY <1>1 DEF Item, Token
  <2>3. \A kind : CodeItems(kind)' = Made(kind)
    BY <1>1, <2>2 DEF CodeItems
  <2>4. QED
    BY <2>1, <2>3
<1>7. ASSUME NEW k \in Kinds \ {"case", "define"}, NEW R, Recorded(outputfiles, k, R)
      PROVE  Recorded(outputfiles', k, R)
  <2>1. Recorded(put, k, R)
    BY <1>1, <1>2, <1>3, <1>4, <1>7, TokensMade
  <2>2. QED
    BY <1>1, <1>2, <1>4, <1>5, <1>7, <2>1, TokensMade
<1>8. Recorded(outputfiles', "case", Made("case"))
  <2>1. Recorded(outputfiles, "case", {})
    BY <1>1, <1>6 DEF Output
  <2>2. Recorded(put, "case", Made("case"))
    BY <1>1, <1>2, <1>3, <1>4, <2>1, TokensMade
  <2> HIDE DEF Made
  <2>3. QED
    BY <1>1, <1>2, <1>4, <1>5, <2>2, TokensMade
<1>9. Recorded(outputfiles', "define", Made("define"))
  <2>1. Recorded(outputfiles, "define", {})
    BY <1>1, <1>6 DEF Output
  <2>2. Recorded(put, "define", {})
    BY <1>1, <1>2, <1>3, <1>4, <2>1, TokensMade
  <2>3. QED
    BY <1>1, <1>2, <1>4, <1>5, <2>2, TokensMade
<1>10. \A kind : ArrayItems(kind)' = ArrayItems(kind)
  BY ArraysSame DEF Unlisted
<1>11. ProtoItems' = ProtoItems /\ StubItems' = StubItems
  BY StubsSame
<1> HIDE DEF Made
<1>12. {"array", "extern", "proto", "stub"} \subseteq Kinds \ {"case", "define"}
  BY DEF Kinds
<1>13. QED
  BY <1>1, <1>6, <1>7, <1>8, <1>9, <1>10, <1>11, <1>12 DEF Output

LEMMA OutputNext ==
    ASSUME Base0, Base0', pc # "exit", pc' # "exit", Output, Next
    PROVE  Output'
<1>1. CASE pc' \in {"args", "list"}
  BY <1>1 DEF Output
<1>2. CASE pc' \notin {"args", "list"}
  <2>1. ~\E argv \in CommandLines : parseargs(argv)
    BY <1>2 DEF parseargs
  <2>2. ~\E line \in Lines : ReadLine(line)
    BY <1>2 DEF ReadLine
  <2>3. ~GiveUp
    BY DEF GiveUp
  <2>4. QED
    BY <2>1, <2>2, <2>3, OutputEnd, OutputOpen, OutputConvert, OutputPlain, OutputStub, OutputSwitch DEF Next
<1>3. QED
  BY <1>1, <1>2

LEMMA ImageInit == Init => ImageInv
<1> SUFFICES ASSUME Init PROVE ImageInv
  OBVIOUS
<1>1. Base0
  BY Base0Init
<1>2. pc = "args" /\ fdlist = <<>> /\ def.mask = {}
  BY DEF Init
<1>3. Expressions
  BY <1>2 DEF Expressions
<1>4. Entries
  BY <1>2 DEF Entries, ListedTo
<1>5. Output
  BY <1>2 DEF Output
<1>6. QED
  BY <1>1, <1>2, <1>3, <1>4, <1>5 DEF Base0, ImageInv

LEMMA ImageNext == ImageInv /\ [Next]_vars => ImageInv'
<1> SUFFICES ASSUME ImageInv, [Next]_vars PROVE ImageInv'
  OBVIOUS
<1>1. Base0 /\ Base0'
  BY Base0Next DEF ImageInv, Base0
<1>2. CASE UNCHANGED vars
  <2> USE <1>2 DEF vars
  <2>1. Types' = Types /\ Passes' = Passes /\ Opened' = Opened
    BY DEF Types, Passes, Opened, Listing, ConvertedTo, ListedTo
  <2>2. Expressions' = Expressions
    BY DEF Expressions, ConvertedTo, Listing
  <2>3. Entries' = Entries
    BY DEF Entries, EntryFor, Routed, Token, ListedTo
  <2>4. \A kind : ArrayItems(kind)' = ArrayItems(kind) /\ CodeItems(kind)' = CodeItems(kind)
    BY DEF ArrayItems, CodeItems, Item, Token, ConvertedTo, Listing
  <2>5. ProtoItems' = ProtoItems /\ StubItems' = StubItems
    <3>2. \A n : StubOf(n)' = StubOf(n) /\ ProtoOf(n)' = ProtoOf(n)
      BY StubStays DEF FormsStay, ImageInv
    <3>3. Handlers' = Handlers
      BY DEF Handlers, ListedTo, Routed
    <3>4. ProtoItems' = {ProtoOf(n)' : n \in Handlers'} /\ StubItems' = {StubOf(n)' : n \in Handlers'}
      BY DEF ProtoItems, StubItems
    <3>5. QED
      BY <3>2, <3>3, <3>4 DEF ProtoItems, StubItems
  <2>6. Output => Output'
    BY <2>4, <2>5 DEF Output
  <2>7. QED
    BY <2>1, <2>2, <2>3, <2>6 DEF ImageInv
<1>3. CASE pc = "exit" /\ ~UNCHANGED vars
  BY <1>3 DEF Next, parseargs, ReadLine, EndOfList, GiveUp, SkipFile, ConvertFile, OpenDefaults, ArrayEntry,
              ExpressionEntry, StubEntry, FormEntry, AtFile, BuildSwitch, CheckForms
<1>4. CASE pc # "exit" /\ pc' # "exit" /\ ~UNCHANGED vars
  <2>1. Next /\ Expressions /\ Entries /\ Output
    BY <1>4 DEF ImageInv
  <2>2. Expressions' /\ Entries' /\ Output'
    BY <1>1, <1>4, <2>1, ExpressionsNext, EntriesNext, OutputNext
  <2>3. QED
    BY <1>1, <1>4, <2>2 DEF ImageInv, Base0
<1>5. CASE pc' = "exit"
  BY <1>1, <1>5 DEF ImageInv, Base0
<1>6. QED
  BY <1>2, <1>3, <1>4, <1>5

----------------------------------------------------------------------------
(* The names of the arrays *)

\* The number behind a name: one digit or two.
Digits(n) ==
    /\ Written(n) \in Seq(Nat) /\ Len(Written(n)) \in {1, 2}
    /\ \A i \in 1 .. Len(Written(n)) : Written(n)[i] \in Digit

LEMMA WrittenDigits ==
    ASSUME NEW n \in 0 .. MaxFiles
    PROVE  /\ Digits(n)
           /\ \A m \in 0 .. MaxFiles : Written(m) = Written(n) => m = n
<1>1. Base \in 2 .. 10 /\ n \in 0 .. Base * Base - 1
  BY LimitsAssumption
<1>2. ASSUME NEW m \in 0 .. Base * Base - 1
      PROVE  /\ m \in Nat /\ m \div Base \in 0 .. Base - 1 /\ m % Base \in 0 .. Base - 1
             /\ m = Base * (m \div Base) + (m % Base)
  <2>1. \A b \in 2 .. 10 : b = 2 \/ b = 3 \/ b = 4 \/ b = 5 \/ b = 6 \/ b = 7 \/ b = 8 \/ b = 9 \/ b = 10
    OBVIOUS
  <2>2. QED
    BY <1>1, <1>2, <2>1
<1>3. ASSUME NEW m \in 0 .. Base * Base - 1
      PROVE  Digits(m)
  <2>1. CASE m < Base
    <3>1. Written(m) = << 48 + m >> /\ 48 + m \in 48 .. 57
      BY <1>1, <2>1 DEF Written
    <3>2. QED
      BY <3>1 DEF Digits, Digit
  <2>2. CASE ~(m < Base)
    <3>1. PICK x \in 0 .. Base - 1, y \in 0 .. Base - 1 : x = m \div Base /\ y = m % Base
      BY <1>2
    <3>2. Written(m) = << 48 + x, 48 + y >> /\ 48 + x \in 48 .. 57 /\ 48 + y \in 48 .. 57
      BY <1>1, <2>2, <3>1 DEF Written
    <3>3. QED
      BY <3>2 DEF Digits, Digit
  <2>3. QED
    BY <2>1, <2>2
<1>4. ASSUME NEW m \in 0 .. Base * Base - 1, Written(m) = Written(n)
      PROVE  m = n
  <2>1. PICK x \in 0 .. Base - 1, y \in 0 .. Base - 1 : x = m \div Base /\ y = m % Base /\ m = Base * x + y
    BY <1>2
  <2>2. PICK v \in 0 .. Base - 1, w \in 0 .. Base - 1 : v = n \div Base /\ w = n % Base /\ n = Base * v + w
    BY <1>1, <1>2
  <2>3. Written(m) = (IF m < Base THEN << 48 + m >> ELSE << 48 + x, 48 + y >>)
    BY <2>1 DEF Written
  <2>4. Written(n) = (IF n < Base THEN << 48 + n >> ELSE << 48 + v, 48 + w >>)
    BY <2>2 DEF Written
  <2>5. CASE m < Base /\ n < Base
    <3>1. << 48 + m >> = << 48 + n >>
      BY <1>4, <2>3, <2>4, <2>5
    <3>2. << 48 + m >>[1] = 48 + m /\ << 48 + n >>[1] = 48 + n
      OBVIOUS
    <3>3. 48 + m = 48 + n
      BY <3>1, <3>2
    <3>4. m \in Nat /\ n \in Nat
      BY <1>1
    <3>5. QED
      BY <3>3, <3>4
  <2>6. CASE ~(m < Base) /\ ~(n < Base)
    <3>1. << 48 + x, 48 + y >> = << 48 + v, 48 + w >>
      BY <1>4, <2>3, <2>4, <2>6
    <3>2. x = v /\ y = w
      BY <1>1, <3>1
    <3>3. QED
      BY <2>1, <2>2, <3>2
  <2>7. CASE m < Base /\ ~(n < Base)
    <3>1. << 48 + m >> = << 48 + v, 48 + w >>
      BY <1>4, <2>3, <2>4, <2>7
    <3>2. QED
      BY <3>1
  <2>8. CASE ~(m < Base) /\ n < Base
    <3>1. << 48 + n >> = << 48 + x, 48 + y >>
      BY <1>4, <2>3, <2>4, <2>8
    <3>2. QED
      BY <3>1
  <2>9. m < Base \/ ~(m < Base)
    OBVIOUS
  <2>10. QED
    BY <2>5, <2>6, <2>7, <2>8
<1>5. \A m \in 0 .. MaxFiles : m \in 0 .. Base * Base - 1
  <2>1. Base * Base \in Nat
    BY <1>1
  <2>2. QED
    BY <2>1, LimitsAssumption
<1>6. QED
  BY <1>1, <1>3, <1>4, <1>5

\* Names whose ends cannot be taken for the number behind them.
LEMMA ArraysDistinct ==
    ASSUME NEW a \in Name \ {<<>>}, NEW b \in Name \ {<<>>}, Last(a) \notin Digit, Last(b) \notin Digit,
           NEW m \in 0 .. MaxFiles, NEW n \in 0 .. MaxFiles, mk_cname(a, m) = mk_cname(b, n)
    PROVE  m = n
<1> DEFINE Made(s) == [i \in DOMAIN s |-> IF s[i] \in 48 .. 122 THEN s[i] ELSE USCORE]
<1>1. ASSUME NEW s \in Name \ {<<>>}, Last(s) \notin Digit
      PROVE  /\ Made(s) \in Seq(Nat) /\ Len(Made(s)) = Len(s) /\ Len(s) \in Nat \ {0}
             /\ Made(s)[Len(s)] \notin Digit
  <2>1. s \in Seq(Nat) /\ Len(s) \in Nat \ {0} /\ DOMAIN s = 1 .. Len(s)
    BY DEF Name
  <2>2. Made(s) \in [1 .. Len(s) -> Nat]
    BY <2>1 DEF USCORE
  <2>3. Made(s)[Len(s)] = IF s[Len(s)] \in 48 .. 122 THEN s[Len(s)] ELSE USCORE
    BY <2>1
  <2>4. s[Len(s)] \notin Digit /\ USCORE \notin Digit
    BY <1>1 DEF Last, Digit, USCORE
  <2> HIDE DEF Made
  <2>5. Made(s) \in Seq(Nat) /\ Len(Made(s)) = Len(s)
    BY <2>1, <2>2, ListIs
  <2>6. QED
    BY <2>1, <2>3, <2>4, <2>5
<1>2. PICK A, B : A = Made(a) /\ B = Made(b)
  OBVIOUS
<1>3. PICK j, k \in Nat \ {0} : j = Len(a) /\ k = Len(b)
  BY <1>1
<1> HIDE DEF Made
<1>4. A \in Seq(Nat) /\ Len(A) = j /\ A[j] \notin Digit /\ B \in Seq(Nat) /\ Len(B) = k /\ B[k] \notin Digit
  BY <1>1, <1>2, <1>3
<1>5. PICK V, W : V = Written(m) /\ W = Written(n)
  OBVIOUS
<1>6. /\ V \in Seq(Nat) /\ Len(V) \in {1, 2} /\ (\A i \in 1 .. Len(V) : V[i] \in Digit)
      /\ W \in Seq(Nat) /\ Len(W) \in {1, 2} /\ (\A i \in 1 .. Len(W) : W[i] \in Digit)
  BY <1>5, WrittenDigits DEF Digits
<1>7. A \o V = B \o W
  BY <1>2, <1>5 DEF mk_cname, Made
<1>8. /\ Len(A \o V) = j + Len(V) /\ Len(B \o W) = k + Len(W)
      /\ \A i \in 1 .. j + Len(V) : (A \o V)[i] = IF i <= j THEN A[i] ELSE V[i - j]
      /\ \A i \in 1 .. k + Len(W) : (B \o W)[i] = IF i <= k THEN B[i] ELSE W[i - k]
  <2> A \in Seq(Nat) /\ V \in Seq(Nat) /\ B \in Seq(Nat) /\ W \in Seq(Nat)
    BY <1>4, <1>6
  <2>1. /\ Len(A \o V) = Len(A) + Len(V)
        /\ \A i \in 1 .. Len(A) + Len(V) : (A \o V)[i] = IF i <= Len(A) THEN A[i] ELSE V[i - Len(A)]
    BY ConcatProperties
  <2>2. /\ Len(B \o W) = Len(B) + Len(W)
        /\ \A i \in 1 .. Len(B) + Len(W) : (B \o W)[i] = IF i <= Len(B) THEN B[i] ELSE W[i - Len(B)]
    BY ConcatProperties
  <2>3. QED
    BY <1>4, <2>1, <2>2
<1>9. j + Len(V) = k + Len(W)
  BY <1>7, <1>8
<1>10. j = k
  <2>1. CASE j > k
    <3>1. j \in 1 .. j + Len(V) /\ j \in 1 .. k + Len(W) /\ ~(j <= k) /\ j - k \in 1 .. Len(W)
      BY <1>3, <1>6, <1>9, <2>1
    <3>2. A[j] = W[j - k]
      <4>1. (A \o V)[j] = A[j]
        BY <1>3, <1>8, <3>1
      <4>2. (B \o W)[j] = W[j - k]
        BY <1>8, <3>1
      <4>3. QED
        BY <1>7, <4>1, <4>2
    <3>3. QED
      BY <1>4, <1>6, <3>1, <3>2
  <2>2. CASE k > j
    <3>1. k \in 1 .. j + Len(V) /\ k \in 1 .. k + Len(W) /\ ~(k <= j) /\ k - j \in 1 .. Len(V)
      BY <1>3, <1>6, <1>9, <2>2
    <3>2. B[k] = V[k - j]
      <4>1. (B \o W)[k] = B[k]
        BY <1>3, <1>8, <3>1
      <4>2. (A \o V)[k] = V[k - j]
        BY <1>8, <3>1
      <4>3. QED
        BY <1>7, <4>1, <4>2
    <3>3. QED
      BY <1>4, <1>6, <3>1, <3>2
  <2>3. QED
    BY <1>3, <2>1, <2>2
<1>11. V = W
  <2>1. Len(V) = Len(W) /\ Len(V) \in Nat
    BY <1>3, <1>6, <1>9, <1>10
  <2>2. ASSUME NEW i \in 1 .. Len(V)
        PROVE  V[i] = W[i]
    <3>1. j + i \in 1 .. j + Len(V) /\ j + i \in 1 .. k + Len(W) /\ ~(j + i <= j) /\ (j + i) - j = i
      BY <1>3, <1>10, <2>1
    <3>2. QED
      BY <1>7, <1>8, <1>10, <3>1
  <2>3. QED
    BY <1>6, <2>1, <2>2, SeqEqual
<1>12. QED
  BY <1>5, <1>11, WrittenDigits

----------------------------------------------------------------------------
(* The image *)

\* One of the items recorded has this name.
LEMMA OnceIs ==
    ASSUME NEW kind, NEW R, Recorded(outputfiles, kind, R), NEW x \in R,
           \A r \in R : r.name = x.name => r.of = x.of
    PROVE  /\ Once(kind, x.name, x.of)
           /\ {At(w) : w \in {v \in Items(kind) : At(v).name = x.name}} = {x}
<1>1. Items(kind) = ItemsIn(outputfiles, kind) /\ \A w : At(w) = ItemAt(outputfiles, w)
  BY DEF Items, ItemsIn, At, ItemAt
<1>2. {At(w) : w \in Items(kind)} = R /\ \A w, v \in Items(kind) : At(w).of = At(v).of => w = v
  BY <1>1 DEF Recorded
<1>3. PICK w \in Items(kind) : At(w) = x
  BY <1>2
<1>4. \A v \in Items(kind) : At(v).name = x.name => At(v).of = x.of /\ v = w
  BY <1>2, <1>3
<1>5. {v \in Items(kind) : At(v).name = x.name} = {w}
  BY <1>3, <1>4
<1>6. Cardinality({w}) = 1
  BY FS_Singleton
<1>7. QED
  BY <1>3, <1>5, <1>6 DEF Once

LEMMA HandlerItems ==
    ASSUME Types, NEW n \in DOMAIN fdlist, Routed(n) # {}
    PROVE  LET r == fdlist[n].opset.routine
           IN  /\ ProtoOf(n).name = r /\ ProtoOf(n).of = n
               /\ StubOf(n).name = r /\ StubOf(n).of = n
               /\ Cardinality(Routed(n)) = 1 => ProtoOf(n).type = StubOf(n).type
<1> DEFINE f == fdlist[n]
           r == f.opset.routine
           k == FormOf(f.filename)
           type == IF "FORM" \in f.opset.opmask THEN "text" ELSE "int"
<1>1. n \in Nat /\ r \in Name /\ "proto" \in Kinds /\ "stub" \in Kinds /\ "int" \in ItemType /\ "text" \in ItemType
  BY AtFileIs DEF Kinds, ItemType
<1>2. type \in ItemType
  BY <1>1
<1> HIDE DEF r
<1>3. IsItem(ProtoOf(n), "proto", r, n, type)
  <2>1. ProtoOf(n) = Typed("proto", r, n, type)
    BY DEF ProtoOf, r
  <2> HIDE DEF type
  <2>2. QED
    BY <1>1, <1>2, <2>1, TypedIs
<1>4. IsItem(StubOf(n), "stub", r, n, IF Routed(n) # {"FORM"} THEN "int" ELSE "text")
  <2>1. CASE Routed(n) # {"FORM"}
    BY <1>1, <2>1, TypedIs DEF StubOf, r
  <2>2. CASE Routed(n) = {"FORM"} /\ k = 0
    BY <1>1, <2>2, TypedIs DEF StubOf, r
  <2>3. CASE Routed(n) = {"FORM"} /\ k # 0
    <3>1. StubOf(n) = [Typed("stub", r, n, "text") EXCEPT !.asks = Asks(k)]
      BY <2>3 DEF StubOf, r
    <3>2. k \in DOMAIN formlist
      BY <2>3, FormOfIs
    <3>3. Asks(k) \in Seq(Name)
      BY <3>2, AsksType
    <3> HIDE DEF k
    <3>4. QED
      BY <1>1, <2>3, <3>1, <3>3, AskedIs
  <2>4. QED
    BY <2>1, <2>2, <2>3
<1>5. Cardinality(Routed(n)) = 1 => (Routed(n) = {"FORM"} <=> "FORM" \in f.opset.opmask)
  <2>1. IsFiniteSet(Routed(n))
    <3>1. IsFiniteSet(Routines)
      <4>1. IsFiniteSet({}) /\ Routines = (({} \cup {"SSI"}) \cup {"PUSH"}) \cup {"FORM"}
        BY FS_EmptySet DEF Routines
      <4>2. QED
        BY <4>1, FS_AddElement
    <3>2. Routed(n) \subseteq Routines
      BY DEF Routed
    <3>3. QED
      BY <3>1, <3>2, FS_Subset
  <2>2. Cardinality(Routed(n)) = 1 => \E x : Routed(n) = {x}
    BY <2>1, FS_Singleton
  <2>3. "FORM" \in f.opset.opmask <=> "FORM" \in Routed(n)
    BY DEF Routed, Routines
  <2>4. QED
    BY <2>2, <2>3
<1>6. QED
  BY <1>3, <1>4, <1>5 DEF IsItem, r

\* At the end the items are those of all files.
LEMMA ImageDone ==
    ASSUME ImageInv, pc = "done"
    PROVE  ImageLinks
<1>1. Types /\ Passes /\ Expressions /\ Entries /\ Output
  BY DEF ImageInv
<1>2. DOMAIN fdlist = 1 .. Len(fdlist) /\ Len(fdlist) \in Nat /\ Len(fdlist) <= MaxFiles /\ MaxFiles \in Nat
  <2>1. Base * Base \in Nat
    BY LimitsAssumption
  <2>2. MaxFiles \in Nat
    BY <2>1, LimitsAssumption
  <2>3. QED
    BY <1>1, <2>2, TypesAre
<1>3. ConvertedTo = Len(fdlist) /\ ListedTo = Len(fdlist)
  BY DEF ConvertedTo, ListedTo, Listing
<1>4. \A n \in DOMAIN fdlist : efslist[n] = EntryFor(n)
  BY <1>1, <1>2, <1>3 DEF Entries
<1>5. \A n \in DOMAIN fdlist : Binary(fdlist[n]) => fdlist[n].caname = mk_cname(fdlist[n].filename, n)
  BY <1>1, <1>2, <1>3 DEF Expressions
<1>6. \A kind, n : Item(kind, fdlist[n].caname, n).name = fdlist[n].caname /\ Item(kind, fdlist[n].caname, n).of = n
  BY DEF Item
<1>7. \A kind, n : Item(kind, Token(n), n).name = Token(n) /\ Item(kind, Token(n), n).of = n
  BY DEF Item
<1>8. Handlers = {n \in DOMAIN fdlist : Routed(n) # {}}
  BY <1>2, <1>3 DEF Handlers
<1> SUFFICES ASSUME NEW n \in Files
             PROVE  LET e == efslist[n]
                    IN  /\ (e.array # <<>> /\ \A m \in Files : Last(fdlist[m].filename) \notin Digit)
                             => Once("array", e.array, n) /\ Once("extern", e.array, n)
                        /\ (e.routine # <<>> /\ Cardinality(Routed(n)) = 1 /\ Alone(n, {m \in Files : Routed(m) # {}}))
                             => /\ Once("proto", e.routine, n) /\ Once("stub", e.routine, n)
                                /\ Cardinality(Typeset(e.routine)) = 1
                        /\ (e.token # <<>> /\ \A m \in Files \ {n} : fdlist[m].ccode => Token(m) # Token(n))
                             => Once("define", e.token, n) /\ Once("case", e.token, n)
  BY DEF ImageLinks
<1> DEFINE e == efslist[n]
<1>9. e = EntryFor(n) /\ n \in DOMAIN fdlist
  BY <1>4 DEF Files
<1>10. ASSUME e.array # <<>>, \A m \in Files : Last(fdlist[m].filename) \notin Digit
       PROVE  Once("array", e.array, n) /\ Once("extern", e.array, n)
  <2>1. e.array = fdlist[n].caname /\ Binary(fdlist[n])
    BY <1>9, <1>10 DEF EntryFor
  <2>2. ASSUME NEW m \in DOMAIN fdlist, Binary(fdlist[m]), fdlist[m].caname = fdlist[n].caname
        PROVE  m = n
    <3>1. mk_cname(fdlist[m].filename, m) = mk_cname(fdlist[n].filename, n)
      BY <1>5, <1>9, <2>1, <2>2
    <3>2. fdlist[m].filename \in Name \ {<<>>} /\ fdlist[n].filename \in Name \ {<<>>}
      BY <1>1, <1>9, AtFileIs
    <3>3. Last(fdlist[m].filename) \notin Digit /\ Last(fdlist[n].filename) \notin Digit
      BY <1>9, <1>10 DEF Files
    <3>4. m \in 0 .. MaxFiles /\ n \in 0 .. MaxFiles
      BY <1>2, <1>9
    <3>5. QED
      BY <3>1, <3>2, <3>3, <3>4, ArraysDistinct
  <2>3. ASSUME NEW kind \in {"array", "extern"}
        PROVE  Once(kind, fdlist[n].caname, n)
    <3>1. Recorded(outputfiles, kind, ArrayItems(kind))
      BY <1>1 DEF Output
    <3>2. PICK x : x = Item(kind, fdlist[n].caname, n)
      OBVIOUS
    <3>3. x \in ArrayItems(kind) /\ x.name = fdlist[n].caname /\ x.of = n
      <4>1. n \in {m \in DOMAIN fdlist : m <= ConvertedTo /\ Binary(fdlist[m])}
        BY <1>2, <1>3, <1>9, <2>1
      <4>2. x \in ArrayItems(kind)
        BY <3>2, <4>1 DEF ArrayItems
      <4>3. QED
        BY <1>6, <3>2, <4>2
    <3>4. \A r \in ArrayItems(kind) : r.name = x.name => r.of = x.of
      BY <1>6, <2>2, <3>3 DEF ArrayItems
    <3>5. QED
      BY <3>1, <3>3, <3>4, OnceIs
  <2>4. QED
    BY <2>1, <2>3
<1>11. ASSUME e.routine # <<>>, Cardinality(Routed(n)) = 1, Alone(n, {m \in Files : Routed(m) # {}})
       PROVE  /\ Once("proto", e.routine, n) /\ Once("stub", e.routine, n)
              /\ Cardinality(Typeset(e.routine)) = 1
  <2>1. e.routine = fdlist[n].opset.routine /\ Routed(n) # {}
    BY <1>9, <1>11 DEF EntryFor
  <2>2. PICK r, x, y : r = e.routine /\ x = ProtoOf(n) /\ y = StubOf(n)
    OBVIOUS
  <2>3. x.name = r /\ x.of = n /\ y.name = r /\ y.of = n /\ x.type = y.type
    BY <1>1, <1>9, <1>11, <2>1, <2>2, HandlerItems
  <2>4. \A m \in Handlers : /\ ProtoOf(m).name = r => ProtoOf(m).of = n
                            /\ StubOf(m).name = r => StubOf(m).of = n
    <3> TAKE m \in Handlers
    <3>1. m \in DOMAIN fdlist /\ Routed(m) # {}
      BY <1>8
    <3>2. fdlist[m].opset.routine = r => m = n
      BY <1>11, <2>1, <2>2, <3>1 DEF Alone, Files
    <3>3. /\ ProtoOf(m).name = fdlist[m].opset.routine /\ ProtoOf(m).of = m
          /\ StubOf(m).name = fdlist[m].opset.routine /\ StubOf(m).of = m
      BY <1>1, <3>1, HandlerItems
    <3>4. QED
      BY <3>2, <3>3
  <2>5. /\ x \in ProtoItems /\ (\A i \in ProtoItems : i.name = x.name => i.of = x.of)
        /\ y \in StubItems /\ (\A i \in StubItems : i.name = y.name => i.of = y.of)
    BY <1>8, <1>9, <2>1, <2>2, <2>3, <2>4 DEF ProtoItems, StubItems
  <2>6. Recorded(outputfiles, "proto", ProtoItems) /\ Recorded(outputfiles, "stub", StubItems)
    BY <1>1 DEF Output
  <2>7. Once("proto", r, n) /\ {At(w) : w \in {v \in Items("proto") : At(v).name = r}} = {x}
    BY <2>3, <2>5, <2>6, OnceIs
  <2>8. Once("stub", r, n) /\ {At(w) : w \in {v \in Items("stub") : At(v).name = r}} = {y}
    BY <2>3, <2>5, <2>6, OnceIs
  <2>9. Typeset(r) = {x.type}
    <3>1. \A w \in {v \in Items("proto") \cup Items("stub") : At(v).name = r} : At(w).type = x.type
      BY <2>3, <2>7, <2>8
    <3>2. \E w \in {v \in Items("proto") \cup Items("stub") : At(v).name = r} : At(w) = x
      BY <2>7
    <3>3. QED
      BY <3>1, <3>2 DEF Typeset
  <2>10. Cardinality(Typeset(r)) = 1
    BY <2>9, FS_Singleton
  <2>11. QED
    BY <2>2, <2>7, <2>8, <2>10
<1>12. ASSUME e.token # <<>>, \A m \in Files \ {n} : fdlist[m].ccode => Token(m) # Token(n)
       PROVE  Once("define", e.token, n) /\ Once("case", e.token, n)
  <2>1. e.token = Token(n) /\ fdlist[n].opset.opmask \cap NON_BINARY_FILE = {"CEXP"}
    BY <1>9, <1>12 DEF EntryFor
  <2>2. "CEXP" \in fdlist[n].opset.opmask
    BY <2>1
  <2>3. fdlist[n].ccode
    BY <1>1, <1>9, <2>2 DEF Expressions
  <2>4. ASSUME NEW kind \in {"define", "case"}
        PROVE  Once(kind, Token(n), n)
    <3>1. Recorded(outputfiles, kind, CodeItems(kind))
      BY <1>1 DEF Output
    <3>2. PICK x : x = Item(kind, Token(n), n)
      OBVIOUS
    <3>3. x \in CodeItems(kind) /\ x.name = Token(n) /\ x.of = n
      BY <1>7, <1>9, <2>3, <3>2 DEF CodeItems
    <3>4. \A r \in CodeItems(kind) : r.name = x.name => r.of = x.of
      BY <1>7, <1>12, <3>3 DEF CodeItems, Files
    <3>5. QED
      BY <3>1, <3>3, <3>4, OnceIs
  <2>5. QED
    BY <2>1, <2>4
<1>13. QED
  BY <1>10, <1>11, <1>12

\* The image compiles and links, for every list, command line and contents and a table of any size:
\* fsbuilder's passes leave each other what they need (ImageInv), so that every array, routine and
\* token that efslist names is declared and defined once, wherever output_file has put it.
THEOREM ImageLinked == Spec => []ImageLinks
<1>1. ImageInv => ImageLinks
  BY ImageDone DEF ImageLinks
<1>2. QED
  BY <1>1, ImageInit, ImageNext, PTL DEF Spec

----------------------------------------------------------------------------
(* The options of a line *)

\* The words that no option before them takes are the options.
Shown(args, S) ==
    /\ S \subseteq 1 .. Len(args)
    /\ \A i \in 1 .. Len(args) : i \in S <=> ~\E j \in S : j < i /\ i <= j + Parameters(args[j].opt)

LEMMA OptionsAre ==
    ASSUME NEW args \in Seq(Word)
    PROVE  Shown(args, Options(args))
<1> DEFINE n == Len(args)
           P(j) == Parameters(args[j].opt)
           Part(k, T) == /\ T \subseteq 1 .. k
                         /\ \A i \in 1 .. k : i \in T <=> ~\E j \in T : j < i /\ i <= j + P(j)
           G == {k \in 0 .. n : \E T : Part(k, T)}
<1>1. n \in Nat /\ DOMAIN args = 1 .. n
  OBVIOUS
<1> HIDE DEF n, P
<1>2. 0 \in G
  <2>1. Part(0, {})
    OBVIOUS
  <2>2. 0 \in 0 .. n
    BY <1>1
  <2> HIDE DEF Part
  <2>3. QED
    BY <2>1, <2>2
<1>3. ASSUME NEW k \in 1 .. n, k - 1 \in G
      PROVE  k \in G
  <2>1. k \in 0 .. n /\ k \in Nat
    BY <1>1
  <2>2. PICK T : Part(k - 1, T)
    BY <1>3
  <2>3. PICK C \in BOOLEAN : C <=> \E j \in T : j < k /\ k <= j + P(j)
    OBVIOUS
  <2> DEFINE U == IF C THEN T ELSE T \cup {k}
  <2>4. U \subseteq 1 .. k /\ k \notin T
    BY <2>1, <2>2
  <2>5. ASSUME NEW i \in 1 .. k
        PROVE  i \in U <=> ~\E j \in U : j < i /\ i <= j + P(j)
    <3>1. \A j \in U : j < i => j \in T
      BY <2>1
    <3>2. (\E j \in U : j < i /\ i <= j + P(j)) <=> \E j \in T : j < i /\ i <= j + P(j)
      BY <3>1
    <3>3. CASE i = k
      BY <2>3, <2>4, <3>2, <3>3
    <3>4. CASE i # k
      <4>1. i \in 1 .. k - 1
        BY <2>1, <3>4
      <4>2. i \in T <=> ~\E j \in T : j < i /\ i <= j + P(j)
        BY <2>2, <4>1
      <4>3. i \in U <=> i \in T
        BY <3>4
      <4> HIDE DEF U
      <4>4. QED
        BY <3>2, <4>2, <4>3
    <3>5. QED
      BY <3>3, <3>4
  <2>6. Part(k, U)
    BY <2>4, <2>5
  <2> HIDE DEF Part, U
  <2>7. QED
    BY <2>1, <2>6
<1>4. n \in G
  <2> HIDE DEF G
  <2>1. \A k \in 0 .. n : k \in G
    BY <1>1, <1>2, <1>3, Upwards
  <2>2. QED
    BY <1>1, <2>1
<1>5. PICK T : Part(n, T)
  BY <1>4
<1> HIDE DEF G
<1>6. T \in SUBSET DOMAIN args /\ \A i \in DOMAIN args : i \in T <=> ~\E j \in T : j < i /\ i <= j + P(j)
  BY <1>1, <1>5
<1>7. /\ Options(args) \in SUBSET DOMAIN args
      /\ \A i \in DOMAIN args : i \in Options(args) <=> ~\E j \in Options(args) : j < i /\ i <= j + P(j)
  BY <1>6 DEF Options, P
<1>8. QED
  BY <1>1, <1>7 DEF Shown, P, n

\* What the words before a place have set, and whether the next ones are parameters.
Funcs == {"s", "f", "p"}
BitsOf(args, T) == {MaskBit[args[j].opt] : j \in {i \in T : args[i].opt \notin {"o", "g"}}}
LastAsked(args, T, letters, without) ==
    LET those == {j \in T : args[j].opt \in letters}
    IN  IF those = {} THEN without ELSE args[Max(those) + 1].text
SetBy(args, T, o, x) ==
    /\ x.opmask = o.opmask \cup BitsOf(args, T)
    /\ x.datafile = LastAsked(args, T, {"o"}, o.datafile) /\ x.routine = LastAsked(args, T, Funcs, o.routine)
Through(S, k) == {j \in S : j <= k}
Reading(args, S, o, k, x) ==
    IF x.cut
    THEN \E c \in S : /\ args[c].opt = "e" /\ \A j \in S : j < c => args[j].opt # "e"
                      /\ SetBy(args, Through(S, c), o, x)
    ELSE /\ SetBy(args, Through(S, k), o, x)
         /\ \A j \in Through(S, k) : args[j].opt # "e"
         /\ \A i \in k + 1 .. Len(args) :
               (\E j \in Through(S, k) : i <= j + Parameters(args[j].opt)) <=> i <= k + x.skip

\* The last of some words, when one is added behind them.
Precede(T, k, U) == k \in Nat /\ T \in SUBSET Nat /\ (\A j \in T : j < k) /\ U = T \cup {k}

LEMMA LastMore ==
    ASSUME NEW args \in Seq(Word), NEW T, NEW k \in Nat, NEW U, NEW letters, NEW without, NEW l, NEW text,
           Precede(T, k, U), l = args[k].opt, text = args[k + 1].text
    PROVE  /\ l \in letters => LastAsked(args, U, letters, without) = text
           /\ l \notin letters => LastAsked(args, U, letters, without) = LastAsked(args, T, letters, without)
<1>1. k \in Nat /\ T \in SUBSET Nat /\ (\A j \in T : j < k) /\ U = T \cup {k}
  BY DEF Precede
<1> DEFINE those(V) == {j \in V : args[j].opt \in letters}
<1>2. CASE args[k].opt \in letters
  <2>1. k \in those(U) /\ \A j \in those(U) : j \in Nat /\ k >= j
    BY <1>1, <1>2
  <2> HIDE DEF those
  <2>2. PICK m : m = Max(those(U))
    OBVIOUS
  <2>3. m \in those(U) /\ \A j \in those(U) : m >= j
    BY <2>1, <2>2 DEF Max
  <2>4. m = k
    <3>1. PICK V : V = those(U)
      OBVIOUS
    <3>2. k \in V /\ m \in V /\ (\A j \in V : j \in Nat /\ k >= j) /\ (\A j \in V : m >= j)
      BY <2>1, <2>3, <3>1
    <3>3. m \in Nat /\ k >= m /\ m >= k
      BY <3>2
    <3>4. QED
      BY <1>1, <3>3
  <2> USE DEF those
  <2>5. QED
    BY <1>2, <2>1, <2>2, <2>4 DEF LastAsked
<1>3. CASE args[k].opt \notin letters
  <2>1. those(U) = those(T)
    BY <1>1, <1>3
  <2>2. QED
    BY <1>3, <2>1 DEF LastAsked
<1>4. QED
  BY <1>2, <1>3

\* What a word does to the names in the scratch structure.
LEMMA NamesTaken ==
    ASSUME NEW args \in Seq(Word), NEW i \in 1 .. Len(args), NEW o \in OptionSet, ~o.failed,
           NEW y, y = TakeArg(o, args, i, FileOptions), ~y.failed
    PROVE  LET l == args[i].opt
           IN  /\ o.skip > 0 \/ o.cut => y.datafile = o.datafile /\ y.routine = o.routine
               /\ o.skip = 0 /\ ~o.cut =>
                     /\ y.datafile = IF l = "o" THEN args[i + 1].text ELSE o.datafile
                     /\ y.routine = IF l \in Funcs THEN args[i + 1].text ELSE o.routine
<1> DEFINE l == args[i].opt
<1>1. /\ o.skip \in Nat /\ o.cut \in BOOLEAN
      /\ \A v : [o EXCEPT !.failed = TRUE].failed
      /\ [o EXCEPT !.skip = @ - 1].datafile = o.datafile /\ [o EXCEPT !.skip = @ - 1].routine = o.routine
  BY DEF OptionSet
<1>2. CASE o.skip > 0 \/ o.cut
  BY <1>1, <1>2 DEF TakeArg
<1>3. CASE o.skip = 0 /\ ~o.cut
  <2>1. y = setoption(o, args, i, FileOptions)
    BY <1>1, <1>3 DEF TakeArg
  <2>2. l \in FileOptions /\ ~(l \notin {"a", "c", "w"} /\ i = Len(args))
    BY <1>1, <2>1 DEF setoption
  <2>3. CASE l \in {"a", "c", "w"}
    <3>1. y = [o EXCEPT !.opmask = @ \cup {MaskBit[l]}]
      BY <2>1, <2>2, <2>3 DEF setoption, opt_setbool
    <3>2. y.datafile = o.datafile /\ y.routine = o.routine
      BY <3>1 DEF OptionSet
    <3>3. QED
      BY <1>3, <2>3, <3>2 DEF Funcs
  <2>4. CASE l \in {"o", "g"}
    <3>1. y = opt_setstring(o, l, args[i + 1].text)
      BY <2>1, <2>2, <2>4 DEF setoption
    <3>2. y.datafile = (IF l = "o" THEN args[i + 1].text ELSE o.datafile) /\ y.routine = o.routine
      BY <2>4, <3>1 DEF opt_setstring, OptionSet
    <3>3. QED
      BY <1>3, <2>4, <3>2 DEF Funcs
  <2>5. CASE l \in Funcs
    <3>1. y = opt_makefunc(o, l, args[i + 1].text)
      BY <2>1, <2>2, <2>5 DEF setoption, Funcs
    <3>2. y.datafile = o.datafile /\ y.routine = args[i + 1].text
      BY <3>1 DEF opt_makefunc, opt_setbool, OptionSet
    <3>3. QED
      BY <1>3, <2>5, <3>2 DEF Funcs
  <2>6. CASE l = "e"
    <3>1. y = opt_setcexp(o)
      BY <2>1, <2>2, <2>6 DEF setoption
    <3>2. y.datafile = o.datafile /\ y.routine = o.routine
      BY <3>1 DEF opt_setcexp, opt_setbool, OptionSet
    <3>3. QED
      BY <1>3, <2>6, <3>2 DEF Funcs
  <2>7. QED
    BY <2>2, <2>3, <2>4, <2>5, <2>6 DEF FileOptions, Funcs
<1>4. QED
  BY <1>1, <1>2, <1>3

LEMMA ReadingNext ==
    ASSUME NEW args \in Seq(Word), NEW S, Shown(args, S), NEW o, NEW k \in 1 .. Len(args),
           NEW x \in OptionSet, ~x.failed, Reading(args, S, o, k - 1, x),
           NEW y, y = TakeArg(x, args, k, FileOptions), ~y.failed
    PROVE  Reading(args, S, o, k, y)
<1> DEFINE l == args[k].opt
           P(j) == Parameters(args[j].opt)
           n == Len(args)
<1>1. /\ y \in OptionSet
      /\ x.skip > 0 => Updated(x, y, x.opmask, x.skip - 1, x.cut)
      /\ x.skip = 0 /\ x.cut => y = x
      /\ x.skip = 0 /\ ~x.cut => l \in FileOptions /\ Updated(x, y, x.opmask \cup Gives(l), Used(l), l = "e")
  BY ArgTaken, Allowed
<1>2. x.skip \in Nat /\ y.skip \in Nat /\ x.cut \in BOOLEAN /\ y.cut \in BOOLEAN /\ k \in Nat /\ n \in Nat
  BY <1>1 DEF OptionSet
<1>3. S \subseteq 1 .. n /\ (k \in S <=> ~\E j \in S : j < k /\ k <= j + P(j))
  BY DEF Shown
<1> DEFINE text == args[k + 1].text
<1>4. /\ x.skip > 0 \/ x.cut => y.datafile = x.datafile /\ y.routine = x.routine
      /\ x.skip = 0 /\ ~x.cut =>
            /\ y.datafile = IF l = "o" THEN text ELSE x.datafile
            /\ y.routine = IF l \in Funcs THEN text ELSE x.routine
  BY NamesTaken
<1> HIDE DEF n, l, P, text
<1>5. CASE x.cut
  <2>1. y.opmask = x.opmask /\ y.cut
    <3>1. CASE x.skip > 0
      BY <1>1, <1>5, <3>1 DEF Updated
    <3>2. CASE x.skip = 0
      BY <1>1, <1>5, <3>2
    <3>3. QED
      BY <1>2, <3>1, <3>2
  <2>2. \A T : SetBy(args, T, o, x) => SetBy(args, T, o, y)
    BY <1>5, <1>4, <2>1 DEF SetBy
  <2>3. QED
    BY <1>5, <2>1, <2>2 DEF Reading
<1>6. CASE ~x.cut
  <2>1. /\ SetBy(args, Through(S, k - 1), o, x)
        /\ \A j \in Through(S, k - 1) : args[j].opt # "e"
        /\ \A i \in k .. n : (\E j \in Through(S, k - 1) : i <= j + P(j)) <=> i <= k - 1 + x.skip
    BY <1>2, <1>6 DEF Reading, P, n
  <2>2. k \in k .. n
    BY <1>2 DEF n
  <2>3. (\E j \in Through(S, k - 1) : k <= j + P(j)) <=> ~(x.skip = 0)
    <3>1. (\E j \in Through(S, k - 1) : k <= j + P(j)) <=> k <= k - 1 + x.skip
      BY <2>1, <2>2
    <3>2. k <= k - 1 + x.skip <=> ~(x.skip = 0)
      BY <1>2
    <3>3. QED
      BY <3>1, <3>2
  <2>4. \A j \in S : j < k <=> j \in Through(S, k - 1)
    BY <1>2, <1>3 DEF Through
  <2>5. k \in S <=> x.skip = 0
    <3>1. (\E j \in S : j < k /\ k <= j + P(j)) <=> \E j \in Through(S, k - 1) : k <= j + P(j)
      BY <2>4 DEF Through
    <3>2. QED
      BY <1>3, <2>3, <3>1
  <2>6. Through(S, k) = Through(S, k - 1) \cup (IF k \in S THEN {k} ELSE {})
    <3>1. \A j \in 1 .. n : j <= k <=> (j <= k - 1 \/ j = k)
      BY <1>2
    <3>2. \A j \in S : j <= k <=> (j <= k - 1 \/ j = k)
      BY <1>3, <3>1
    <3>3. QED
      BY <3>2 DEF Through
  <2>7. CASE x.skip # 0
    <3>1. y.opmask = x.opmask /\ y.skip = x.skip - 1 /\ ~y.cut
      BY <1>1, <1>2, <1>6, <2>7 DEF Updated
    <3>2. Through(S, k) = Through(S, k - 1)
      BY <2>5, <2>6, <2>7
    <3>3. ASSUME NEW i \in k + 1 .. n
          PROVE  (\E j \in Through(S, k) : i <= j + P(j)) <=> i <= k + y.skip
      <4>1. i \in k .. n /\ (i <= k - 1 + x.skip <=> i <= k + y.skip)
        BY <1>2, <3>1
      <4>2. QED
        BY <2>1, <3>2, <4>1
    <3>4. SetBy(args, Through(S, k), o, y)
      BY <1>2, <1>4, <2>1, <2>7, <3>1, <3>2 DEF SetBy
    <3>5. QED
      BY <2>1, <3>1, <3>2, <3>3, <3>4 DEF Reading, P, n
  <2>8. CASE x.skip = 0
    <3>1. l \in FileOptions /\ y.opmask = x.opmask \cup Gives(l) /\ y.skip = Used(l) /\ y.cut = (l = "e")
      BY <1>1, <1>6, <2>8 DEF Updated
    <3>2. k \in S /\ Through(S, k) = Through(S, k - 1) \cup {k}
      BY <2>5, <2>6, <2>8
    <3>3. Gives(l) = IF l \in {"o", "g"} THEN {} ELSE {MaskBit[l]}
      BY <3>1 DEF Gives, FileOptions
    <3>4. Used(l) = P(k)
      BY <3>1 DEF Used, P, Parameters, FileOptions, l
    <3>5. SetBy(args, Through(S, k), o, y)
      <4>1. BitsOf(args, Through(S, k)) = BitsOf(args, Through(S, k - 1)) \cup (IF l \in {"o", "g"} THEN {} ELSE {MaskBit[l]})
        BY <3>2 DEF BitsOf, l
      <4>2. Through(S, k - 1) \in SUBSET Nat /\ \A j \in Through(S, k - 1) : j < k
        <5>1. \A j \in 1 .. n : j \in Nat /\ (j <= k - 1 => j < k)
          BY <1>2
        <5>2. \A j \in Through(S, k - 1) : j \in 1 .. n /\ j <= k - 1
          BY <1>3 DEF Through
        <5>3. QED
          BY <5>1, <5>2
      <4>3. \A letters, without : LastAsked(args, Through(S, k), letters, without) =
                IF l \in letters THEN text ELSE LastAsked(args, Through(S, k - 1), letters, without)
        <5>1. TAKE letters, without
        <5>2. Precede(Through(S, k - 1), k, Through(S, k))
          BY <1>2, <3>2, <4>2 DEF Precede
        <5>3. PICK T, U, word, t : T = Through(S, k - 1) /\ U = Through(S, k) /\ word = args[k].opt /\ t = args[k + 1].text
          OBVIOUS
        <5>4. Precede(T, k, U) /\ k \in Nat
          BY <1>2, <5>2, <5>3
        <5>5. /\ word \in letters => LastAsked(args, U, letters, without) = t
              /\ word \notin letters => LastAsked(args, U, letters, without) = LastAsked(args, T, letters, without)
          BY <5>3, <5>4, LastMore
        <5>6. l = word /\ text = t
          BY <5>3 DEF l, text
        <5>7. QED
          BY <5>3, <5>5, <5>6
      <4>4. y.opmask = o.opmask \cup BitsOf(args, Through(S, k))
        BY <2>1, <3>1, <3>3, <4>1 DEF SetBy
      <4>5. y.datafile = LastAsked(args, Through(S, k), {"o"}, o.datafile)
        BY <1>6, <1>4, <2>1, <2>8, <4>3 DEF SetBy
      <4>6. y.routine = LastAsked(args, Through(S, k), Funcs, o.routine)
        BY <1>6, <1>4, <2>1, <2>8, <4>3 DEF SetBy
      <4>7. QED
        BY <4>4, <4>5, <4>6 DEF SetBy
    <3>6. CASE l = "e"
      <4>1. \A j \in S : j < k => args[j].opt # "e"
        BY <2>1, <2>4
      <4>2. QED
        BY <3>1, <3>2, <3>5, <3>6, <4>1 DEF Reading, l
    <3>7. CASE l # "e"
      <4>1. \A j \in Through(S, k) : args[j].opt # "e"
        BY <2>1, <3>2, <3>7 DEF l
      <4>2. ASSUME NEW i \in k + 1 .. n
            PROVE  (\E j \in Through(S, k) : i <= j + P(j)) <=> i <= k + y.skip
        <5>1. i \in k .. n /\ ~(i <= k - 1 + x.skip)
          BY <1>2, <2>8
        <5>2. \A j \in Through(S, k - 1) : ~(i <= j + P(j))
          BY <2>1, <5>1
        <5>3. QED
          BY <3>1, <3>2, <3>4, <5>2
      <4>3. QED
        BY <3>1, <3>5, <3>7, <4>1, <4>2 DEF Reading, P, n
    <3>8. QED
      BY <3>6, <3>7
  <2>9. QED
    BY <2>7, <2>8
<1>7. QED
  BY <1>2, <1>5, <1>6

\* One loop skips what options have used: what is set is what the line's options ask for.
LEMMA LineSets ==
    ASSUME NEW args \in Seq(Word), NEW o \in OptionSet, ~o.cut, o.skip = 0,
           NEW y, y = TakeArgs(o, args, FileOptions), ~y.failed
    PROVE  /\ y.opmask = o.opmask \cup LineBits(args)
           /\ y.datafile = Asked(args, {"o"}, o.datafile) /\ y.routine = Asked(args, Funcs, o.routine)
<1> DEFINE S == Options(args)
           n == Len(args)
<1>1. Shown(args, S) /\ n \in Nat
  BY OptionsAre
<1> HIDE DEF S
<1>2. PICK f : ArgStates(OptionSet, o, args, FileOptions, f)
  <2>1. ArgsKeep(OptionSet, args, FileOptions)
    BY ArgTaken, Allowed DEF ArgsKeep
  <2>2. QED
    BY <2>1, Taken
<1>3. /\ \A k \in 0 .. n : f[k] \in OptionSet
      /\ f[0] = o /\ f[n] = y /\ \A k \in 1 .. n : f[k] = TakeArg(f[k - 1], args, k, FileOptions)
  BY <1>2 DEF ArgStates
<1> DEFINE G == {k \in 0 .. n : f[k].failed \/ Reading(args, S, o, k, f[k])}
<1>4. 0 \in G
  <2>1. S \subseteq 1 .. n
    BY <1>1 DEF Shown
  <2>2. Through(S, 0) = {}
    <3>1. \A j \in 1 .. n : ~(j <= 0)
      BY <1>1
    <3>2. QED
      BY <2>1, <3>1 DEF Through
  <2>3. BitsOf(args, {}) = {}
    BY DEF BitsOf
  <2>4. \A i \in 0 + 1 .. n : ~(i <= 0 + o.skip)
    BY <1>1
  <2>5. SetBy(args, {}, o, o)
    BY <2>3 DEF SetBy, LastAsked
  <2>6. Reading(args, S, o, 0, o)
    BY <2>2, <2>4, <2>5 DEF Reading
  <2>7. 0 \in 0 .. n
    BY <1>1
  <2>8. QED
    BY <1>3, <2>6, <2>7
<1>5. ASSUME NEW k \in 1 .. n, k - 1 \in G
      PROVE  k \in G
  <2>1. k \in 0 .. n /\ k - 1 \in 0 .. n
    BY <1>1
  <2>2. PICK x \in OptionSet : x = f[k - 1]
    BY <1>3, <2>1
  <2>3. f[k] = TakeArg(x, args, k, FileOptions)
    BY <1>3, <2>2
  <2>4. x.failed => f[k] = x
    BY <2>3, ArgTaken, Allowed
  <2>5. ~x.failed => Reading(args, S, o, k - 1, x)
    BY <1>5, <2>2
  <2>6. ~x.failed /\ ~f[k].failed => Reading(args, S, o, k, f[k])
    BY <1>1, <2>3, <2>5, ReadingNext
  <2>7. QED
    BY <2>1, <2>4, <2>6
<1>6. Reading(args, S, o, n, y)
  <2>1. n \in 0 .. n
    BY <1>1
  <2> HIDE DEF G
  <2>2. \A k \in 0 .. n : k \in G
    BY <1>1, <1>4, <1>5, Upwards
  <2>3. n \in G
    BY <2>1, <2>2
  <2>4. QED
    BY <1>3, <2>3 DEF G
<1> DEFINE D == {j \in S : \A k \in S : args[k].opt = "e" => j <= k}
<1>7. OptionWords(args) = D
  BY DEF OptionWords, S
<1>8. S \subseteq Nat /\ \A j \in S : j <= n
  BY <1>1 DEF Shown
<1>9. ASSUME y.cut
      PROVE  SetBy(args, D, o, y)
  <2>1. PICK c \in S : /\ args[c].opt = "e" /\ \A j \in S : j < c => args[j].opt # "e"
                       /\ SetBy(args, Through(S, c), o, y)
    BY <1>6, <1>9 DEF Reading
  <2>2. \A k \in S : args[k].opt = "e" => c <= k
    BY <1>8, <2>1
  <2>3. \A j \in S : j <= c <=> \A k \in S : args[k].opt = "e" => j <= k
    <3> TAKE j \in S
    <3>1. ASSUME j <= c PROVE \A k \in S : args[k].opt = "e" => j <= k
      BY <1>8, <2>2, <3>1
    <3>2. ASSUME \A k \in S : args[k].opt = "e" => j <= k PROVE j <= c
      BY <2>1, <3>2
    <3>3. QED
      BY <3>1, <3>2
  <2>4. Through(S, c) = D
    BY <2>3 DEF Through
  <2>5. QED
    BY <2>1, <2>4
<1>10. ASSUME ~y.cut
       PROVE  SetBy(args, D, o, y)
  <2>1. SetBy(args, Through(S, n), o, y) /\ \A j \in Through(S, n) : args[j].opt # "e"
    BY <1>6, <1>10 DEF Reading
  <2>2. Through(S, n) = S
    BY <1>8 DEF Through
  <2>3. D = S
    BY <2>1, <2>2
  <2>4. QED
    BY <2>1, <2>2, <2>3
<1>11. SetBy(args, OptionWords(args), o, y)
  <2>1. SetBy(args, D, o, y)
    BY <1>9, <1>10
  <2>2. QED
    BY <1>7, <2>1
<1>12. QED
  BY <1>11 DEF SetBy, BitsOf, LastAsked, LineBits, Asked

----------------------------------------------------------------------------
(* The entries *)

\* The options of a file are those of its line and of the command line.
LineOpset(args, o) ==
    /\ o.opmask = def.mask \cup LineBits(args)
    /\ o.datafile = Asked(args, {"o"}, def.datafile) /\ o.routine = Asked(args, Funcs, <<>>)
OfTheirLines == \A n \in DOMAIN fdlist : LineOpset(lines[n].args, fdlist[n].opset)

\* Each array is in a file whose name begins with the one that is asked for.
DataOf == [n \in DOMAIN fdlist |-> fdlist[n].opset.datafile]
Homed(outs, F) == \A w \in ItemsIn(outs, "array") : IsPrefix(F[ItemAt(outs, w).of], outs[w[1]].name)

EntryInv == ImageInv /\ (pc # "exit" => OfTheirLines /\ Homed(outputfiles, DataOf))

LEMMA OpenHomed ==
    ASSUME NEW outs \in Seq(OutRec), NEW name \in Name, NEW F, Homed(outs, F)
    PROVE  Homed(output_file(outs, name), F)
BY OpenItems DEF SameItems, Homed

LEMMA PutHomed ==
    ASSUME NEW outs \in Seq(OutRec), NEW name, Matches(outs, name) # {}, NEW items \in Seq(ItemRec), NEW F, Homed(outs, F),
           \A k \in NewItems(items, "array") : F[items[k].of] = name
    PROVE  Homed(Put(outs, name, items), F)
<1>1. PICK p, o : p = Place(outs, name) /\ o = Put(outs, name, items)
  OBVIOUS
<1>2. PICK a \in Nat : Joined(outs, "array", items, o, p, a)
  BY <1>1, PutItems
<1>3. IsPrefix(name, outs[p].name)
  <2>1. Placed(outs, name, items, p, o)
    BY <1>1, PutFile
  <2>2. QED
    BY <2>1 DEF Placed
<1>4. \A i \in 1 .. Len(outs) : o[i].name = outs[i].name
  BY <1>2 DEF Joined
<1>5. ASSUME NEW w \in ItemsIn(outs, "array")
      PROVE  IsPrefix(F[ItemAt(o, w).of], o[w[1]].name)
  <2>1. w[1] \in 1 .. Len(outs)
    BY ItemsAre
  <2>2. ItemAt(o, w) = ItemAt(outs, w)
    BY <1>2 DEF Joined
  <2>3. QED
    BY <1>4, <2>1, <2>2 DEF Homed
<1>6. ASSUME NEW k \in NewItems(items, "array")
      PROVE  IsPrefix(F[ItemAt(o, << p, a + k >>).of], o[<< p, a + k >>[1]].name)
  <2>1. ItemAt(o, << p, a + k >>) = items[k] /\ p \in 1 .. Len(outs)
    BY <1>2 DEF Joined
  <2>2. o[<< p, a + k >>[1]].name = outs[p].name
    BY <1>4, <2>1
  <2>3. QED
    BY <1>3, <2>1, <2>2
<1>7. \A w \in ItemsIn(o, "array") : w \in ItemsIn(outs, "array") \/ \E k \in NewItems(items, "array") : w = << p, a + k >>
  BY <1>2 DEF Joined
<1>8. \A w \in ItemsIn(o, "array") : IsPrefix(F[ItemAt(o, w).of], o[w[1]].name)
  BY <1>5, <1>6, <1>7
<1>9. QED
  BY <1>1, <1>8 DEF Homed

\* An item of another kind moves no array.
LEMMA PutOther ==
    ASSUME NEW outs \in Seq(OutRec), NEW name, Matches(outs, name) # {}, NEW items \in Seq(ItemRec), NEW F, Homed(outs, F),
           \A k \in 1 .. Len(items) : items[k].item # "array"
    PROVE  Homed(Put(outs, name, items), F)
<1>1. NewItems(items, "array") = {}
  BY DEF NewItems
<1>2. QED
  BY <1>1, PutHomed

LEMMA OptionsStay ==
    ASSUME Base0, pc # "exit", Next, pc' \notin {"args", "list", "exit"}
    PROVE  /\ DOMAIN fdlist' = DOMAIN fdlist /\ \A n \in DOMAIN fdlist : fdlist'[n].opset = fdlist[n].opset
           /\ lines' = lines /\ def' = def
<1>1. CASE \E content \in Contents : \E fill \in Fills(content) : ConvertFile(content, fill)
  <2>1. PICK cname : fdlist' = [fdlist EXCEPT ![at].caname = cname] /\ lines' = lines /\ def' = def
    BY <1>1 DEF ConvertFile
  <2>2. Types /\ at \in DOMAIN fdlist
    BY <1>1, TypesAre DEF Base0, Passes, ConvertFile
  <2>3. fdlist[at] \in FileRec
    BY <2>2, AtFileIs
  <2>4. PICK r : r = [fdlist[at] EXCEPT !.caname = cname]
    OBVIOUS
  <2>5. r.opset = fdlist[at].opset
    BY <2>3, <2>4 DEF FileRec
  <2>6. fdlist' = [fdlist EXCEPT ![at] = r]
    BY <2>1, <2>4
  <2>7. DOMAIN fdlist' = DOMAIN fdlist /\ \A n \in DOMAIN fdlist : fdlist'[n] = IF n = at THEN r ELSE fdlist[n]
    BY <2>6
  <2>8. QED
    BY <2>1, <2>5, <2>7
<1>2. CASE ~\E content \in Contents : \E fill \in Fills(content) : ConvertFile(content, fill)
  <2>1. UNCHANGED << fdlist, lines, def >>
    BY <1>2 DEF Next, parseargs, ReadLine, EndOfList, GiveUp, SkipFile, OpenDefaults, ArrayEntry, ExpressionEntry,
                StubEntry, FormEntry, BuildSwitch, CheckForms
  <2>2. QED
    BY <2>1
<1>3. QED
  BY <1>1, <1>2

LEMMA OfTheirLinesNext ==
    ASSUME ImageInv, ImageInv', pc # "exit", pc' # "exit", OfTheirLines, Next
    PROVE  OfTheirLines'
<1>1. Base0 /\ Base0' /\ Types /\ Passes /\ Passes'
  BY DEF ImageInv, Base0
<1>2. CASE pc' \notin {"args", "list"}
  BY <1>1, <1>2, OptionsStay DEF OfTheirLines, LineOpset
<1>3. ASSUME NEW argv \in CommandLines, parseargs(argv)
      PROVE  OfTheirLines'
  <2>1. fdlist' = <<>>
    BY <1>1, <1>3 DEF parseargs, Passes
  <2>2. DOMAIN fdlist' = {}
    BY <2>1
  <2>3. QED
    BY <2>2 DEF OfTheirLines
<1>4. ASSUME NEW line \in Lines, ReadLine(line)
      PROVE  OfTheirLines'
  <2>1. PICK y : y = TakeArgs(Defaults(optionTmp), line.args, FileOptions)
    OBVIOUS
  <2>2. /\ lines' = Append(lines, line) /\ fdlist' = Append(fdlist, FileData(line, y)) /\ def' = def
        /\ pc' = IF y.failed THEN "exit" ELSE "list"
    BY <1>4, <2>1 DEF ReadLine
  <2>3. /\ line \in Line /\ line.args \in Seq(Word) /\ y \in OptionSet /\ FileData(line, y) \in FileRec
        /\ FileData(line, y).opset.opmask = y.opmask
        /\ FileData(line, y).opset.datafile = y.datafile /\ FileData(line, y).opset.routine = y.routine
    BY <1>1, <2>1, LineRead
  <2>4. LineOpset(line.args, FileData(line, y).opset)
    <3>1. PICK o \in OptionSet : /\ o = Defaults(optionTmp) /\ o.opmask = def.mask /\ ~o.cut /\ o.skip = 0
                                 /\ o.datafile = def.datafile /\ o.routine = <<>>
      BY <1>1, DefaultsType
    <3>2. ~y.failed
      BY <2>2, <2>3 DEF OptionSet
    <3>3. /\ y.opmask = o.opmask \cup LineBits(line.args)
          /\ y.datafile = Asked(line.args, {"o"}, o.datafile) /\ y.routine = Asked(line.args, Funcs, o.routine)
      BY <2>1, <2>3, <3>1, <3>2, LineSets
    <3>4. QED
      BY <2>3, <3>1, <3>3 DEF LineOpset
  <2>5. /\ DOMAIN fdlist = 1 .. Len(fdlist) /\ Len(fdlist) \in Nat
        /\ DOMAIN fdlist' = 1 .. Len(fdlist) + 1 /\ fdlist'[Len(fdlist) + 1] = FileData(line, y)
        /\ \A n \in 1 .. Len(fdlist) : fdlist'[n] = fdlist[n]
    BY <1>1, <2>2, <2>3, TypesAre, OneMore
  <2>6. lines'[Len(fdlist) + 1] = line /\ \A n \in 1 .. Len(fdlist) : lines'[n] = lines[n]
    BY <1>1, <2>2, <2>3, TypesAre, OneMore
  <2>7. ASSUME NEW n \in DOMAIN fdlist'
        PROVE  LineOpset(lines'[n].args, fdlist'[n].opset)
    <3>1. n \in 1 .. Len(fdlist) \/ n = Len(fdlist) + 1
      BY <2>5
    <3>2. QED
      BY <2>3, <2>4, <2>5, <2>6, <3>1 DEF OfTheirLines
  <2>8. QED
    BY <2>2, <2>7 DEF OfTheirLines, LineOpset
<1>5. CASE pc' \in {"args", "list"}
  BY <1>3, <1>4, <1>5 DEF Next, EndOfList, GiveUp, SkipFile, ConvertFile, OpenDefaults, ArrayEntry, ExpressionEntry,
                          StubEntry, FormEntry, AtFile, BuildSwitch, CheckForms
<1>6. QED
  BY <1>2, <1>5

LEMMA HomedNext ==
    ASSUME ImageInv, ImageInv', pc # "exit", pc' # "exit", Homed(outputfiles, DataOf), Next
    PROVE  Homed(outputfiles', DataOf')
<1>1. Base0 /\ Base0' /\ Types /\ Passes /\ Opened /\ Passes' /\ outputfiles \in Seq(OutRec)
  <2>1. Base0 /\ Base0' /\ Types /\ Passes /\ Opened /\ Passes'
    BY DEF ImageInv, Base0
  <2>2. QED
    BY <2>1, TypesAre
<1>2. CASE pc' \in {"args", "list"}
  <2>1. ItemsIn(outputfiles', "array") = {}
    BY <1>1, <1>2 DEF Passes, ItemsIn
  <2>2. QED
    BY <2>1 DEF Homed
<1>3. CASE EndOfList
  <2>1. outputfiles = <<>> /\ outputfiles' = output_file(outputfiles, def.hdrfile) /\ def.hdrfile \in Name
    BY <1>1, <1>3, TypesAre DEF EndOfList, Passes
  <2>2. ItemsIn(outputfiles, "array") = {}
    BY <2>1 DEF ItemsIn
  <2>3. Homed(outputfiles, DataOf')
    BY <2>2 DEF Homed
  <2>4. QED
    BY <1>1, <2>1, <2>3, OpenHomed
<1>4. ASSUME pc' \notin {"args", "list"}
      PROVE  DataOf' = DataOf
  BY <1>1, <1>4, OptionsStay DEF DataOf
<1>5. CASE SkipFile
  <2>1. PICK name : name = fdlist[at].opset.datafile /\ outputfiles' = output_file(outputfiles, name)
    BY <1>5 DEF SkipFile
  <2>2. at \in DOMAIN fdlist /\ pc' = "convert"
    BY <1>1, <1>5, TypesAre DEF Passes, SkipFile
  <2>3. name \in Name
    BY <1>1, <2>1, <2>2, AtFileIs
  <2>4. QED
    BY <1>1, <1>4, <2>1, <2>2, <2>3, OpenHomed
<1>6. CASE OpenDefaults
  <2>1. PICK data : data = output_file(outputfiles, def.datafile)
    OBVIOUS
  <2>2. pc' = "efs" /\ outputfiles' = output_file(data, CodeFile)
    BY <1>6, <2>1 DEF OpenDefaults
  <2>3. def.datafile \in Name /\ CodeFile \in Name
    BY <1>1, TypesAre, ListAssumption
  <2>4. data \in Seq(OutRec)
    BY <1>1, <2>1, <2>3, OutputFile DEF OpenedIn
  <2>5. Homed(data, DataOf)
    BY <1>1, <2>1, <2>3, OpenHomed
  <2>6. QED
    BY <1>4, <2>2, <2>3, <2>4, <2>5, OpenHomed
<1>7. ASSUME NEW content \in Contents, NEW fill \in Fills(content), ConvertFile(content, fill)
      PROVE  Homed(outputfiles', DataOf')
  <2>1. pc = "convert" /\ pc' = "convert" /\ at \in DOMAIN fdlist
    BY <1>1, <1>7, TypesAre DEF Passes, ConvertFile
  <2>2. PICK data, cname : data = fdlist[at].opset.datafile /\ cname = mk_cname(fdlist[at].filename, at)
    OBVIOUS
  <2>3. PICK outs : outs = output_file(outputfiles, data)
    OBVIOUS
  <2>4. PICK x, y : x = Item("array", cname, at) /\ y = Item("extern", cname, at)
    OBVIOUS
  <2>5. PICK put : put = Put(outs, data, << x >>)
    OBVIOUS
  <2>6. /\ outs \in Seq(OutRec) /\ put \in Seq(OutRec) /\ Matches(outs, data) # {} /\ Matches(put, def.hdrfile) # {}
        /\ << x >> \in Seq(ItemRec) /\ << y >> \in Seq(ItemRec)
        /\ IsItem(x, "array", cname, at, "") /\ IsItem(y, "extern", cname, at, "")
    BY <1>1, <2>1, <2>2, <2>3, <2>4, <2>5, ConvertOuts
  <2>7. outputfiles' = Put(put, def.hdrfile, << y >>)
    BY <1>7, <2>2, <2>3, <2>4, <2>5 DEF ConvertFile
  <2>8. Homed(outs, DataOf)
    <3>1. data \in Name
      BY <1>1, <2>1, <2>2, AtFileIs
    <3>2. QED
      BY <1>1, <2>3, <3>1, OpenHomed
  <2>9. Homed(put, DataOf)
    <3>1. DataOf[at] = data /\ x.of = at
      BY <2>1, <2>2, <2>6 DEF DataOf, IsItem
    <3>2. PICK items \in Seq(ItemRec) : items = << x >> /\ Len(items) = 1 /\ items[1] = x
      BY <2>6
    <3>3. \A k \in NewItems(items, "array") : k = 1
      BY <3>2 DEF NewItems
    <3>4. \A k \in NewItems(items, "array") : DataOf[items[k].of] = data
      BY <3>1, <3>2, <3>3
    <3>5. put = Put(outs, data, items)
      BY <2>5, <3>2
    <3>6. QED
      BY <2>6, <2>8, <3>4, <3>5, PutHomed
  <2>10. Homed(outputfiles', DataOf)
    <3>1. PICK items \in Seq(ItemRec) : items = << y >> /\ Len(items) = 1 /\ items[1] = y
      BY <2>6
    <3>2. y.item = "extern"
      BY <2>6 DEF IsItem
    <3> \A k \in 1 .. Len(items) : k = 1
      BY <3>1
    <3>3. \A k \in 1 .. Len(items) : items[k].item # "array"
      BY <3>1, <3>2
    <3>4. outputfiles' = Put(put, def.hdrfile, items)
      BY <2>7, <3>1
    <3>5. QED
      BY <2>6, <2>9, <3>3, <3>4, PutOther
  <2>11. QED
    BY <1>4, <2>1, <2>10
<1>8. CASE ArrayEntry \/ ExpressionEntry \/ CheckForms
  BY <1>4, <1>8 DEF ArrayEntry, ExpressionEntry, CheckForms, AtFile
<1>9. ASSUME NEW a, NEW b, NEW s \in Seq(ItemRec), NEW r \in Seq(ItemRec), pc' \notin {"args", "list"},
             Matches(outputfiles, a) # {}, Matches(outputfiles, b) # {},
             \A k \in 1 .. Len(s) : s[k].item # "array", \A k \in 1 .. Len(r) : r[k].item # "array",
             outputfiles' = Put(Put(outputfiles, a, s), b, r)
      PROVE  Homed(outputfiles', DataOf')
  <2>1. PICK put : put = Put(outputfiles, a, s)
    OBVIOUS
  <2>2. put \in Seq(OutRec) /\ Matches(put, b) # {}
    BY <1>1, <1>9, <2>1, PutTypes DEF PutIn
  <2>3. Homed(put, DataOf)
    BY <1>1, <1>9, <2>1, PutOther
  <2>4. Homed(outputfiles', DataOf)
    BY <1>9, <2>1, <2>2, <2>3, PutOther
  <2>5. QED
    BY <1>4, <1>9, <2>4
<1>10. CASE StubEntry \/ FormEntry
  <2>1. AtFile /\ pc' = "efs"
    BY <1>10 DEF StubEntry, FormEntry, AtFile
  <2>2. at \in DOMAIN fdlist /\ Listing
    BY <1>1, <2>1, InList
  <2>3. Matches(outputfiles, def.hdrfile) # {} /\ Matches(outputfiles, CodeFile) # {}
    BY <1>1, <2>1 DEF AtFile, Opened, Listing
  <2> DEFINE r == fdlist[at].opset.routine
  <2>4. \E x, y \in ItemRec : /\ x.item = "proto" /\ y.item = "stub"
                              /\ outputfiles' = Put(Put(outputfiles, def.hdrfile, << x >>), CodeFile, << y >>)
    <3>1. "int" \in ItemType /\ "text" \in ItemType /\ StubType(fdlist[at]) \in ItemType
      BY DEF ItemType, StubType
    <3>2. CASE StubEntry
      <4>1. PICK type \in ItemType : type = StubType(fdlist[at])
        BY <3>1
      <4>2. PICK x, y : x = Typed("proto", r, at, type) /\ y = Typed("stub", r, at, "int")
        OBVIOUS
      <4>3. IsItem(x, "proto", r, at, type) /\ IsItem(y, "stub", r, at, "int")
        BY <1>1, <2>2, <3>1, <4>2, StubItemsAre
      <4>4. outputfiles' = Put(Put(outputfiles, def.hdrfile, << x >>), CodeFile, << y >>)
        BY <3>2, <4>1, <4>2 DEF StubEntry, StubType
      <4>5. QED
        BY <4>3, <4>4 DEF IsItem
    <3>3. CASE FormEntry
      <4>1. PICK b : b = bldform(fdlist[at])
        OBVIOUS
      <4>2. PICK x : x = Typed("proto", r, at, "text")
        OBVIOUS
      <4>3. IsItem(x, "proto", r, at, "text")
        BY <1>1, <2>2, <3>1, <4>2, StubItemsAre
      <4>4. IsItem(b.stub, "stub", r, at, "text")
        BY <1>1, <2>2, <4>1, BldformIs
      <4>5. outputfiles' = Put(Put(outputfiles, def.hdrfile, << x >>), CodeFile, << b.stub >>)
        BY <3>3, <4>1, <4>2 DEF FormEntry
      <4>6. QED
        BY <4>3, <4>4, <4>5 DEF IsItem
    <3>4. QED
      BY <1>10, <3>2, <3>3
  <2>5. PICK x \in ItemRec, y \in ItemRec : /\ x.item = "proto" /\ y.item = "stub"
                                            /\ outputfiles' = Put(Put(outputfiles, def.hdrfile, << x >>), CodeFile, << y >>)
    BY <2>4
  <2>6. PICK s \in Seq(ItemRec), z \in Seq(ItemRec) : /\ s = << x >> /\ Len(s) = 1 /\ s[1] = x
                                                      /\ z = << y >> /\ Len(z) = 1 /\ z[1] = y
    BY OneItem
  <2>7. (\A k \in 1 .. Len(s) : s[k].item # "array") /\ (\A k \in 1 .. Len(z) : z[k].item # "array")
    BY <2>5, <2>6
  <2>8. QED
    BY <1>9, <2>1, <2>3, <2>5, <2>6, <2>7
<1>11. CASE BuildSwitch
  <2>1. /\ outputfiles' = Put(Put(outputfiles, CodeFile, TokenItems("case")), def.hdrfile, TokenItems("define"))
        /\ pc' = "forms" /\ pc = "efs"
    BY <1>11 DEF BuildSwitch
  <2>2. Matches(outputfiles, def.hdrfile) # {} /\ Matches(outputfiles, CodeFile) # {}
    BY <1>1, <2>1 DEF Opened, Listing
  <2>3. \A kind \in {"case", "define"} : /\ TokenItems(kind) \in Seq(ItemRec)
                                         /\ \A k \in 1 .. Len(TokenItems(kind)) : TokenItems(kind)[k].item # "array"
    <3> TAKE kind \in {"case", "define"}
    <3>1. kind \in Kinds
      BY DEF Kinds
    <3>2. /\ TokenItems(kind) \in Seq(ItemRec) /\ Len(TokenItems(kind)) = Len(Coded)
          /\ \A k \in 1 .. Len(Coded) : IsItem(TokenItems(kind)[k], kind, Token(Coded[k]), Coded[k], "")
      BY <1>1, <3>1, TokenItemsType
    <3>3. QED
      BY <3>2 DEF IsItem
  <2>4. QED
    BY <1>9, <2>1, <2>2, <2>3
<1>12. QED
  BY <1>2, <1>3, <1>5, <1>6, <1>7, <1>8, <1>10, <1>11 DEF Next, parseargs, ReadLine, GiveUp

LEMMA EntryInit == Init => EntryInv
<1> SUFFICES ASSUME Init PROVE EntryInv
  OBVIOUS
<1>1. fdlist = <<>> /\ outputfiles = <<>>
  BY DEF Init
<1>2. OfTheirLines
  BY <1>1 DEF OfTheirLines
<1>3. Homed(outputfiles, DataOf)
  <2>1. ItemsIn(outputfiles, "array") = {}
    BY <1>1 DEF ItemsIn
  <2>2. QED
    BY <2>1 DEF Homed
<1>4. QED
  BY <1>2, <1>3, ImageInit DEF EntryInv

LEMMA EntryNext == EntryInv /\ [Next]_vars => EntryInv'
<1> SUFFICES ASSUME EntryInv, [Next]_vars PROVE EntryInv'
  OBVIOUS
<1>1. ImageInv /\ ImageInv'
  BY ImageNext DEF EntryInv
<1>2. CASE UNCHANGED vars
  BY <1>1, <1>2 DEF vars, EntryInv, OfTheirLines, LineOpset, Homed, DataOf
<1>3. CASE pc = "exit" /\ ~UNCHANGED vars
  BY <1>3 DEF Next, parseargs, ReadLine, EndOfList, GiveUp, SkipFile, ConvertFile, OpenDefaults, ArrayEntry,
              ExpressionEntry, StubEntry, FormEntry, AtFile, BuildSwitch, CheckForms
<1>4. CASE pc # "exit" /\ pc' # "exit" /\ ~UNCHANGED vars
  <2>1. Next /\ OfTheirLines /\ Homed(outputfiles, DataOf)
    BY <1>4 DEF EntryInv
  <2>2. OfTheirLines' /\ Homed(outputfiles', DataOf')
    BY <1>1, <1>4, <2>1, OfTheirLinesNext, HomedNext
  <2>3. QED
    BY <1>1, <2>2 DEF EntryInv
<1>5. CASE pc' = "exit"
  BY <1>1, <1>5 DEF EntryInv
<1>6. QED
  BY <1>2, <1>3, <1>4, <1>5

LEMMA EntriesDone ==
    ASSUME EntryInv, pc = "done"
    PROVE  EntriesOfTheirLines
<1>1. Types /\ Passes /\ Expressions /\ Entries /\ OfTheirLines /\ Homed(outputfiles, DataOf)
  BY DEF EntryInv, ImageInv
<1>2. DOMAIN fdlist = 1 .. Len(fdlist) /\ Len(lines) = Len(fdlist) /\ DOMAIN lines = 1 .. Len(fdlist)
  BY <1>1, TypesAre
<1>3. ListedTo = Len(fdlist)
  BY DEF ListedTo
<1>4. Len(efslist) = Len(lines)
  BY <1>1, <1>2, <1>3 DEF Passes
<1>5. ASSUME NEW n \in DOMAIN lines
      PROVE  LET e    == efslist[n]
                 args == lines[n].args
                 data == Asked(args, {"o"}, def.datafile)
             IN  /\ e.name = lines[n].name
                 /\ e.link = IF n < Len(lines) THEN n + 1 ELSE 0
                 /\ e.flags = (def.mask \cup LineBits(args)) \ {"CACHE", "NOWARN"}
                 /\ e.routine = Asked(args, {"s", "f", "p"}, <<>>)
                 /\ \A w \in Items("array") :
                       At(w).of = n => LET file == outputfiles[w[1]].name
                                       IN  file = data \/ IsStrictPrefix(data, file)
  <2>1. n \in DOMAIN fdlist /\ efslist[n] = EntryFor(n)
    BY <1>1, <1>2, <1>3, <1>5 DEF Entries
  <2>2. /\ EntryFor(n).name = fdlist[n].filename /\ EntryFor(n).link = IF n < Len(fdlist) THEN n + 1 ELSE 0
        /\ EntryFor(n).flags = fdlist[n].opset.opmask \ {"CACHE", "NOWARN"}
        /\ EntryFor(n).routine = IF Routed(n) # {} THEN fdlist[n].opset.routine ELSE <<>>
    BY DEF EntryFor
  <2>3. fdlist[n].filename = lines[n].name
    BY <1>1, <2>1 DEF Expressions
  <2>4. LineOpset(lines[n].args, fdlist[n].opset)
    BY <1>1, <2>1 DEF OfTheirLines
  <2>5. ASSUME Routed(n) = {}
        PROVE  Asked(lines[n].args, Funcs, <<>>) = <<>>
    <3>1. ASSUME NEW j \in OptionWords(lines[n].args), lines[n].args[j].opt \in Funcs
          PROVE  FALSE
      <4>1. MaskBit[lines[n].args[j].opt] \in LineBits(lines[n].args)
        BY <3>1 DEF LineBits, Funcs
      <4>2. MaskBit[lines[n].args[j].opt] \in Routines
        BY <3>1, MaskBits DEF Funcs, Routines
      <4>3. QED
        BY <2>4, <2>5, <4>1, <4>2 DEF LineOpset, Routed
    <3>2. QED
      BY <3>1 DEF Asked
  <2>6. efslist[n].routine = Asked(lines[n].args, {"s", "f", "p"}, <<>>)
    BY <2>1, <2>2, <2>4, <2>5 DEF LineOpset, Funcs
  <2>7. ASSUME NEW w \in Items("array"), At(w).of = n
        PROVE  IsPrefix(fdlist[n].opset.datafile, outputfiles[w[1]].name)
    <3>1. w \in ItemsIn(outputfiles, "array") /\ ItemAt(outputfiles, w).of = n
      BY <2>7 DEF Items, ItemsIn, At, ItemAt
    <3>2. DataOf[n] = fdlist[n].opset.datafile
      BY <2>1 DEF DataOf
    <3>3. QED
      BY <1>1, <3>1, <3>2 DEF Homed
  <2>8. \A d, f : IsPrefix(d, f) => f = d \/ IsStrictPrefix(d, f)
    BY DEF IsStrictPrefix
  <2>9. QED
    BY <1>2, <2>1, <2>2, <2>3, <2>4, <2>6, <2>7, <2>8 DEF LineOpset
<1>6. QED
  BY <1>4, <1>5 DEF EntriesOfTheirLines

\* Each file's entry is that of its own line and of the command line, for every list and every sequence of
\* options: setoption's one scratch structure and its count of the words to skip give a line the bits, the
\* routine and the data file of the words that are options, up to an expression, whatever the lines before
\* it have left.
THEOREM EntriesTheirOwn == Spec => []EntriesOfTheirLines
<1>1. EntryInv => EntriesOfTheirLines
  BY EntriesDone DEF EntriesOfTheirLines
<1>2. QED
  BY <1>1, EntryInit, EntryNext, PTL DEF Spec

----------------------------------------------------------------------------
(* The forms of a content *)

TagOf(rd, w) == rd[w[1]][w[2]]

\* The tags before file n, and the first i of it.
Passed(rd, n, i, w) == w[1] \in DOMAIN rd /\ w[2] \in DOMAIN rd[w[1]] /\ (w[1] < n \/ (w[1] = n /\ w[2] <= i))

Before(v, w)  == v[1] < w[1] \/ (v[1] = w[1] /\ v[2] < w[2])
IsForm(rd, w) == w[2] \in FormTags(rd[w[1]])

\* The forms are those of the tags passed, in their order; src has the tag of each.
FormsOf(rd, n, i, src) ==
    /\ src \in Seq(Nat \X Nat)
    /\ \A k \in DOMAIN src : Passed(rd, n, i, src[k]) /\ IsForm(rd, src[k])
    /\ \A w \in Nat \X Nat : Passed(rd, n, i, w) /\ IsForm(rd, w) => \E k \in DOMAIN src : src[k] = w
    /\ \A k, l \in DOMAIN src : k < l => Before(src[k], src[l])
FlagsOf(rd, quiet, names, f, w) ==
    /\ f.action = TagOf(rd, w).value
    /\ "NOWARN" \in f.flags <=> quiet[w[1]]
    /\ "CCODED" \in f.flags => f.action \in names
Found(forms, rd, quiet, names, n, i, src) ==
    /\ FormsOf(rd, n, i, src) /\ Len(src) = Len(forms)
    /\ \A k \in DOMAIN src : FlagsOf(rd, quiet, names, forms[k], src[k])

\* What the inputs between two tags are called, the last one first.
NameIn(t) == IF t.tag = "input" THEN << t.name >> ELSE <<>>
Gathered(content, j, e) == FlattenSeq([k \in 1 .. e - j - 1 |-> NameIn(content[e - k])])

\* These are the controls of the form that begins at j.
Ended(content, j, controls) ==
    \E e \in Bounds(content) :
        j < e /\ (\A b \in Bounds(content) : b <= j \/ b >= e) /\ controls = Gathered(content, j, e)

\* The current form is the last one passed, and has no end yet; the others have their controls.
Current(forms, cur, rd, n, i, src) ==
    /\ cur # 0 => /\ src[cur][1] = n /\ src[cur][2] <= i
                  /\ \A b \in Bounds(rd[n]) : b <= src[cur][2] \/ b > i
                  /\ forms[cur].controls = Gathered(rd[n], src[cur][2], i + 1)
    /\ \A k \in DOMAIN src : k # cur => Ended(rd[src[k][1]], src[k][2], forms[k].controls)

LEMMA TagIs ==
    ASSUME NEW t \in Tag
    PROVE  /\ t.tag \in {"form", "endform", "input", "ref", "other"} /\ t.name \in Name /\ t.value \in Name
           /\ NameIn(t) \in Seq(Name)
<1>1. t.tag \in {"form", "endform", "input", "ref", "other"} /\ t.name \in Name /\ t.value \in Name
  BY DEF Tag
<1>2. << t.name >> \in Seq(Name) /\ <<>> \in Seq(Name)
  BY <1>1
<1>3. QED
  BY <1>1, <1>2 DEF NameIn

LEMMA GatheredMore ==
    ASSUME NEW content \in Seq(Tag), NEW j \in 1 .. Len(content), NEW e \in 1 .. Len(content), j < e
    PROVE  /\ Gathered(content, j, e) \in Seq(Name)
           /\ Gathered(content, j, e + 1) = NameIn(content[e]) \o Gathered(content, j, e)
<1>1. Len(content) \in Nat /\ j \in Nat /\ e \in Nat /\ \A k \in 1 .. Len(content) : NameIn(content[k]) \in Seq(Name)
  BY TagIs
<1> DEFINE m == e - j - 1
           p == [k \in 1 .. m |-> NameIn(content[e - k])]
           q == [k \in 1 .. m + 1 |-> NameIn(content[e + 1 - k])]
<1>2. m \in Nat /\ m + 1 = e + 1 - j - 1
  BY <1>1
<1>3. \A k \in 1 .. m : e - k \in 1 .. Len(content)
  BY <1>1
<1>4. \A k \in 1 .. m + 1 : e + 1 - k \in 1 .. Len(content)
  BY <1>1
<1>5. p \in [1 .. m -> Seq(Name)] /\ q \in [1 .. m + 1 -> Seq(Name)]
  BY <1>1, <1>3, <1>4
<1>6. Gathered(content, j, e) = FlattenSeq(p) /\ Gathered(content, j, e + 1) = FlattenSeq(q)
  BY <1>2 DEF Gathered
<1>7. q[1] = NameIn(content[e]) /\ \A k \in 1 .. m : q[k + 1] = p[k]
  <2>1. 1 \in 1 .. m + 1 /\ e + 1 - 1 = e
    BY <1>1, <1>2
  <2>2. \A k \in 1 .. m : k + 1 \in 1 .. m + 1 /\ e + 1 - (k + 1) = e - k
    BY <1>1, <1>2
  <2>3. QED
    BY <2>1, <2>2
<1> HIDE DEF m, p, q
<1>8. p \in Seq(Seq(Name)) /\ Len(p) = m /\ q \in Seq(Seq(Name)) /\ Len(q) = m + 1
  BY <1>2, <1>5, ListIs
<1>9. q # <<>> /\ Head(q) = q[1] /\ Tail(q) \in Seq(Seq(Name)) /\ Len(Tail(q)) = m /\ \A k \in 1 .. m : Tail(q)[k] = q[k + 1]
  <2>1. q # <<>>
    BY <1>2, <1>8
  <2>2. QED
    BY <1>2, <1>8, <2>1, FirstOf
<1>10. Tail(q) = p
  BY <1>7, <1>8, <1>9, SeqSame
<1>11. QED
  BY <1>6, <1>7, <1>8, <1>9, <1>10, FlatHead, FlatType

LEMMA GatheredNone ==
    ASSUME NEW content, NEW j \in Nat
    PROVE  Gathered(content, j, j + 1) = <<>>
<1>1. 1 .. j + 1 - j - 1 = {}
  OBVIOUS
<1>2. [k \in 1 .. j + 1 - j - 1 |-> NameIn(content[j + 1 - k])] = <<>>
  BY <1>1
<1>3. QED
  BY <1>2, FlatEmpty DEF Gathered

LEMMA TagPlaces ==
    ASSUME NEW content \in Seq(Tag)
    PROVE  /\ DOMAIN content = 1 .. Len(content) /\ Len(content) \in Nat
           /\ \A i : i \in Bounds(content) <=> i \in 1 .. Len(content) /\ content[i].tag \in {"form", "endform"}
           /\ \A i : i \in FormTags(content) <=>
                 i \in 1 .. Len(content) /\ content[i].tag = "form" /\ content[i].name # <<>>
BY DEF Bounds, FormTags

\* One tag more.
LEMMA PassedOne ==
    ASSUME NEW rd \in Seq(Seq(Tag)), NEW n \in 1 .. Len(rd), NEW i \in 1 .. Len(rd[n]), NEW w \in Nat \X Nat
    PROVE  Passed(rd, n, i, w) <=> Passed(rd, n, i - 1, w) \/ w = << n, i >>
<1>1. /\ DOMAIN rd = 1 .. Len(rd) /\ rd[n] \in Seq(Tag) /\ DOMAIN rd[n] = 1 .. Len(rd[n])
      /\ Len(rd[n]) \in Nat /\ Len(rd) \in Nat
  OBVIOUS
<1>2. PICK a \in Nat, b \in Nat : w = << a, b >> /\ w[1] = a /\ w[2] = b
  OBVIOUS
<1>3. n \in Nat /\ i \in Nat /\ (w = << n, i >> <=> a = n /\ b = i)
  BY <1>1, <1>2
<1>4. a = n => (b <= i <=> b <= i - 1 \/ b = i)
  BY <1>2, <1>3
<1>5. Passed(rd, n, i, w) <=> a \in DOMAIN rd /\ b \in DOMAIN rd[a] /\ (a < n \/ (a = n /\ b <= i))
  BY <1>2 DEF Passed
<1>6. Passed(rd, n, i - 1, w) <=> a \in DOMAIN rd /\ b \in DOMAIN rd[a] /\ (a < n \/ (a = n /\ b <= i - 1))
  BY <1>2 DEF Passed
<1>7. a = n /\ b = i => a \in DOMAIN rd /\ b \in DOMAIN rd[a]
  BY <1>1
<1>8. QED
  BY <1>3, <1>4, <1>5, <1>6, <1>7

LEMMA FormsSame ==
    ASSUME NEW rd \in Seq(Seq(Tag)), NEW n \in 1 .. Len(rd), NEW i \in 1 .. Len(rd[n]), NEW src,
           FormsOf(rd, n, i - 1, src), i \notin FormTags(rd[n])
    PROVE  FormsOf(rd, n, i, src)
<1>1. ~IsForm(rd, << n, i >>)
  BY DEF IsForm
<1>2. src \in Seq(Nat \X Nat) /\ \A k \in DOMAIN src : src[k] \in Nat \X Nat
  BY DEF FormsOf
<1>3. QED
  BY <1>1, <1>2, PassedOne DEF FormsOf

LEMMA FormsMore ==
    ASSUME NEW rd \in Seq(Seq(Tag)), NEW n \in 1 .. Len(rd), NEW i \in 1 .. Len(rd[n]), NEW src,
           FormsOf(rd, n, i - 1, src), i \in FormTags(rd[n])
    PROVE  FormsOf(rd, n, i, Append(src, << n, i >>))
<1>1. IsForm(rd, << n, i >>) /\ << n, i >> \in Nat \X Nat /\ n \in Nat /\ i \in Nat
  BY DEF IsForm
<1>2. /\ src \in Seq(Nat \X Nat)
      /\ \A k \in DOMAIN src : Passed(rd, n, i - 1, src[k]) /\ IsForm(rd, src[k])
      /\ \A w \in Nat \X Nat : Passed(rd, n, i - 1, w) /\ IsForm(rd, w) => \E k \in DOMAIN src : src[k] = w
      /\ \A k, l \in DOMAIN src : k < l => Before(src[k], src[l])
  BY DEF FormsOf
<1>3. PICK more : more = Append(src, << n, i >>)
  OBVIOUS
<1>4. PICK m \in Nat : m = Len(src)
  BY <1>2, LenProperties
<1>5. /\ more \in Seq(Nat \X Nat) /\ DOMAIN src = 1 .. m /\ DOMAIN more = 1 .. m + 1 /\ more[m + 1] = << n, i >>
      /\ \A k \in 1 .. m : more[k] = src[k] /\ src[k] \in Nat \X Nat
  BY <1>1, <1>2, <1>3, <1>4, OneMore, ElementOfSeq
<1>6. \A k \in 1 .. m + 1 : k \in 1 .. m \/ k = m + 1
  BY <1>4
<1>7. \A k \in DOMAIN more : Passed(rd, n, i, more[k]) /\ IsForm(rd, more[k])
  <2>1. \A w \in Nat \X Nat : Passed(rd, n, i, w) <=> Passed(rd, n, i - 1, w) \/ w = << n, i >>
    BY PassedOne
  <2>2. Passed(rd, n, i, << n, i >>) /\ IsForm(rd, << n, i >>)
    BY <1>1, <2>1
  <2>3. \A k \in 1 .. m : Passed(rd, n, i, src[k]) /\ IsForm(rd, src[k])
    BY <1>2, <1>5, <2>1
  <2>4. QED
    BY <1>5, <1>6, <2>2, <2>3
<1>8. ASSUME NEW w \in Nat \X Nat, Passed(rd, n, i, w), IsForm(rd, w)
      PROVE  \E k \in DOMAIN more : more[k] = w
  <2>1. CASE w = << n, i >>
    <3>1. m + 1 \in DOMAIN more /\ more[m + 1] = w
      BY <1>4, <1>5, <2>1
    <3>2. QED
      BY <3>1
  <2>2. CASE Passed(rd, n, i - 1, w)
    <3>1. PICK k \in 1 .. m : src[k] = w
      BY <1>2, <1>5, <1>8, <2>2
    <3>2. k \in 1 .. m + 1
      BY <1>4
    <3>3. QED
      BY <1>5, <3>1, <3>2
  <2>3. QED
    BY <1>8, <2>1, <2>2, PassedOne
<1>9. ASSUME NEW k \in DOMAIN more, NEW l \in DOMAIN more, k < l
      PROVE  Before(more[k], more[l])
  <2>1. k \in 1 .. m
    BY <1>4, <1>5, <1>9
  <2>2. CASE l \in 1 .. m
    BY <1>2, <1>5, <1>9, <2>1, <2>2
  <2>3. CASE l = m + 1
    <3>0. src[k] \in Nat \X Nat
      BY <1>5, <2>1
    <3>1. PICK a \in Nat, b \in Nat : src[k][1] = a /\ src[k][2] = b
      BY <3>0
    <3>2. Passed(rd, n, i - 1, src[k])
      BY <1>2, <1>5, <2>1
    <3>3. a < n \/ (a = n /\ b <= i - 1)
      BY <3>1, <3>2 DEF Passed
    <3>4. more[l][1] = n /\ more[l][2] = i
      <4>1. more[l] = << n, i >>
        BY <1>5, <2>3, Zenon
      <4>2. << n, i >>[1] = n /\ << n, i >>[2] = i
        OBVIOUS
      <4>3. QED
        BY <4>1, <4>2, Zenon
    <3>5. a < n \/ (a = n /\ b < i)
      BY <1>1, <3>1, <3>3
    <3>6. QED
      BY <1>5, <2>1, <3>1, <3>4, <3>5 DEF Before
  <2>4. QED
    BY <1>5, <1>6, <2>2, <2>3
<1>10. QED
  BY <1>3, <1>5, <1>7, <1>8, <1>9 DEF FormsOf

\* The next tag of a form, or its end, ends the current one.
LEMMA CurrentEnds ==
    ASSUME NEW rd \in Seq(Seq(Tag)), NEW n \in 1 .. Len(rd), NEW i \in 1 .. Len(rd[n]), NEW src, NEW forms, NEW cur,
           FormsOf(rd, n, i - 1, src), Current(forms, cur, rd, n, i - 1, src), i \in Bounds(rd[n])
    PROVE  \A k \in DOMAIN src : Ended(rd[src[k][1]], src[k][2], forms[k].controls)
<1>1. \A k \in DOMAIN src : k # cur => Ended(rd[src[k][1]], src[k][2], forms[k].controls)
  BY DEF Current
<1>2. ASSUME cur \in DOMAIN src
      PROVE  Ended(rd[src[cur][1]], src[cur][2], forms[cur].controls)
  <2>1. src \in Seq(Nat \X Nat)
    BY DEF FormsOf
  <2>2. cur # 0
    BY <1>2, <2>1
  <2>3. src[cur][2] \in Nat /\ i \in Nat
    BY <1>2, <2>1
  <2> DEFINE j == src[cur][2]
  <2>4. /\ src[cur][1] = n /\ j <= i - 1
        /\ \A b \in Bounds(rd[n]) : b <= j \/ b > i - 1
        /\ forms[cur].controls = Gathered(rd[n], j, (i - 1) + 1)
    BY <2>2 DEF Current
  <2>5. (i - 1) + 1 = i /\ j < i
    BY <2>3, <2>4
  <2>6. \A b \in Bounds(rd[n]) : b \in Nat
    <3>1. rd[n] \in Seq(Tag)
      OBVIOUS
    <3>2. QED
      BY <3>1, TagPlaces
  <2>7. \A b \in Bounds(rd[n]) : b <= j \/ b >= i
    BY <2>3, <2>4, <2>6
  <2> HIDE DEF j
  <2>8. Ended(rd[n], j, forms[cur].controls)
    BY <2>4, <2>5, <2>7 DEF Ended
  <2>9. QED
    BY <2>4, <2>8 DEF j
<1>3. QED
  BY <1>1, <1>2

LEMMA CurrentGoes ==
    ASSUME NEW rd \in Seq(Seq(Tag)), NEW n \in 1 .. Len(rd), NEW i \in 1 .. Len(rd[n]), NEW src, NEW forms, NEW cur,
           FormsOf(rd, n, i - 1, src), Current(forms, cur, rd, n, i - 1, src), i \notin Bounds(rd[n]),
           cur # 0 => cur \in DOMAIN src,
           NEW more, cur # 0 => more[cur].controls = NameIn(rd[n][i]) \o forms[cur].controls,
           \A k \in DOMAIN src : k # cur => more[k].controls = forms[k].controls
    PROVE  Current(more, cur, rd, n, i, src)
<1>1. \A k \in DOMAIN src : k # cur => Ended(rd[src[k][1]], src[k][2], more[k].controls)
  BY DEF Current
<1>2. CASE cur = 0
  BY <1>1, <1>2 DEF Current
<1>3. CASE cur # 0
  <2> DEFINE j == src[cur][2]
  <2>1. src \in Seq(Nat \X Nat) /\ Passed(rd, n, i - 1, src[cur]) /\ rd[n] \in Seq(Tag)
    BY <1>3 DEF FormsOf
  <2>2. j \in Nat /\ i \in Nat
    BY <1>3, <2>1
  <2>3. /\ src[cur][1] = n /\ j <= i - 1
        /\ \A b \in Bounds(rd[n]) : b <= j \/ b > i - 1
        /\ forms[cur].controls = Gathered(rd[n], j, (i - 1) + 1)
    BY <1>3 DEF Current
  <2>4. (i - 1) + 1 = i /\ j < i /\ j <= i
    BY <2>2, <2>3
  <2>5. j \in 1 .. Len(rd[n])
    BY <2>1, <2>3 DEF Passed
  <2>6. \A b \in Bounds(rd[n]) : b \in Nat /\ b # i
    <3>1. \A b \in Bounds(rd[n]) : b \in 1 .. Len(rd[n])
      BY <2>1, TagPlaces
    <3>2. QED
      BY <3>1
  <2>7. \A b \in Bounds(rd[n]) : b <= j \/ b > i
    BY <2>2, <2>3, <2>6
  <2> HIDE DEF j
  <2>8. Gathered(rd[n], j, i + 1) = NameIn(rd[n][i]) \o Gathered(rd[n], j, i)
    BY <2>1, <2>4, <2>5, GatheredMore
  <2>9. more[cur].controls = Gathered(rd[n], j, i + 1)
    BY <1>3, <2>3, <2>4, <2>8
  <2>10. QED
    BY <1>1, <2>3, <2>4, <2>7, <2>9 DEF Current, j
<1>4. QED
  BY <1>2, <1>3

\* What a tag does to the forms.
NewForm(t, nowarn) == [action |-> t.value, controls |-> <<>>, flags |-> IF nowarn THEN {"NOWARN"} ELSE {}]
Begins(t) == t.tag = "form" /\ t.name # <<>>
Bound(t)  == t.tag \in {"form", "endform"}

TagDoes(s, t, nowarn, y) ==
    /\ ~s.failed
    /\ Begins(t) => y.formlist = Append(s.formlist, NewForm(t, nowarn)) /\ y.currentform = Len(s.formlist) + 1
    /\ Bound(t) /\ ~Begins(t) => y.formlist = s.formlist /\ y.currentform = 0
    /\ ~Bound(t) => y.currentform = s.currentform
    /\ t.tag = "input" /\ s.currentform # 0 => y.formlist = [s.formlist EXCEPT ![s.currentform].controls = << t.name >> \o @]
    /\ ~Bound(t) /\ (t.tag # "input" \/ s.currentform = 0) => y.formlist = s.formlist
    /\ IF t.tag = "ref" THEN y.references = newref(s, t.value).references ELSE y.references = s.references

LEMMA TagDone ==
    ASSUME NEW s \in TagStates, NEW t \in Tag, NEW nowarn \in BOOLEAN, NEW y, y = TakeTag(s, t, nowarn), ~y.failed
    PROVE  TagDoes(s, t, nowarn, y)
<1>1. s \in TagState
  BY DEF TagStates
<1>2. \A f, c : /\ [s EXCEPT !.currentform = c].currentform = c /\ [s EXCEPT !.currentform = c].formlist = s.formlist
                /\ [s EXCEPT !.currentform = c].references = s.references
                /\ [s EXCEPT !.formlist = f].formlist = f /\ [s EXCEPT !.formlist = f].currentform = s.currentform
                /\ [s EXCEPT !.formlist = f].references = s.references
                /\ [s EXCEPT !.formlist = f, !.currentform = c].formlist = f
                /\ [s EXCEPT !.formlist = f, !.currentform = c].currentform = c
                /\ [s EXCEPT !.formlist = f, !.currentform = c].references = s.references
                /\ [s EXCEPT !.references = f].formlist = s.formlist /\ [s EXCEPT !.references = f].currentform = s.currentform
                /\ [s EXCEPT !.failed = TRUE].failed
  BY <1>1 DEF TagState
<1>3. ~s.failed
  BY <1>1 DEF TakeTag, TagState
<1>4. CASE Begins(t)
  <2>1. y = [s EXCEPT !.formlist = Append(@, NewForm(t, nowarn)), !.currentform = Len(s.formlist) + 1]
    BY <1>3, <1>4 DEF Begins, TakeTag, newform, NewForm
  <2>2. y = [s EXCEPT !.formlist = Append(s.formlist, NewForm(t, nowarn)), !.currentform = Len(s.formlist) + 1]
    BY <1>1, <2>1 DEF TagState
  <2>3. t.tag = "form"
    BY <1>4 DEF Begins
  <2>4. QED
    BY <1>2, <1>3, <1>4, <2>2, <2>3 DEF TagDoes, Bound
<1>5. CASE Bound(t) /\ ~Begins(t)
  <2>1. y = [s EXCEPT !.currentform = 0]
    BY <1>3, <1>5, TagIs DEF Bound, Begins, TakeTag, newform
  <2>2. QED
    BY <1>2, <1>3, <1>5, <2>1 DEF TagDoes, Bound
<1>6. CASE t.tag = "input"
  <2>1. y = NewControl(s, t) /\ ~Bound(t) /\ ~Begins(t)
    BY <1>3, <1>6 DEF TakeTag, Bound, Begins
  <2>2. CASE s.currentform = 0
    BY <1>3, <1>6, <2>1, <2>2 DEF NewControl, TagDoes
  <2>3. CASE s.currentform # 0
    <3>1. t.value # <<>>
      BY <1>2, <2>1, <2>3, TagIs DEF NewControl
    <3>2. y = [s EXCEPT !.formlist[s.currentform].controls = << t.name >> \o @]
      BY <2>1, <2>3, <3>1 DEF NewControl
    <3> DEFINE g == [s.formlist EXCEPT ![s.currentform].controls = << t.name >> \o @]
    <3>3. y = [s EXCEPT !.formlist = g]
      BY <1>1, <3>2 DEF TagState
    <3> HIDE DEF g
    <3>4. y.formlist = g /\ y.currentform = s.currentform /\ y.references = s.references
      BY <1>2, <3>3
    <3>5. QED
      BY <1>3, <1>6, <2>1, <2>3, <3>4 DEF TagDoes, g
  <2>4. QED
    BY <2>2, <2>3
<1>7. CASE t.tag = "ref"
  <2>1. y = newref(s, t.value) /\ ~Bound(t) /\ ~Begins(t)
    BY <1>3, <1>7 DEF TakeTag, Bound, Begins
  <2>2. y.formlist = s.formlist /\ y.currentform = s.currentform
    BY <1>2, <2>1 DEF newref
  <2>3. QED
    BY <1>3, <1>7, <2>1, <2>2 DEF TagDoes
<1>8. CASE t.tag = "other"
  <2>1. y = s /\ ~Bound(t) /\ ~Begins(t)
    BY <1>3, <1>8 DEF TakeTag, Bound, Begins
  <2>2. QED
    BY <1>3, <1>8, <2>1 DEF TagDoes
<1>9. QED
  BY <1>4, <1>5, <1>6, <1>7, <1>8, TagIs DEF Bound

LEMMA TagBounds ==
    ASSUME NEW content \in Seq(Tag), NEW i \in 1 .. Len(content)
    PROVE  /\ i \in Bounds(content) <=> Bound(content[i])
           /\ i \in FormTags(content) <=> Begins(content[i])
BY TagPlaces DEF Bound, Begins

\* A list with one element changed, and with one more.
Changed(q, k, x, p) == Len(p) = Len(q) /\ \A j \in 1 .. Len(q) : p[j] = IF j = k THEN x ELSE q[j]
Longer(q, x, p) ==
    /\ Len(p) = Len(q) + 1 /\ DOMAIN p = 1 .. Len(q) + 1 /\ p[Len(q) + 1] = x
    /\ \A j \in 1 .. Len(q) : p[j] = q[j]

LEMMA ListSet ==
    ASSUME NEW S, NEW q \in Seq(S), NEW k \in 1 .. Len(q), NEW x
    PROVE  Changed(q, k, x, [q EXCEPT ![k] = x])
<1>1. Len(q) \in Nat /\ [q EXCEPT ![k] = x] = [j \in 1 .. Len(q) |-> IF j = k THEN x ELSE q[j]]
  OBVIOUS
<1>2. QED
  BY <1>1 DEF Changed

LEMMA ListLonger ==
    ASSUME NEW S, NEW q \in Seq(S), NEW x \in S
    PROVE  Longer(q, x, Append(q, x))
BY OneMore DEF Longer

GivenTo(forms, k, c, more) ==
    /\ Len(more) = Len(forms) /\ more[k].controls = c \o forms[k].controls
    /\ \A j \in 1 .. Len(forms) : j # k => more[j] = forms[j]
    /\ \A j \in 1 .. Len(forms) : more[j].action = forms[j].action /\ more[j].flags = forms[j].flags

LEMMA ControlsSet ==
    ASSUME NEW forms \in Seq(FormRec), NEW k \in 1 .. Len(forms), NEW c
    PROVE  GivenTo(forms, k, c, [forms EXCEPT ![k].controls = c \o @])
<1>0. PICK more : more = [forms EXCEPT ![k].controls = c \o @]
  OBVIOUS
<1>1. forms[k] \in FormRec /\ Len(forms) \in Nat
  OBVIOUS
<1>2. PICK r : r = [forms[k] EXCEPT !.controls = c \o @]
  OBVIOUS
<1>3. r.controls = c \o forms[k].controls /\ r.action = forms[k].action /\ r.flags = forms[k].flags
  BY <1>1, <1>2 DEF FormRec
<1>4. more = [forms EXCEPT ![k] = r]
  BY <1>0, <1>2
<1>5. Changed(forms, k, r, more)
  <2>1. Changed(forms, k, r, [forms EXCEPT ![k] = r])
    BY ListSet
  <2>2. QED
    BY <1>4, <2>1, Zenon
<1>6. GivenTo(forms, k, c, more)
  BY <1>3, <1>5 DEF Changed, GivenTo
<1>7. QED
  BY <1>0, <1>6

StepsTo(s, y, rd, quiet, names, n, i, src, more) ==
    /\ Found(y.formlist, rd, quiet, names, n, i, more)
    /\ Current(s.formlist, s.currentform, rd, n, i - 1, src) => Current(y.formlist, y.currentform, rd, n, i, more)

LEMMA TagFound ==
    ASSUME NEW rd \in Seq(Seq(Tag)), NEW n \in 1 .. Len(rd), NEW i \in 1 .. Len(rd[n]), NEW src, NEW s \in TagStates,
           NEW quiet, NEW names, Found(s.formlist, rd, quiet, names, n, i - 1, src), NEW nowarn \in BOOLEAN,
           nowarn <=> quiet[n], NEW y, y = TakeTag(s, rd[n][i], nowarn), ~y.failed
    PROVE  \E more : StepsTo(s, y, rd, quiet, names, n, i, src, more)
<1>1. rd[n] \in Seq(Tag) /\ rd[n][i] \in Tag /\ n \in Nat /\ i \in Nat
  OBVIOUS
<1>2. PICK t \in Tag : t = rd[n][i]
  BY <1>1
<1>3. TagDoes(s, t, nowarn, y)
  BY <1>2, TagDone
<1>4. (i \in Bounds(rd[n]) <=> Bound(t)) /\ (i \in FormTags(rd[n]) <=> Begins(t))
  BY <1>1, <1>2, TagBounds
<1>5. s.formlist \in Seq(FormRec) /\ s.currentform \in 0 .. Len(s.formlist) /\ Len(s.formlist) \in Nat
  BY DEF TagStates, TagState
<1>6. /\ FormsOf(rd, n, i - 1, src) /\ Len(src) = Len(s.formlist) /\ src \in Seq(Nat \X Nat)
      /\ DOMAIN src = 1 .. Len(s.formlist)
      /\ \A k \in DOMAIN src : FlagsOf(rd, quiet, names, s.formlist[k], src[k])
  <2>1. FormsOf(rd, n, i - 1, src) /\ Len(src) = Len(s.formlist) /\ src \in Seq(Nat \X Nat)
    BY DEF Found, FormsOf
  <2>2. QED
    BY <2>1 DEF Found
<1>7. CASE Begins(t)
  <2> DEFINE more == Append(src, << n, i >>)
             r == NewForm(t, nowarn)
  <2>0. PICK m \in Nat, forms \in Seq(FormRec) :
            forms = s.formlist /\ m = Len(forms) /\ m = Len(src) /\ DOMAIN src = 1 .. m
    BY <1>5, <1>6
  <2>1. FormsOf(rd, n, i, more)
    BY <1>4, <1>6, <1>7, FormsMore
  <2>2. r \in FormRec /\ r.action = t.value /\ r.controls = <<>> /\ r.flags = IF nowarn THEN {"NOWARN"} ELSE {}
    BY <1>2, TagIs DEF NewForm, FormRec
  <2>3. y.formlist = Append(forms, r) /\ y.currentform = m + 1
    BY <1>3, <1>7, <2>0 DEF TagDoes
  <2> HIDE DEF r
  <2>4. Len(y.formlist) = m + 1 /\ y.formlist[m + 1] = r /\ \A k \in 1 .. m : y.formlist[k] = forms[k]
    <3>1. Longer(forms, r, y.formlist)
      BY <2>0, <2>2, <2>3, ListLonger
    <3>2. QED
      BY <2>0, <3>1 DEF Longer
  <2>5. << n, i >> \in Nat \X Nat
    BY <1>1
  <2>6. Len(more) = m + 1 /\ DOMAIN more = 1 .. m + 1 /\ more[m + 1] = << n, i >> /\ \A k \in 1 .. m : more[k] = src[k]
    <3>1. PICK x \in Nat \X Nat : x = << n, i >>
      BY <2>5
    <3>2. Longer(src, x, Append(src, x))
      BY <1>6, ListLonger
    <3>3. QED
      BY <2>0, <3>1, <3>2 DEF Longer
  <2> HIDE DEF more
  <2>7. \A k \in 1 .. m + 1 : k \in 1 .. m \/ k = m + 1
    OBVIOUS
  <2>8. << n, i >>[1] = n /\ << n, i >>[2] = i
    OBVIOUS
  <2>9. FlagsOf(rd, quiet, names, r, << n, i >>)
    BY <1>2, <2>2, <2>8 DEF FlagsOf, TagOf
  <2>10. Found(y.formlist, rd, quiet, names, n, i, more)
    BY <1>6, <2>0, <2>1, <2>4, <2>6, <2>7, <2>9 DEF Found
  <2>11. ASSUME Current(s.formlist, s.currentform, rd, n, i - 1, src)
         PROVE  Current(y.formlist, y.currentform, rd, n, i, more)
    <3>1. \A k \in 1 .. m : Ended(rd[src[k][1]], src[k][2], s.formlist[k].controls)
      <4>1. i \in Bounds(rd[n])
        BY <1>4, <1>7 DEF Begins, Bound
      <4>2. QED
        BY <1>6, <2>0, <2>11, <4>1, CurrentEnds
    <3>2. \A k \in DOMAIN more : k # m + 1 => Ended(rd[more[k][1]], more[k][2], y.formlist[k].controls)
      BY <2>0, <2>4, <2>6, <2>7, <3>1
    <3>3. y.formlist[m + 1].controls = Gathered(rd[n], i, i + 1)
      BY <1>1, <2>2, <2>4, GatheredNone
    <3>4. \A b \in Bounds(rd[n]) : b <= i \/ b > i
      BY <1>1, TagPlaces
    <3>5. i <= i /\ more[m + 1][1] = n /\ more[m + 1][2] = i
      BY <1>1, <2>6, <2>8
    <3>6. QED
      BY <2>3, <3>2, <3>3, <3>4, <3>5 DEF Current
  <2>12. QED
    BY <2>10, <2>11 DEF StepsTo
<1>8. CASE ~Begins(t)
  <2>1. FormsOf(rd, n, i, src)
    BY <1>4, <1>6, <1>8, FormsSame
  <2>2. CASE Bound(t)
    <3>1. y.formlist = s.formlist /\ y.currentform = 0
      BY <1>3, <1>8, <2>2 DEF TagDoes
    <3>2. Found(y.formlist, rd, quiet, names, n, i, src)
      BY <1>6, <2>1, <3>1 DEF Found
    <3>3. ASSUME Current(s.formlist, s.currentform, rd, n, i - 1, src)
          PROVE  Current(y.formlist, y.currentform, rd, n, i, src)
      <4>1. \A k \in DOMAIN src : Ended(rd[src[k][1]], src[k][2], s.formlist[k].controls)
        BY <1>4, <1>6, <2>2, <3>3, CurrentEnds
      <4>2. QED
        BY <3>1, <4>1 DEF Current
    <3>4. QED
      BY <3>2, <3>3 DEF StepsTo
  <2>3. CASE ~Bound(t)
    <3> DEFINE c == s.currentform
    <3>1. y.currentform = c
      BY <1>3, <2>3 DEF TagDoes
    <3>2. /\ Len(y.formlist) = Len(s.formlist)
          /\ c # 0 => y.formlist[c].controls = NameIn(t) \o s.formlist[c].controls
          /\ \A k \in DOMAIN src : k # c => y.formlist[k].controls = s.formlist[k].controls
          /\ \A k \in DOMAIN src : y.formlist[k].action = s.formlist[k].action /\ y.formlist[k].flags = s.formlist[k].flags
      <4>1. CASE t.tag = "input" /\ c # 0
        <5>1. y.formlist = [s.formlist EXCEPT ![c].controls = << t.name >> \o @]
          BY <1>3, <4>1 DEF TagDoes
        <5>2. NameIn(t) = << t.name >> /\ c \in 1 .. Len(s.formlist)
          BY <1>5, <4>1 DEF NameIn
        <5> HIDE DEF c
        <5>3. GivenTo(s.formlist, c, << t.name >>, y.formlist)
          <6>0. PICK f \in Seq(FormRec) : f = s.formlist
            BY <1>5
          <6>1. PICK k \in 1 .. Len(f), a \in Seq(Name) : k = c /\ a = << t.name >>
            BY <5>2, <6>0, TagIs
          <6>2. GivenTo(f, k, a, [f EXCEPT ![k].controls = a \o @])
            BY ControlsSet
          <6>3. y.formlist = [f EXCEPT ![k].controls = a \o @]
            BY <5>1, <6>0, <6>1
          <6>4. QED
            BY <6>0, <6>1, <6>2, <6>3
        <5>4. QED
          BY <1>6, <5>2, <5>3 DEF GivenTo
      <4>2. CASE ~(t.tag = "input" /\ c # 0)
        <5>1. y.formlist = s.formlist
          BY <1>3, <2>3, <4>2 DEF TagDoes
        <5>2. c # 0 => NameIn(t) = <<>> /\ s.formlist[c].controls \in Seq(Name)
          <6>1. \A k \in 1 .. Len(s.formlist) : s.formlist[k] \in FormRec
            BY <1>5
          <6>2. \A k \in 1 .. Len(s.formlist) : s.formlist[k].controls \in Seq(Name)
            BY <6>1 DEF FormRec
          <6>3. QED
            BY <1>5, <4>2, <6>2 DEF NameIn
        <5>3. \A q \in Seq(Name) : <<>> \o q = q
          OBVIOUS
        <5>4. c # 0 => y.formlist[c].controls = NameIn(t) \o s.formlist[c].controls
          BY <5>1, <5>2, <5>3
        <5>5. QED
          BY <5>1, <5>4
      <4>3. QED
        BY <4>1, <4>2
    <3>3. Found(y.formlist, rd, quiet, names, n, i, src)
      BY <1>6, <2>1, <3>2 DEF Found, FlagsOf
    <3>4. ASSUME Current(s.formlist, s.currentform, rd, n, i - 1, src)
          PROVE  Current(y.formlist, y.currentform, rd, n, i, src)
      <4>1. i \notin Bounds(rd[n]) /\ (c # 0 => c \in DOMAIN src)
        BY <1>4, <1>5, <1>6, <2>3
      <4> HIDE DEF c
      <4>2. Current(s.formlist, c, rd, n, i - 1, src)
        BY <3>4 DEF c
      <4>3. Current(y.formlist, c, rd, n, i, src)
        <5>1. PICK forms, more : forms = s.formlist /\ more = y.formlist
          OBVIOUS
        <5>2. /\ c # 0 => more[c].controls = NameIn(rd[n][i]) \o forms[c].controls
              /\ \A k \in DOMAIN src : k # c => more[k].controls = forms[k].controls
          BY <1>2, <3>2, <5>1
        <5>3. FormsOf(rd, n, i - 1, src) /\ Current(forms, c, rd, n, i - 1, src)
          BY <1>6, <4>2, <5>1
        <5>4. Current(more, c, rd, n, i, src)
          BY <4>1, <5>2, <5>3, CurrentGoes
        <5>5. QED
          BY <5>1, <5>4
      <4>4. QED
        BY <3>1, <4>3
    <3>5. QED
      BY <3>3, <3>4 DEF StepsTo
  <2>4. QED
    BY <2>2, <2>3
<1>9. QED
  BY <1>7, <1>8

\* A name kept, or one that need not be: the references are those of the tags passed.
Kept(refs, name) == name = <<>> \/ name[1] = SCRIPT \/ ref_lookup(refs, name)
RefTag(rd, n, i, w) == Passed(rd, n, i, w) /\ TagOf(rd, w).tag = "ref"
RefsOf(refs, rd, n, i) ==
    /\ \A r \in refs : /\ r # <<>> /\ r[1] # SCRIPT
                       /\ \E w \in Nat \X Nat : RefTag(rd, n, i, w) /\ TagOf(rd, w).value = r
    /\ \A w \in Nat \X Nat : RefTag(rd, n, i, w) => Kept(refs, TagOf(rd, w).value)

LEMMA RefTaken ==
    ASSUME NEW rd \in Seq(Seq(Tag)), NEW n \in 1 .. Len(rd), NEW i \in 1 .. Len(rd[n]), NEW s \in TagStates,
           NEW t \in Tag, t = rd[n][i], NEW nowarn, NEW y, TagDoes(s, t, nowarn, y), RefsOf(s.references, rd, n, i - 1)
    PROVE  RefsOf(y.references, rd, n, i)
<1>1. << n, i >> \in Nat \X Nat /\ TagOf(rd, << n, i >>) = t
  BY DEF TagOf
<1>2. \A w \in Nat \X Nat : RefTag(rd, n, i, w) <=> RefTag(rd, n, i - 1, w) \/ (w = << n, i >> /\ t.tag = "ref")
  BY <1>1, PassedOne DEF RefTag
<1>3. /\ \A r \in s.references : /\ r # <<>> /\ r[1] # SCRIPT
                                 /\ \E w \in Nat \X Nat : RefTag(rd, n, i, w) /\ TagOf(rd, w).value = r
      /\ \A w \in Nat \X Nat : RefTag(rd, n, i - 1, w) => Kept(s.references, TagOf(rd, w).value)
  BY <1>2 DEF RefsOf
<1>4. CASE t.tag # "ref"
  <2>1. y.references = s.references
    BY <1>4 DEF TagDoes
  <2>2. QED
    BY <1>2, <1>3, <1>4, <2>1 DEF RefsOf
<1>5. CASE t.tag = "ref"
  <2>1. PICK v \in Name : v = t.value
    BY TagIs
  <2>2. y.references = newref(s, v).references
    BY <1>5, <2>1 DEF TagDoes
  <2>3. CASE v = <<>> \/ v[1] = SCRIPT \/ ref_lookup(s.references, v)
    <3>1. y.references = s.references
      BY <2>2, <2>3 DEF newref
    <3>2. Kept(s.references, v)
      BY <2>3 DEF Kept
    <3>3. QED
      BY <1>1, <1>2, <1>3, <2>1, <3>1, <3>2 DEF RefsOf
  <2>4. CASE ~(v = <<>> \/ v[1] = SCRIPT \/ ref_lookup(s.references, v))
    <3>1. s \in TagState
      BY DEF TagStates
    <3>2. newref(s, v) = [s EXCEPT !.references = s.references \cup {v}]
      BY <2>4, <3>1 DEF newref, TagState
    <3>3. y.references = s.references \cup {v}
      BY <2>2, <3>1, <3>2 DEF TagState
    <3>4. \A u : ref_lookup(s.references, u) => ref_lookup(y.references, u)
      BY <3>3 DEF ref_lookup
    <3>5. ref_lookup(y.references, v)
      BY <2>1, <3>3, PrefixOfItself DEF ref_lookup
    <3>6. \A u : Kept(s.references, u) => Kept(y.references, u)
      BY <3>4 DEF Kept
    <3>7. Kept(y.references, v)
      BY <3>5 DEF Kept
    <3>8. \A w \in Nat \X Nat : RefTag(rd, n, i, w) => Kept(y.references, TagOf(rd, w).value)
      BY <1>1, <1>2, <1>3, <2>1, <3>6, <3>7
    <3>9. v # <<>> /\ v[1] # SCRIPT /\ RefTag(rd, n, i, << n, i >>) /\ TagOf(rd, << n, i >>).value = v
      BY <1>1, <1>2, <1>5, <2>1, <2>4
    <3>10. \A r \in y.references : /\ r # <<>> /\ r[1] # SCRIPT
                                   /\ \E w \in Nat \X Nat : RefTag(rd, n, i, w) /\ TagOf(rd, w).value = r
      BY <1>1, <1>3, <3>3, <3>9
    <3>11. QED
      BY <3>8, <3>10 DEF RefsOf
  <2>5. QED
    BY <2>3, <2>4
<1>6. QED
  BY <1>4, <1>5

\* From one content to the next.
NextPassed(rd, more, n, i, w) ==
    /\ Passed(more, n, 0, w) <=> Passed(rd, n, 0, w)
    /\ Passed(rd, n, 0, w) => more[w[1]] = rd[w[1]]
    /\ Passed(more, n, i, w) <=> Passed(more, n + 1, 0, w)

LEMMA PassedNext ==
    ASSUME NEW rd \in Seq(Seq(Tag)), NEW c \in Seq(Tag), NEW more, more = Append(rd, c), NEW n, n = Len(rd) + 1,
           NEW w \in Nat \X Nat
    PROVE  NextPassed(rd, more, n, Len(c), w)
<1>1. Longer(rd, c, more)
  BY ListLonger
<1>2. PICK a \in Nat, b \in Nat : w[1] = a /\ w[2] = b
  OBVIOUS
<1>3. PICK m \in Nat : m = Len(rd) /\ n = m + 1 /\ DOMAIN rd = 1 .. m
  OBVIOUS
<1>4. DOMAIN more = 1 .. m + 1 /\ more[m + 1] = c /\ \A j \in 1 .. m : more[j] = rd[j]
  BY <1>1, <1>3 DEF Longer
<1>5. \A k \in 1 .. m + 1 : more[k] \in Seq(Tag)
  <2>1. \A k \in 1 .. m + 1 : k \in 1 .. m \/ k = m + 1
    BY <1>3
  <2>2. \A k \in 1 .. m : rd[k] \in Seq(Tag)
    BY <1>3
  <2>3. QED
    BY <1>4, <2>1, <2>2
<1>6. \A k \in 1 .. m + 1 : DOMAIN more[k] = 1 .. Len(more[k]) /\ Len(more[k]) \in Nat
  <2>1. \A q \in Seq(Tag) : DOMAIN q = 1 .. Len(q) /\ Len(q) \in Nat
    OBVIOUS
  <2>2. QED
    BY <1>5, <2>1
<1>7. Passed(more, n, 0, w) <=> a \in 1 .. m + 1 /\ b \in DOMAIN more[a] /\ (a < m + 1 \/ (a = m + 1 /\ b <= 0))
  BY <1>2, <1>3, <1>4 DEF Passed
<1>8. Passed(rd, n, 0, w) <=> a \in 1 .. m /\ b \in DOMAIN rd[a] /\ (a < m + 1 \/ (a = m + 1 /\ b <= 0))
  BY <1>2, <1>3 DEF Passed
<1>9. a \in 1 .. m + 1 /\ b \in DOMAIN more[a] => b > 0
  <2>1. \A l \in Nat : b \in 1 .. l => b > 0
    BY <1>2
  <2>2. QED
    BY <1>6, <2>1
<1>10. a \in 1 .. m <=> a \in 1 .. m + 1 /\ a < m + 1
  BY <1>3
<1>11. Passed(more, n, 0, w) <=> Passed(rd, n, 0, w)
  BY <1>4, <1>7, <1>8, <1>9, <1>10
<1>12. Passed(rd, n, 0, w) => more[w[1]] = rd[w[1]]
  BY <1>2, <1>4, <1>8
<1>13. Passed(more, n, Len(c), w) <=> a \in 1 .. m + 1 /\ b \in DOMAIN more[a] /\ (a < m + 1 \/ (a = m + 1 /\ b <= Len(c)))
  BY <1>2, <1>3, <1>4 DEF Passed
<1>14. Passed(more, n + 1, 0, w) <=> a \in 1 .. m + 1 /\ b \in DOMAIN more[a] /\ (a < m + 1 + 1 \/ (a = m + 1 + 1 /\ b <= 0))
  BY <1>2, <1>3, <1>4 DEF Passed
<1>15. a = m + 1 /\ b \in DOMAIN more[a] => b <= Len(c)
  BY <1>4
<1>16. a \in 1 .. m + 1 => (a < m + 1 \/ a = m + 1) /\ a < m + 1 + 1
  BY <1>3
<1>17. QED
  BY <1>11, <1>12, <1>13, <1>14, <1>15, <1>16 DEF NextPassed

Finished(forms, rd, src) == \A k \in DOMAIN src : Ended(rd[src[k][1]], src[k][2], forms[k].controls)

Opening(rd, more, n, forms, quiet, names, refs, src) ==
    /\ Found(forms, rd, quiet, names, n, 0, src) => Found(forms, more, quiet, names, n, 0, src)
    /\ Found(forms, rd, quiet, names, n, 0, src) /\ Finished(forms, rd, src) => Finished(forms, more, src)
    /\ RefsOf(refs, rd, n, 0) => RefsOf(refs, more, n, 0)
Closing(more, n, i, forms, quiet, names, refs, src) ==
    /\ Found(forms, more, quiet, names, n, i, src) => Found(forms, more, quiet, names, n + 1, 0, src)
    /\ RefsOf(refs, more, n, i) => RefsOf(refs, more, n + 1, 0)

LEMMA ContentOpens ==
    ASSUME NEW rd \in Seq(Seq(Tag)), NEW c \in Seq(Tag), NEW more, more = Append(rd, c), NEW n, n = Len(rd) + 1,
           NEW forms, NEW quiet, NEW names, NEW refs, NEW src
    PROVE  Opening(rd, more, n, forms, quiet, names, refs, src)
<1>1. \A w \in Nat \X Nat : /\ Passed(more, n, 0, w) <=> Passed(rd, n, 0, w)
                            /\ Passed(rd, n, 0, w) => more[w[1]] = rd[w[1]]
  <2> TAKE w \in Nat \X Nat
  <2>1. NextPassed(rd, more, n, Len(c), w)
    BY PassedNext
  <2>2. QED
    BY <2>1 DEF NextPassed
<1>2. \A w \in Nat \X Nat : Passed(rd, n, 0, w) =>
          TagOf(more, w) = TagOf(rd, w) /\ (IsForm(more, w) <=> IsForm(rd, w))
  BY <1>1 DEF TagOf, IsForm
<1>3. \A w \in Nat \X Nat : /\ RefTag(more, n, 0, w) <=> RefTag(rd, n, 0, w)
                            /\ RefTag(rd, n, 0, w) => TagOf(more, w) = TagOf(rd, w)
  BY <1>1, <1>2 DEF RefTag
<1>4. RefsOf(refs, rd, n, 0) => RefsOf(refs, more, n, 0)
  BY <1>3 DEF RefsOf
<1>5. ASSUME Found(forms, rd, quiet, names, n, 0, src)
      PROVE  Found(forms, more, quiet, names, n, 0, src) /\ (Finished(forms, rd, src) => Finished(forms, more, src))
  <2>1. FormsOf(rd, n, 0, src) /\ Len(src) = Len(forms)
        /\ \A k \in DOMAIN src : FlagsOf(rd, quiet, names, forms[k], src[k])
    BY <1>5 DEF Found
  <2>2. src \in Seq(Nat \X Nat) /\ \A k \in DOMAIN src : src[k] \in Nat \X Nat /\ Passed(rd, n, 0, src[k])
    BY <2>1 DEF FormsOf
  <2>3. FormsOf(more, n, 0, src)
    BY <1>1, <1>2, <2>1, <2>2 DEF FormsOf
  <2>4. \A k \in DOMAIN src : FlagsOf(more, quiet, names, forms[k], src[k])
    BY <1>2, <2>1, <2>2 DEF FlagsOf
  <2>5. Finished(forms, rd, src) => Finished(forms, more, src)
    BY <1>1, <2>2 DEF Finished
  <2>6. QED
    BY <2>1, <2>3, <2>4, <2>5 DEF Found
<1>6. QED
  BY <1>4, <1>5 DEF Opening

LEMMA ContentCloses ==
    ASSUME NEW rd \in Seq(Seq(Tag)), NEW c \in Seq(Tag), NEW more, more = Append(rd, c), NEW n, n = Len(rd) + 1,
           NEW forms, NEW quiet, NEW names, NEW refs, NEW src
    PROVE  Closing(more, n, Len(c), forms, quiet, names, refs, src)
<1>1. \A w \in Nat \X Nat : Passed(more, n, Len(c), w) <=> Passed(more, n + 1, 0, w)
  <2> TAKE w \in Nat \X Nat
  <2>1. NextPassed(rd, more, n, Len(c), w)
    BY PassedNext
  <2>2. QED
    BY <2>1 DEF NextPassed
<1>2. \A w \in Nat \X Nat : RefTag(more, n, Len(c), w) <=> RefTag(more, n + 1, 0, w)
  BY <1>1 DEF RefTag
<1>3. RefsOf(refs, more, n, Len(c)) => RefsOf(refs, more, n + 1, 0)
  BY <1>2 DEF RefsOf
<1>4. FormsOf(more, n, Len(c), src) => FormsOf(more, n + 1, 0, src)
  <2>1. src \in Seq(Nat \X Nat) => \A k \in DOMAIN src : src[k] \in Nat \X Nat
    OBVIOUS
  <2>2. QED
    BY <1>1, <2>1 DEF FormsOf
<1>5. QED
  BY <1>3, <1>4 DEF Closing, Found

\* A content that ends its forms leaves no current one.
LEMMA CurrentClosed ==
    ASSUME NEW rd \in Seq(Seq(Tag)), NEW n \in 1 .. Len(rd), NEW src, NEW forms, NEW cur \in Nat,
           FormsOf(rd, n, Len(rd[n]), src), Current(forms, cur, rd, n, Len(rd[n]), src), Closed(rd[n]),
           cur # 0 => cur \in DOMAIN src
    PROVE  cur = 0 /\ Finished(forms, rd, src)
<1>1. rd[n] \in Seq(Tag)
  OBVIOUS
<1>2. ASSUME cur # 0
      PROVE  FALSE
  <2>1. PICK j : j = src[cur][2]
    OBVIOUS
  <2>2. src[cur][1] = n /\ \A b \in Bounds(rd[n]) : b <= j \/ b > Len(rd[n])
    BY <1>2, <2>1 DEF Current
  <2>3. IsForm(rd, src[cur])
    BY <1>2 DEF FormsOf
  <2>4. j \in FormTags(rd[n])
    BY <2>1, <2>2, <2>3 DEF IsForm
  <2>5. j \in Bounds(rd[n]) /\ rd[n][j].tag = "form"
    BY <1>1, <2>4, TagPlaces
  <2>6. PICK e \in Bounds(rd[n]) : e > j
    BY <2>5 DEF Closed
  <2>7. e \in 1 .. Len(rd[n]) /\ j \in 1 .. Len(rd[n]) /\ Len(rd[n]) \in Nat
    BY <1>1, <2>5, <2>6, TagPlaces
  <2>8. QED
    BY <2>2, <2>6, <2>7
<1>3. src \in Seq(Nat \X Nat)
  BY DEF FormsOf
<1>4. \A k \in DOMAIN src : k # 0
  BY <1>3
<1>5. Finished(forms, rd, src)
  BY <1>2, <1>4 DEF Current, Finished
<1>6. QED
  BY <1>2, <1>5

ContentRead(s, y, rd, more, n, quiet, names, src, new) ==
    /\ Found(y.formlist, more, quiet, names, n + 1, 0, new)
    /\ s.currentform = 0 /\ Finished(s.formlist, rd, src) /\ Closed(more[n])
         => y.currentform = 0 /\ Finished(y.formlist, more, new)
    /\ RefsOf(y.references, more, n + 1, 0)

LEMMA ContentFound ==
    ASSUME NEW rd \in Seq(Seq(Tag)), NEW c \in Seq(Tag), NEW more, more = Append(rd, c), NEW n, n = Len(rd) + 1,
           NEW s \in TagStates, ~s.failed, NEW quiet, NEW names, NEW src, Found(s.formlist, rd, quiet, names, n, 0, src),
           RefsOf(s.references, rd, n, 0), NEW nowarn \in BOOLEAN, nowarn <=> quiet[n],
           NEW y, y = TakeTags(s, c, nowarn), ~y.failed
    PROVE  \E new : ContentRead(s, y, rd, more, n, quiet, names, src, new)
<1> DEFINE start == s.currentform = 0 /\ Finished(s.formlist, rd, src)
           Inv(z, i, new) == /\ Found(z.formlist, more, quiet, names, n, i, new)
                             /\ start => Current(z.formlist, z.currentform, more, n, i, new)
                             /\ RefsOf(z.references, more, n, i)
<1>1. more \in Seq(Seq(Tag)) /\ n \in 1 .. Len(more) /\ more[n] = c /\ Len(c) \in Nat /\ n \in Nat
  <2>1. Longer(rd, c, more) /\ more \in Seq(Seq(Tag)) /\ Len(rd) \in Nat
    BY ListLonger, OneMore
  <2>2. QED
    BY <2>1 DEF Longer
<1>2. \A i \in 1 .. Len(c) : c[i] \in Tag
  OBVIOUS
<1>3. PICK f : TagRun(TagStates, s, c, nowarn, f)
  <2>1. TagsKeep(TagStates, c, nowarn)
    BY <1>2, TagTypes DEF TagsKeep
  <2>2. QED
    BY <2>1, TagsTaken
<1>4. /\ f[0] = s /\ y = f[Len(c)] /\ \A i \in 0 .. Len(c) : f[i] \in TagStates
      /\ \A i \in 1 .. Len(c) : f[i] = TakeTag(f[i - 1], c[i], nowarn)
  BY <1>3 DEF TagRun
<1> DEFINE G == {i \in 0 .. Len(c) : ~f[i].failed => \E new : Inv(f[i], i, new)}
<1>5. 0 \in G
  <2>1. Opening(rd, more, n, s.formlist, quiet, names, s.references, src)
    BY ContentOpens
  <2>2. Found(s.formlist, more, quiet, names, n, 0, src) /\ RefsOf(s.references, more, n, 0)
    BY <2>1 DEF Opening
  <2>3. start => Current(s.formlist, s.currentform, more, n, 0, src)
    BY <2>1 DEF Opening, Current, Finished
  <2>4. 0 \in 0 .. Len(c)
    BY <1>1
  <2>5. QED
    BY <1>4, <2>2, <2>3, <2>4
<1>6. ASSUME NEW i \in 1 .. Len(c), i - 1 \in G
      PROVE  i \in G
  <2>1. i \in 0 .. Len(c) /\ i - 1 \in 0 .. Len(c)
    BY <1>1
  <2>2. PICK p \in TagStates, z \in TagStates, t \in Tag : p = f[i - 1] /\ z = f[i] /\ t = c[i] /\ z = TakeTag(p, t, nowarn)
    BY <1>2, <1>4, <2>1
  <2>3. ASSUME ~z.failed
        PROVE  \E new : Inv(z, i, new)
    <3>1. TagDoes(p, t, nowarn, z)
      BY <2>2, <2>3, TagDone
    <3>2. ~p.failed
      BY <3>1 DEF TagDoes
    <3>3. PICK old : Inv(p, i - 1, old)
      BY <1>6, <2>2, <3>2
    <3>4. i \in 1 .. Len(more[n]) /\ t = more[n][i]
      BY <1>1, <2>2
    <3>5. PICK new : StepsTo(p, z, more, quiet, names, n, i, old, new)
      <4>1. Found(p.formlist, more, quiet, names, n, i - 1, old)
        BY <3>3
      <4>2. z = TakeTag(p, more[n][i], nowarn)
        BY <2>2, <3>4
      <4> HIDE DEF Inv, start, G
      <4>3. QED
        BY <1>1, <2>3, <3>4, <4>1, <4>2, TagFound
    <3>6. RefsOf(z.references, more, n, i)
      <4>1. RefsOf(p.references, more, n, i - 1)
        BY <3>3
      <4> HIDE DEF Inv, start, G
      <4>2. QED
        BY <1>1, <3>1, <3>4, <4>1, RefTaken
    <3>7. Inv(z, i, new)
      BY <3>3, <3>5, <3>6 DEF StepsTo
    <3>8. QED
      BY <3>7
  <2>4. QED
    BY <2>1, <2>2, <2>3
<1>7. Len(c) \in G
  <2> HIDE DEF G
  <2>1. \A k \in 0 .. Len(c) : k \in G
    BY <1>1, <1>5, <1>6, Upwards
  <2>2. QED
    BY <1>1, <2>1
<1>8. PICK new : Inv(y, Len(c), new)
  BY <1>4, <1>7
<1>9. Closing(more, n, Len(c), y.formlist, quiet, names, y.references, new)
  BY ContentCloses
<1>10. Found(y.formlist, more, quiet, names, n + 1, 0, new) /\ RefsOf(y.references, more, n + 1, 0)
  BY <1>8, <1>9 DEF Closing
<1>11. ASSUME start, Closed(more[n])
       PROVE  y.currentform = 0 /\ Finished(y.formlist, more, new)
  <2>1. FormsOf(more, n, Len(c), new) /\ Len(new) = Len(y.formlist)
    BY <1>8 DEF Found
  <2>2. y \in TagStates
    BY <1>1, <1>4
  <2>3. y.currentform \in 0 .. Len(y.formlist) /\ Len(y.formlist) \in Nat
    BY <2>2 DEF TagStates, TagState
  <2>4. new \in Seq(Nat \X Nat)
    BY <2>1 DEF FormsOf
  <2>5. DOMAIN new = 1 .. Len(new)
    BY <2>4
  <2>6. y.currentform \in Nat /\ (y.currentform # 0 => y.currentform \in DOMAIN new)
    BY <2>1, <2>3, <2>5
  <2>7. Current(y.formlist, y.currentform, more, n, Len(more[n]), new) /\ FormsOf(more, n, Len(more[n]), new)
    BY <1>1, <1>8, <1>11, <2>1
  <2> HIDE DEF Inv, start, G
  <2>8. QED
    BY <1>1, <1>11, <2>6, <2>7, CurrentClosed
<1>12. ContentRead(s, y, rd, more, n, quiet, names, src, new)
  BY <1>10, <1>11 DEF ContentRead
<1>13. QED
  BY <1>12

----------------------------------------------------------------------------
(* The forms between two passes *)

FormsFit(forms, cur, rd, quiet, names) ==
    \E src : /\ Found(forms, rd, quiet, names, Len(rd) + 1, 0, src)
             /\ (\A m \in DOMAIN rd : Closed(rd[m])) => cur = 0 /\ Finished(forms, rd, src)

ListedNames == {fdlist[m].filename : m \in DOMAIN fdlist}
QuietOf     == [m \in DOMAIN fdlist |-> Quiet(m)]
FormsKnown  == FormsFit(formlist, currentform, read, QuietOf, ListedNames)
RefsKnown   == RefsOf(references, read, Len(read) + 1, 0)

\* A handler nothing names, and a form nobody handles.
Unnamed(m) ==
    /\ Routed(m) = {"FORM"} /\ ~Quiet(m) /\ FormOf(fdlist[m].filename) = 0
    /\ ~ref_lookup(references, fdlist[m].filename)
Unhandled(k) == formlist[k].flags = {} /\ formlist[k].action \notin ListedNames \cup {<<>>}
Warning(w, name) == [warning |-> w, name |-> name]
Unreffed == {Warning("unreffed", fdlist[m].filename) : m \in {k \in 1 .. ListedTo : Unnamed(k)}}
Missed   == {Warning("no handler", formlist[k].action) : k \in {j \in DOMAIN formlist : pc = "done" /\ Unhandled(j)}}

\* No tag that was read is cut off by the end of a block.
Uncut == \A n \in DOMAIN read : Cuts(read[n]) = {}

MeetInv == ImageInv /\ (pc # "exit" => (Uncut => FormsKnown /\ RefsKnown) /\ warned = Unreffed \cup Missed)

LEMMA NothingFits ==
    ASSUME NEW forms, forms = <<>>, NEW refs, refs = {}, NEW rd, rd = <<>>, NEW quiet, NEW names
    PROVE  FormsFit(forms, 0, rd, quiet, names) /\ RefsOf(refs, rd, Len(rd) + 1, 0)
<1>1. DOMAIN rd = {} /\ \A n, i, w : ~Passed(rd, n, i, w)
  BY DEF Passed
<1>2. PICK src : src = <<>>
  OBVIOUS
<1>3. src \in Seq(Nat \X Nat) /\ DOMAIN src = {} /\ Len(src) = Len(forms)
  BY <1>2
<1>4. Found(forms, rd, quiet, names, Len(rd) + 1, 0, src) /\ Finished(forms, rd, src)
  BY <1>1, <1>3 DEF Found, FormsOf, Finished
<1>5. RefsOf(refs, rd, Len(rd) + 1, 0)
  BY <1>1 DEF RefsOf, RefTag
<1>6. QED
  BY <1>4, <1>5 DEF FormsFit

LEMMA LastRead ==
    ASSUME NEW rd \in Seq(Seq(Tag)), NEW c \in Seq(Tag), NEW more, more = Append(rd, c)
    PROVE  /\ Len(more) = Len(rd) + 1
           /\ (\A m \in DOMAIN more : Closed(more[m])) => (\A m \in DOMAIN rd : Closed(rd[m])) /\ Closed(more[Len(rd) + 1])
<1>1. Longer(rd, c, more)
  BY ListLonger
<1>2. DOMAIN rd = 1 .. Len(rd) /\ Len(rd) \in Nat
  OBVIOUS
<1>3. \A m \in DOMAIN rd : m \in DOMAIN more /\ more[m] = rd[m]
  BY <1>1, <1>2 DEF Longer
<1>4. Len(rd) + 1 \in DOMAIN more
  BY <1>1, <1>2 DEF Longer
<1>5. QED
  BY <1>1, <1>3, <1>4 DEF Longer

LEMMA FitsEmpty ==
    ASSUME NEW rd \in Seq(Seq(Tag)), NEW more, more = Append(rd, <<>>), NEW forms, NEW cur, NEW quiet, NEW names, NEW refs,
           FormsFit(forms, cur, rd, quiet, names), RefsOf(refs, rd, Len(rd) + 1, 0)
    PROVE  FormsFit(forms, cur, more, quiet, names) /\ RefsOf(refs, more, Len(more) + 1, 0)
<1>1. PICK c \in Seq(Tag) : c = <<>>
  BY EmptySeq
<1>2. Len(c) = 0 /\ more = Append(rd, c)
  BY <1>1
<1>3. PICK n : n = Len(rd) + 1
  OBVIOUS
<1>4. PICK src : /\ Found(forms, rd, quiet, names, n, 0, src)
                 /\ (\A m \in DOMAIN rd : Closed(rd[m])) => cur = 0 /\ Finished(forms, rd, src)
  BY <1>3 DEF FormsFit
<1>5. Opening(rd, more, n, forms, quiet, names, refs, src)
  BY <1>2, <1>3, ContentOpens
<1>6. Closing(more, n, 0, forms, quiet, names, refs, src)
  <2>1. Closing(more, n, Len(c), forms, quiet, names, refs, src)
    BY <1>2, <1>3, ContentCloses
  <2>2. QED
    BY <1>2, <2>1
<1>7. Len(more) = n /\ ((\A m \in DOMAIN more : Closed(more[m])) => (\A m \in DOMAIN rd : Closed(rd[m])))
  BY <1>2, <1>3, LastRead
<1>8. Found(forms, more, quiet, names, n + 1, 0, src) /\ RefsOf(refs, more, n + 1, 0)
  BY <1>3, <1>4, <1>5, <1>6 DEF Opening, Closing
<1>9. (\A m \in DOMAIN more : Closed(more[m])) => cur = 0 /\ Finished(forms, more, src)
  BY <1>4, <1>5, <1>7 DEF Opening
<1>10. QED
  BY <1>7, <1>8, <1>9 DEF FormsFit

LEMMA FitsContent ==
    ASSUME NEW rd \in Seq(Seq(Tag)), NEW c \in Seq(Tag), NEW more, more = Append(rd, c), NEW s \in TagStates, ~s.failed,
           NEW quiet, NEW names, FormsFit(s.formlist, s.currentform, rd, quiet, names),
           RefsOf(s.references, rd, Len(rd) + 1, 0), NEW nowarn \in BOOLEAN, nowarn <=> quiet[Len(rd) + 1],
           NEW y, y = TakeTags(s, c, nowarn), ~y.failed
    PROVE  FormsFit(y.formlist, y.currentform, more, quiet, names) /\ RefsOf(y.references, more, Len(more) + 1, 0)
<1>1. PICK n : n = Len(rd) + 1
  OBVIOUS
<1>2. PICK src : /\ Found(s.formlist, rd, quiet, names, n, 0, src)
                 /\ (\A m \in DOMAIN rd : Closed(rd[m])) => s.currentform = 0 /\ Finished(s.formlist, rd, src)
  BY <1>1 DEF FormsFit
<1>3. RefsOf(s.references, rd, n, 0) /\ (nowarn <=> quiet[n])
  BY <1>1
<1>4. PICK new : ContentRead(s, y, rd, more, n, quiet, names, src, new)
  BY <1>1, <1>2, <1>3, ContentFound
<1>5. Len(more) = n /\ ((\A m \in DOMAIN more : Closed(more[m])) => (\A m \in DOMAIN rd : Closed(rd[m])) /\ Closed(more[n]))
  BY <1>1, LastRead
<1>6. Found(y.formlist, more, quiet, names, n + 1, 0, new) /\ RefsOf(y.references, more, n + 1, 0)
  BY <1>4 DEF ContentRead
<1>7. (\A m \in DOMAIN more : Closed(more[m])) => y.currentform = 0 /\ Finished(y.formlist, more, new)
  BY <1>2, <1>4, <1>5 DEF ContentRead
<1>8. QED
  BY <1>5, <1>6, <1>7 DEF FormsFit

\* Forms that differ only in being handled, which a form on the list may be.
Handled(forms, more, names) ==
    /\ Len(more) = Len(forms)
    /\ \A k \in 1 .. Len(forms) :
          /\ more[k].action = forms[k].action /\ more[k].controls = forms[k].controls
          /\ "NOWARN" \in more[k].flags <=> "NOWARN" \in forms[k].flags
          /\ "CCODED" \in more[k].flags => "CCODED" \in forms[k].flags \/ forms[k].action \in names

LEMMA FitsHandled ==
    ASSUME NEW forms, NEW more, NEW cur, NEW rd, NEW quiet, NEW names, FormsFit(forms, cur, rd, quiet, names),
           Handled(forms, more, names)
    PROVE  FormsFit(more, cur, rd, quiet, names)
<1>1. PICK src : /\ Found(forms, rd, quiet, names, Len(rd) + 1, 0, src)
                 /\ (\A m \in DOMAIN rd : Closed(rd[m])) => cur = 0 /\ Finished(forms, rd, src)
  BY DEF FormsFit
<1>2. src \in Seq(Nat \X Nat) /\ Len(src) = Len(forms)
  BY <1>1 DEF Found, FormsOf
<1>3. DOMAIN src = 1 .. Len(forms)
  BY <1>2
<1>4. Found(more, rd, quiet, names, Len(rd) + 1, 0, src)
  BY <1>1, <1>3 DEF Found, FlagsOf, Handled
<1>5. Finished(forms, rd, src) => Finished(more, rd, src)
  BY <1>3 DEF Finished, Handled
<1>6. QED
  BY <1>1, <1>4, <1>5 DEF FormsFit

LEMMA HandledIn ==
    ASSUME Base0, pc # "exit",
           OpenDefaults \/ ArrayEntry \/ ExpressionEntry \/ StubEntry \/ FormEntry \/ BuildSwitch \/ CheckForms
    PROVE  Handled(formlist, formlist', ListedNames) /\ UNCHANGED << read, currentform, references, fdlist, lines, def >>
<1>1. Types /\ Passes
  BY DEF Base0
<1>2. CASE OpenDefaults \/ ArrayEntry \/ ExpressionEntry \/ StubEntry \/ BuildSwitch \/ CheckForms
  <2>1. UNCHANGED << formlist, read, currentform, references, fdlist, lines, def >>
    BY <1>2 DEF OpenDefaults, ArrayEntry, ExpressionEntry, StubEntry, BuildSwitch, CheckForms
  <2>2. QED
    BY <2>1 DEF Handled
<1>3. CASE FormEntry
  <2>1. AtFile /\ UNCHANGED << read, currentform, references, fdlist, lines, def >>
    BY <1>3 DEF FormEntry
  <2>2. at \in DOMAIN fdlist
    BY <1>1, <2>1, InList
  <2>3. PICK b : b = bldform(fdlist[at])
    OBVIOUS
  <2>4. formlist' = b.forms
    BY <1>3, <2>3 DEF FormEntry
  <2>5. PICK k : k = FormOf(fdlist[at].filename)
    OBVIOUS
  <2>6. formlist' = IF k = 0 THEN formlist ELSE [formlist EXCEPT ![k].flags = @ \cup {"CCODED"}]
    BY <1>1, <2>2, <2>3, <2>4, <2>5, BldformIs
  <2>7. PICK forms \in Seq(FormRec) : forms = formlist
    BY <1>1, TypesAre
  <2>8. CASE k = 0
    BY <2>1, <2>6, <2>8 DEF Handled
  <2>9. CASE k # 0
    <3>1. k \in 1 .. Len(forms) /\ forms[k].action = fdlist[at].filename
      BY <1>1, <2>5, <2>7, <2>9, FormOfIs
    <3>2. forms[k].action \in ListedNames
      BY <2>2, <3>1 DEF ListedNames
    <3>3. PICK r : r = [forms[k] EXCEPT !.flags = @ \cup {"CCODED"}]
      OBVIOUS
    <3>4. forms[k] \in FormRec
      BY <3>1
    <3>5. r.action = forms[k].action /\ r.controls = forms[k].controls /\ r.flags = forms[k].flags \cup {"CCODED"}
      BY <3>3, <3>4 DEF FormRec
    <3>6. formlist' = [forms EXCEPT ![k] = r]
      BY <2>6, <2>7, <2>9, <3>3
    <3>7. Changed(forms, k, r, [forms EXCEPT ![k] = r])
      BY <3>1, ListSet
    <3>8. Changed(forms, k, r, formlist')
      BY <3>6, <3>7
    <3>9. Handled(forms, formlist', ListedNames)
      BY <3>2, <3>5, <3>8 DEF Changed, Handled
    <3>10. QED
      BY <2>1, <2>7, <3>9
  <2>10. QED
    BY <2>8, <2>9
<1>4. QED
  BY <1>2, <1>3

LEMMA NamesStay ==
    ASSUME Base0, pc # "exit", Next, pc' \notin {"args", "list", "exit"}
    PROVE  QuietOf' = QuietOf /\ ListedNames' = ListedNames
<1>1. DOMAIN fdlist' = DOMAIN fdlist /\ \A n \in DOMAIN fdlist : fdlist'[n].opset = fdlist[n].opset
  BY OptionsStay
<1>2. QuietOf' = QuietOf
  BY <1>1 DEF QuietOf, Quiet
<1>3. \A n \in DOMAIN fdlist : fdlist'[n].filename = fdlist[n].filename
  <2>1. CASE \E content \in Contents : \E fill \in Fills(content) : ConvertFile(content, fill)
    <3>1. PICK cname : fdlist' = [fdlist EXCEPT ![at].caname = cname]
      BY <2>1 DEF ConvertFile
    <3>2. Types /\ at \in DOMAIN fdlist
      BY <2>1, TypesAre DEF Base0, Passes, ConvertFile
    <3>3. fdlist[at] \in FileRec
      BY <3>2, AtFileIs
    <3>4. PICK r : r = [fdlist[at] EXCEPT !.caname = cname]
      OBVIOUS
    <3>5. r.filename = fdlist[at].filename
      BY <3>3, <3>4 DEF FileRec
    <3>6. fdlist' = [fdlist EXCEPT ![at] = r]
      BY <3>1, <3>4
    <3>7. \A n \in DOMAIN fdlist : fdlist'[n] = IF n = at THEN r ELSE fdlist[n]
      BY <3>6
    <3>8. QED
      BY <3>5, <3>7
  <2>2. CASE ~\E content \in Contents : \E fill \in Fills(content) : ConvertFile(content, fill)
    <3>1. fdlist' = fdlist
      BY <2>2 DEF Next, parseargs, ReadLine, EndOfList, GiveUp, SkipFile, OpenDefaults, ArrayEntry, ExpressionEntry,
                  StubEntry, FormEntry, BuildSwitch, CheckForms
    <3>2. QED
      BY <3>1
  <2>3. QED
    BY <2>1, <2>2
<1>4. ListedNames' = ListedNames
  BY <1>1, <1>3 DEF ListedNames
<1>5. QED
  BY <1>2, <1>4

LEMMA FormsNext ==
    ASSUME ImageInv, ImageInv', pc # "exit", pc' # "exit", Uncut', FormsKnown, RefsKnown, Next
    PROVE  FormsKnown' /\ RefsKnown'
<1>1. Base0 /\ Base0' /\ Types /\ Passes /\ Passes'
  BY DEF ImageInv, Base0
<1>2. /\ read \in Seq(Seq(Tag)) /\ Len(read) \in Nat /\ (Len(read) = 0 => read = <<>>)
      /\ formlist \in Seq(FormRec) /\ currentform \in 0 .. Len(formlist) /\ references \in SUBSET Name
  BY <1>1, TypesAre
<1>3. CASE EndOfList \/ (\E argv \in CommandLines : parseargs(argv)) \/ (\E line \in Lines : ReadLine(line))
  <2>1. pc \in {"args", "list"} /\ UNCHANGED << formlist, currentform, references, read >>
    BY <1>3 DEF EndOfList, parseargs, ReadLine
  <2>2. formlist' = <<>> /\ currentform' = 0 /\ references' = {}
    BY <1>1, <2>1 DEF Passes
  <2>3. Len(read) = 0
    BY <1>1, <2>1 DEF Passes, ConvertedTo, Listing
  <2>4. read' = <<>>
    BY <1>2, <2>1, <2>3
  <2>5. FormsFit(formlist', 0, read', QuietOf', ListedNames') /\ RefsOf(references', read', Len(read') + 1, 0)
    BY <2>2, <2>4, NothingFits
  <2>6. QED
    BY <2>2, <2>5 DEF FormsKnown, RefsKnown
<1>4. CASE SkipFile
  <2>1. read' = Append(read, <<>>) /\ UNCHANGED << formlist, currentform, references, pc >> /\ pc = "convert"
    BY <1>4 DEF SkipFile
  <2>2. QuietOf' = QuietOf /\ ListedNames' = ListedNames
    BY <1>1, <2>1, NamesStay
  <2>3. FormsFit(formlist, currentform, read', QuietOf, ListedNames) /\ RefsOf(references, read', Len(read') + 1, 0)
    BY <1>2, <2>1, FitsEmpty DEF FormsKnown, RefsKnown
  <2>4. QED
    BY <2>1, <2>2, <2>3 DEF FormsKnown, RefsKnown
<1>5. ASSUME NEW content \in Contents, NEW fill \in Fills(content), ConvertFile(content, fill)
      PROVE  FormsKnown' /\ RefsKnown'
  <2> DEFINE s == [formlist |-> formlist, currentform |-> currentform, references |-> references, failed |-> FALSE]
             nowarn == "NOWARN" \in fdlist[at].opset.opmask
             y == TakeTags(s, content, nowarn)
  <2>1. Seen(content, fill) = content
    <3>1. read' = Append(read, content)
      BY <1>5 DEF ConvertFile
    <3>2. Len(read) + 1 \in DOMAIN read' /\ read'[Len(read) + 1] = content
      BY <1>2, <3>1
    <3>3. Cuts(content) = {}
      BY <3>2 DEF Uncut
    <3>4. QED
      BY <3>3, ListAssumption, SeenIs
  <2>2. /\ pc = "convert" /\ at <= Len(fdlist) /\ read' = Append(read, content)
        /\ formlist' = y.formlist /\ currentform' = y.currentform /\ references' = y.references
        /\ pc' = IF y.failed THEN "exit" ELSE pc
    BY <1>5, <2>1 DEF ConvertFile
  <2>3. s \in TagStates /\ ~s.failed /\ content \in Seq(Tag) /\ nowarn \in BOOLEAN
    BY <1>2, ListAssumption DEF TagStates, TagState
  <2>4. at \in 1 .. Len(fdlist) + 1 /\ Len(read) = at - 1
    BY <1>1, <2>2 DEF Passes, ConvertedTo
  <2>5. at \in DOMAIN fdlist /\ at = Len(read) + 1
    BY <1>1, <2>2, <2>4, TypesAre
  <2>6. nowarn <=> QuietOf[Len(read) + 1]
    BY <2>5 DEF QuietOf, Quiet
  <2>7. QuietOf' = QuietOf /\ ListedNames' = ListedNames
    <3>1. pc' \notin {"args", "list", "exit"}
      BY <2>2
    <3>2. QED
      BY <1>1, <3>1, NamesStay
  <2>8. y \in TagStates
    <3> HIDE DEF s, nowarn
    <3>1. QED
      BY <2>3, TagsTypes
  <2>9. ~y.failed
    BY <2>2, <2>8 DEF TagStates, TagState
  <2>10. FormsFit(s.formlist, s.currentform, read, QuietOf, ListedNames) /\ RefsOf(s.references, read, Len(read) + 1, 0)
    BY DEF FormsKnown, RefsKnown
  <2>11. PICK z : z = y
    OBVIOUS
  <2>12. FormsFit(z.formlist, z.currentform, read', QuietOf, ListedNames) /\ RefsOf(z.references, read', Len(read') + 1, 0)
    <3> HIDE DEF s, nowarn
    <3>1. z = TakeTags(s, content, nowarn) /\ ~z.failed
      BY <2>9, <2>11
    <3> HIDE DEF y
    <3>2. QED
      BY <1>2, <2>2, <2>3, <2>6, <2>10, <3>1, FitsContent
  <2> HIDE DEF y
  <2>13. QED
    BY <2>2, <2>7, <2>11, <2>12 DEF FormsKnown, RefsKnown
<1>6. CASE OpenDefaults \/ ArrayEntry \/ ExpressionEntry \/ StubEntry \/ FormEntry \/ BuildSwitch \/ CheckForms
  <2>1. Handled(formlist, formlist', ListedNames) /\ UNCHANGED << read, currentform, references, fdlist >>
    BY <1>1, <1>6, HandledIn
  <2>2. QuietOf' = QuietOf /\ ListedNames' = ListedNames
    BY <2>1 DEF QuietOf, Quiet, ListedNames
  <2>3. FormsFit(formlist', currentform, read, QuietOf, ListedNames)
    BY <2>1, FitsHandled DEF FormsKnown
  <2>4. QED
    BY <2>1, <2>2, <2>3 DEF FormsKnown, RefsKnown
<1>7. ~GiveUp
  BY DEF GiveUp
<1>8. QED
  BY <1>3, <1>4, <1>5, <1>6, <1>7 DEF Next

LEMMA UnnamedStays ==
    ASSUME FormsStay, fdlist' = fdlist, references' = references, Types, NEW n
    PROVE  Unnamed(n)' <=> Unnamed(n)
<1>1. FormOf(fdlist[n].filename)' = FormOf(fdlist[n].filename)
  BY StubStays
<1>2. Routed(n)' = Routed(n) /\ Quiet(n)' = Quiet(n)
  BY DEF Routed, Quiet
<1>3. ref_lookup(references, fdlist[n].filename)' <=> ref_lookup(references, fdlist[n].filename)
  BY DEF ref_lookup
<1>4. QED
  BY <1>1, <1>2, <1>3 DEF Unnamed

\* The four steps that write an entry: a form's warns when nothing names it.
LEMMA WarnedEntry ==
    ASSUME Base0, pc # "exit", ArrayEntry \/ ExpressionEntry \/ StubEntry \/ FormEntry
    PROVE  warned' = warned \cup {Warning("unreffed", fdlist[m].filename) : m \in {k \in {at} : Unnamed(k)}}
<1>1. Types /\ Passes /\ AtFile
  BY DEF Base0, ArrayEntry, ExpressionEntry, StubEntry, FormEntry, AtFile
<1>2. at \in DOMAIN fdlist
  BY <1>1, InList
<1>3. CASE ~FormEntry
  <2>1. Routed(at) # {"FORM"}
    <3>1. CASE StubEntry
      BY <3>1 DEF StubEntry, Routed, Routines
    <3>2. CASE ArrayEntry \/ ExpressionEntry
      <4>1. "FORM" \notin fdlist[at].opset.opmask
        BY <3>2 DEF ArrayEntry, ExpressionEntry, Binary, NON_BINARY_FILE
      <4>2. QED
        BY <4>1 DEF Routed
    <3>3. QED
      BY <1>3, <3>1, <3>2
  <2>2. ~Unnamed(at)
    BY <2>1 DEF Unnamed
  <2>3. warned' = warned
    BY <1>3 DEF ArrayEntry, ExpressionEntry, StubEntry
  <2>4. QED
    BY <2>2, <2>3
<1>4. CASE FormEntry
  <2>1. PICK b : b = bldform(fdlist[at])
    OBVIOUS
  <2>2. PICK k : k = FormOf(fdlist[at].filename)
    OBVIOUS
  <2>3. b.warn = (k = 0 /\ ~ref_lookup(references, fdlist[at].filename) /\ "NOWARN" \notin fdlist[at].opset.opmask)
    BY <1>1, <1>2, <2>1, <2>2, BldformIs
  <2>4. Routed(at) = {"FORM"}
    BY <1>4 DEF FormEntry, Routed
  <2>5. b.warn <=> Unnamed(at)
    BY <2>2, <2>3, <2>4 DEF Unnamed, Quiet
  <2>6. warned' = warned \cup (IF b.warn THEN {Warning("unreffed", fdlist[at].filename)} ELSE {})
    BY <1>4, <2>1 DEF FormEntry, Warning
  <2>7. QED
    BY <2>5, <2>6
<1>5. QED
  BY <1>3, <1>4

LEMMA WarnedNext ==
    ASSUME Base0, Base0', pc # "exit", pc' # "exit", Next, warned = Unreffed \cup Missed
    PROVE  warned' = Unreffed' \cup Missed'
<1>1. Types /\ Passes /\ Passes'
  BY DEF Base0
<1>2. fdlist \in Seq(FileRec) /\ Len(fdlist) \in Nat /\ at \in Nat
  BY <1>1, TypesAre
<1>3. /\ Unreffed' = {Warning("unreffed", fdlist'[m].filename) : m \in {k \in 1 .. ListedTo' : Unnamed(k)'}}
      /\ Missed' = {Warning("no handler", formlist'[k].action) : k \in {j \in DOMAIN formlist' : pc' = "done" /\ Unhandled(j)'}}
  BY DEF Unreffed, Missed, Warning
<1>4. pc' # "done" => Missed' = {}
  BY <1>3
<1>5. pc # "done"
  BY DEF Next, parseargs, ReadLine, EndOfList, GiveUp, SkipFile, ConvertFile, OpenDefaults, ArrayEntry,
         ExpressionEntry, StubEntry, FormEntry, AtFile, BuildSwitch, CheckForms
<1>6. warned = Unreffed
  BY <1>5 DEF Missed
<1>7. CASE ~Listing'
  <2>1. warned' = {} /\ ListedTo' = 0 /\ pc' # "done"
    BY <1>1, <1>7 DEF Passes, Listing, ListedTo
  <2>2. Unreffed' = {}
    <3>1. 1 .. 0 = {}
      OBVIOUS
    <3>2. QED
      BY <1>3, <2>1, <3>1
  <2>3. QED
    BY <1>4, <2>1, <2>2
<1>8. CASE Listing'
  <2>1. OpenDefaults \/ ArrayEntry \/ ExpressionEntry \/ StubEntry \/ FormEntry \/ BuildSwitch \/ CheckForms
    BY <1>8 DEF Listing, Next, parseargs, ReadLine, EndOfList, GiveUp, SkipFile, ConvertFile
  <2>2. FormsStay /\ fdlist' = fdlist /\ references' = references
    BY <2>1, FormsStayIn, HandledIn
  <2>3. \A k : Unnamed(k)' <=> Unnamed(k)
    BY <1>1, <2>2, UnnamedStays
  <2>4. Unreffed' = {Warning("unreffed", fdlist[m].filename) : m \in {k \in 1 .. ListedTo' : Unnamed(k)}}
    BY <1>3, <2>2, <2>3
  <2>5. CASE OpenDefaults \/ BuildSwitch
    <3>1. ListedTo' = ListedTo /\ pc' # "done" /\ warned' = warned
      BY <1>1, <1>2, <1>8, <2>5 DEF OpenDefaults, BuildSwitch, ListedTo, Passes, Listing
    <3>2. QED
      BY <1>4, <1>6, <2>4, <3>1 DEF Unreffed
  <2>6. CASE ArrayEntry \/ ExpressionEntry \/ StubEntry \/ FormEntry
    <3>1. pc = "efs" /\ pc' = "efs" /\ at' = at + 1 /\ at >= 1
      BY <1>1, <2>6 DEF Passes, ArrayEntry, ExpressionEntry, StubEntry, FormEntry, AtFile
    <3>2. ListedTo = at - 1 /\ ListedTo' = at
      BY <1>2, <3>1 DEF ListedTo
    <3>3. \A k : k \in 1 .. at <=> k \in 1 .. at - 1 \/ k \in {at}
      BY <1>2, <3>1
    <3>4. warned' = warned \cup {Warning("unreffed", fdlist[m].filename) : m \in {k \in {at} : Unnamed(k)}}
      BY <2>6, WarnedEntry
    <3>5. Unreffed' = Unreffed \cup {Warning("unreffed", fdlist[m].filename) : m \in {k \in {at} : Unnamed(k)}}
      BY <2>4, <3>2, <3>3 DEF Unreffed
    <3>6. QED
      BY <1>4, <1>6, <3>1, <3>4, <3>5
  <2>7. CASE CheckForms
    <3>1. pc = "forms" /\ pc' = "done" /\ formlist' = formlist
      BY <2>7 DEF CheckForms
    <3>2. ListedTo' = ListedTo
      BY <2>2, <3>1 DEF ListedTo
    <3>3. ListedNames' = ListedNames
      BY <2>2 DEF ListedNames
    <3>4. \A k : Unhandled(k)' <=> Unhandled(k)
      BY <3>1, <3>3 DEF Unhandled
    <3>5. Missed' = {Warning("no handler", formlist[k].action) : k \in {j \in DOMAIN formlist : Unhandled(j)}}
      BY <1>3, <3>1, <3>4
    <3>6. warned' = warned \cup {Warning("no handler", formlist[k].action) : k \in {j \in DOMAIN formlist : Unhandled(j)}}
      BY <2>7 DEF CheckForms, Warning, Unhandled, ListedNames
    <3>7. QED
      BY <1>6, <2>4, <3>2, <3>5, <3>6 DEF Unreffed
  <2>8. QED
    BY <2>1, <2>5, <2>6, <2>7
<1>9. QED
  BY <1>7, <1>8

\* What has been read stays.
LEMMA UncutBefore ==
    ASSUME Types, Next, Uncut'
    PROVE  Uncut
<1>1. read \in Seq(Seq(Tag)) /\ Len(read) \in Nat /\ DOMAIN read = 1 .. Len(read)
  BY TypesAre
<1>2. read' = read \/ \E c \in Seq(Tag) : read' = Append(read, c)
  <2>1. CASE \E content \in Contents : \E fill \in Fills(content) : ConvertFile(content, fill)
    BY <2>1, ListAssumption DEF ConvertFile
  <2>2. CASE SkipFile
    <3>1. PICK c \in Seq(Tag) : c = <<>>
      BY EmptySeq
    <3>2. QED
      BY <2>2, <3>1 DEF SkipFile
  <2>3. CASE ~SkipFile /\ ~\E content \in Contents : \E fill \in Fills(content) : ConvertFile(content, fill)
    BY <2>3 DEF Next, parseargs, ReadLine, EndOfList, GiveUp, OpenDefaults, ArrayEntry, ExpressionEntry, StubEntry, FormEntry,
                BuildSwitch, CheckForms
  <2>4. QED
    BY <2>1, <2>2, <2>3
<1>3. \A n \in DOMAIN read : n \in DOMAIN read' /\ read'[n] = read[n]
  <2>1. CASE read' = read
    BY <2>1
  <2>2. ASSUME NEW c \in Seq(Tag), read' = Append(read, c)
        PROVE  \A n \in DOMAIN read : n \in DOMAIN read' /\ read'[n] = read[n]
    BY <1>1, <2>2
  <2>3. QED
    BY <1>2, <2>1, <2>2
<1>4. QED
  BY <1>3 DEF Uncut

LEMMA MeetInit == Init => MeetInv
<1> SUFFICES ASSUME Init PROVE MeetInv
  OBVIOUS
<1>1. pc = "args" /\ formlist = <<>> /\ references = {} /\ read = <<>> /\ currentform = 0 /\ warned = {}
  BY DEF Init
<1>2. FormsFit(formlist, 0, read, QuietOf, ListedNames) /\ RefsOf(references, read, Len(read) + 1, 0)
  BY <1>1, NothingFits
<1>3. Unreffed = {} /\ Missed = {}
  <2>1. ListedTo = 0 /\ 1 .. 0 = {}
    BY <1>1 DEF ListedTo
  <2>2. QED
    BY <1>1, <2>1 DEF Unreffed, Missed
<1>4. QED
  BY <1>1, <1>2, <1>3, ImageInit DEF MeetInv, FormsKnown, RefsKnown

LEMMA MeetNext == MeetInv /\ [Next]_vars => MeetInv'
<1> SUFFICES ASSUME MeetInv, [Next]_vars PROVE MeetInv'
  OBVIOUS
<1>1. ImageInv /\ ImageInv'
  BY ImageNext DEF MeetInv
<1>2. CASE UNCHANGED vars
  <2>1. FormsKnown' = FormsKnown /\ RefsKnown' = RefsKnown /\ Uncut' = Uncut
    BY <1>2 DEF vars, FormsKnown, RefsKnown, QuietOf, Quiet, ListedNames, Uncut
  <2>2. Unreffed' = Unreffed /\ Missed' = Missed
    BY <1>2 DEF vars, Unreffed, Missed, Unnamed, Unhandled, Warning, Routed, Quiet, FormOf, ListedTo, ListedNames, Max
  <2>3. QED
    BY <1>1, <1>2, <2>1, <2>2 DEF vars, MeetInv
<1>3. CASE pc = "exit" /\ ~UNCHANGED vars
  BY <1>3 DEF Next, parseargs, ReadLine, EndOfList, GiveUp, SkipFile, ConvertFile, OpenDefaults, ArrayEntry,
              ExpressionEntry, StubEntry, FormEntry, AtFile, BuildSwitch, CheckForms
<1>4. CASE pc # "exit" /\ pc' # "exit" /\ ~UNCHANGED vars
  <2>1. Next /\ (Uncut => FormsKnown /\ RefsKnown) /\ warned = Unreffed \cup Missed
    BY <1>4 DEF MeetInv
  <2>2. Base0 /\ Base0'
    BY <1>1 DEF ImageInv, Base0
  <2>3. ASSUME Uncut' PROVE FormsKnown' /\ RefsKnown'
    <3>1. Types
      BY <1>1 DEF ImageInv, Base0
    <3>2. Uncut
      BY <2>1, <2>3, <3>1, UncutBefore
    <3>3. QED
      BY <1>1, <1>4, <2>1, <2>3, <3>2, FormsNext
  <2>4. warned' = Unreffed' \cup Missed'
    BY <1>4, <2>1, <2>2, WarnedNext
  <2>5. QED
    BY <1>1, <2>3, <2>4 DEF MeetInv
<1>5. CASE pc' = "exit"
  BY <1>1, <1>5 DEF MeetInv
<1>6. QED
  BY <1>2, <1>3, <1>4, <1>5

LEMMA PrefixOfPrefix ==
    ASSUME NEW p \in Name, NEW q \in Name, NEW r \in Name, IsPrefix(p, q), IsPrefix(q, r)
    PROVE  IsPrefix(p, r)
<1>1. Len(p) \in Nat /\ Len(q) \in Nat /\ Len(r) \in Nat /\ Len(p) <= Len(q) /\ Len(q) <= Len(r)
  BY DEF IsPrefix, Name
<1>2. SubSeq(p, 1, Len(p)) = SubSeq(q, 1, Len(p)) /\ SubSeq(q, 1, Len(q)) = SubSeq(r, 1, Len(q))
  BY DEF IsPrefix
<1>3. \A s \in Name, l \in Nat : l <= Len(s) =>
          /\ Len(SubSeq(s, 1, l)) = l /\ SubSeq(s, 1, l) \in Name
          /\ \A i \in 1 .. l : SubSeq(s, 1, l)[i] = s[i]
  BY DEF Name
<1>4. \A i \in 1 .. Len(q) : q[i] = r[i]
  BY <1>1, <1>2, <1>3
<1>5. Len(p) <= Len(r)
  BY <1>1
<1>6. \A i \in 1 .. Len(p) : SubSeq(q, 1, Len(p))[i] = SubSeq(r, 1, Len(p))[i]
  <2> TAKE i \in 1 .. Len(p)
  <2>1. i \in 1 .. Len(q)
    BY <1>1
  <2>2. QED
    BY <1>1, <1>3, <1>4, <1>5, <2>1
<1>7. /\ SubSeq(q, 1, Len(p)) \in Seq(Nat) /\ Len(SubSeq(q, 1, Len(p))) = Len(p)
      /\ SubSeq(r, 1, Len(p)) \in Seq(Nat) /\ Len(SubSeq(r, 1, Len(p))) = Len(p)
  BY <1>1, <1>3, <1>5 DEF Name
<1>8. SubSeq(q, 1, Len(p)) = SubSeq(r, 1, Len(p))
  BY <1>1, <1>6, <1>7, SeqSame
<1>9. QED
  BY <1>2, <1>5, <1>8 DEF IsPrefix

\* A form that is ended has the controls that are inside it.
LEMMA InsideIs ==
    ASSUME NEW content \in Seq(Tag), NEW j \in FormTags(content), NEW controls, Ended(content, j, controls)
    PROVE  Inside(content, j) = Without(controls, {<<>>, SUBMIT})
<1>1. PICK e \in Bounds(content) :
          j < e /\ (\A b \in Bounds(content) : b <= j \/ b >= e) /\ controls = Gathered(content, j, e)
  BY DEF Ended
<1>2. j \in Nat /\ \A b \in Bounds(content) : b \in Nat
  BY TagPlaces
<1>3. PICK S : S = {k \in Bounds(content) : k > j}
  OBVIOUS
<1>4. e \in S /\ (\A y \in S : e <= y) /\ \A y \in S : y \in Nat
  BY <1>1, <1>2, <1>3
<1>5. Min(S) = e
  <2>1. Min(S) \in S /\ \A y \in S : Min(S) <= y
    BY <1>4 DEF Min
  <2>2. e <= Min(S) /\ Min(S) <= e /\ Min(S) \in Nat /\ e \in Nat
    BY <1>4, <2>1
  <2>3. QED
    BY <2>2
<1>6. Min({k \in Bounds(content) : k > j}) = e
  BY <1>3, <1>5
<1>7. Inside(content, j) = Without(Gathered(content, j, e), {<<>>, SUBMIT})
  BY <1>6 DEF Inside, Gathered, NameIn
<1>8. QED
  BY <1>1, <1>7

\* At the end, the forms are those of all tags read.
ReadWith(src) ==
    /\ DOMAIN src = DOMAIN formlist
    /\ \A k \in DOMAIN src : src[k] \in FormsRead /\ FlagsOf(read, QuietOf, ListedNames, formlist[k], src[k])
    /\ \A v \in FormsRead : \E k \in DOMAIN src : src[k] = v
    /\ \A k, l \in DOMAIN src : k < l => Before(src[k], src[l])

LEMMA FormsReadAre ==
    ASSUME Types
    PROVE  \A v : v \in FormsRead <=> /\ v \in Nat \X Nat
                                      /\ Passed(read, Len(read) + 1, 0, v) /\ IsForm(read, v)
<1>1. read \in Seq(Seq(Tag)) /\ DOMAIN read = 1 .. Len(read) /\ Len(read) \in Nat
  BY TypesAre
<1>2. \A n \in DOMAIN read : read[n] \in Seq(Tag) /\ n \in Nat /\ n < Len(read) + 1
  BY <1>1
<1>3. \A n \in DOMAIN read : \A i \in FormTags(read[n]) : i \in DOMAIN read[n] /\ i \in Nat
  BY <1>2, TagPlaces
<1>4. ASSUME NEW v, v \in FormsRead
      PROVE  v \in Nat \X Nat /\ Passed(read, Len(read) + 1, 0, v) /\ IsForm(read, v)
  <2>1. PICK n \in DOMAIN read : v \in {<<n, i>> : i \in FormTags(read[n])}
    BY <1>4 DEF FormsRead
  <2>2. PICK i \in FormTags(read[n]) : v = <<n, i>>
    BY <2>1
  <2>3. v \in Nat \X Nat /\ v[1] = n /\ v[2] = i
    BY <1>2, <1>3, <2>2
  <2>4. QED
    BY <1>2, <1>3, <2>3 DEF Passed, IsForm
<1>5. ASSUME NEW v \in Nat \X Nat, Passed(read, Len(read) + 1, 0, v), IsForm(read, v)
      PROVE  v \in FormsRead
  <2>1. v[1] \in DOMAIN read /\ v[2] \in FormTags(read[v[1]]) /\ v = <<v[1], v[2]>>
    BY <1>5 DEF Passed, IsForm
  <2>2. v \in {<<v[1], i>> : i \in FormTags(read[v[1]])}
    BY <2>1
  <2>3. QED
    BY <2>1, <2>2 DEF FormsRead
<1>6. QED
  BY <1>4, <1>5

LEMMA FormsAtEnd ==
    ASSUME Types, FormsKnown
    PROVE  \E src : /\ ReadWith(src)
                    /\ (\A n \in DOMAIN read : Closed(read[n])) => Finished(formlist, read, src)
<1>1. PICK src : /\ Found(formlist, read, QuietOf, ListedNames, Len(read) + 1, 0, src)
                 /\ (\A n \in DOMAIN read : Closed(read[n])) => currentform = 0 /\ Finished(formlist, read, src)
  BY DEF FormsKnown, FormsFit
<1>2. FormsOf(read, Len(read) + 1, 0, src) /\ Len(src) = Len(formlist)
  BY <1>1 DEF Found
<1>3. src \in Seq(Nat \X Nat)
  BY <1>2 DEF FormsOf
<1>4. DOMAIN src = DOMAIN formlist /\ \A k \in DOMAIN src : src[k] \in Nat \X Nat
  BY <1>2, <1>3, TypesAre
<1>5. \A k \in DOMAIN src : Passed(read, Len(read) + 1, 0, src[k]) /\ IsForm(read, src[k])
  BY <1>2 DEF FormsOf
<1>6. \A k \in DOMAIN src : src[k] \in FormsRead
  BY <1>4, <1>5, FormsReadAre
<1>7. \A v \in FormsRead : \E k \in DOMAIN src : src[k] = v
  BY <1>2, FormsReadAre DEF FormsOf
<1>8. ReadWith(src)
  BY <1>1, <1>2, <1>4, <1>6, <1>7 DEF ReadWith, Found, FormsOf
<1>9. QED
  BY <1>1, <1>8

LEMMA StubAsks ==
    ASSUME Types, NEW n \in DOMAIN fdlist, Routed(n) = {"FORM"}, NEW k, k = FormOf(fdlist[n].filename), k # 0
    PROVE  StubOf(n).asks = Asks(k)
<1>1. k \in DOMAIN formlist
  BY FormOfIs
<1>2. Asks(k) \in Seq(Name)
  BY <1>1, AsksType
<1>3. fdlist[n].opset.routine \in Name /\ n \in Nat /\ "stub" \in Kinds /\ "text" \in ItemType
  BY AtFileIs DEF Kinds, ItemType
<1>4. StubOf(n) = [Typed("stub", fdlist[n].opset.routine, n, "text") EXCEPT !.asks = Asks(k)]
  BY DEF StubOf
<1>5. QED
  BY <1>2, <1>3, <1>4, AskedIs

\* A form's stub asks for the controls of the last form with its action.
LEMMA StubsMeet ==
    ASSUME MeetInv, pc = "done", Uncut, \A n \in DOMAIN read : Closed(read[n]),
           NEW w \in Items("stub"), NEW v \in FormsRead, Routed(At(w).of) = {"FORM"},
           ActionOf(v) = fdlist[At(w).of].filename,
           \A u \in FormsRead : ActionOf(u) = ActionOf(v) => Later(v, u)
    PROVE  At(w).asks = Inside(read[v[1]], v[2])
<1>1. Types /\ Output /\ FormsKnown
  BY DEF MeetInv, ImageInv
<1>2. PICK src : ReadWith(src) /\ Finished(formlist, read, src)
  BY <1>1, FormsAtEnd
<1>3. At(w) \in StubItems
  <2>1. w \in ItemsIn(outputfiles, "stub") /\ At(w) = ItemAt(outputfiles, w)
    BY DEF Items, ItemsIn, At, ItemAt
  <2>2. Recorded(outputfiles, "stub", StubItems)
    BY <1>1 DEF Output
  <2>3. QED
    BY <2>1, <2>2 DEF Recorded
<1>4. PICK n \in DOMAIN fdlist : Routed(n) # {} /\ At(w) = StubOf(n)
  BY <1>3 DEF StubItems, Handlers
<1>5. At(w).of = n
  BY <1>1, <1>4, HandlerItems
<1>6. PICK k \in DOMAIN src : src[k] = v
  BY <1>2 DEF ReadWith
<1>7. PICK m : m = FormOf(fdlist[n].filename)
  OBVIOUS
<1>8. DOMAIN src = DOMAIN formlist /\ DOMAIN formlist = 1 .. Len(formlist) /\ Len(formlist) \in Nat
  BY <1>1, <1>2, TypesAre DEF ReadWith
<1>9. \A j \in DOMAIN src : formlist[j].action = ActionOf(src[j]) /\ src[j] \in FormsRead
  BY <1>2 DEF ReadWith, FlagsOf, ActionOf, TagOf
<1>10. m \in 0 .. Len(formlist) /\ (m # 0 => m \in DOMAIN formlist /\ formlist[m].action = fdlist[n].filename) /\ m >= k
  BY <1>1, <1>5, <1>6, <1>7, <1>8, <1>9, FormOfIs
<1>11. m # 0 /\ m \in DOMAIN src
  BY <1>6, <1>8, <1>10
<1>12. Later(v, src[m])
  BY <1>5, <1>8, <1>9, <1>10, <1>11
<1>13. m = k
  <2>1. ASSUME k < m
        PROVE  FALSE
    <3>1. Before(v, src[m])
      BY <1>2, <1>6, <1>11, <2>1 DEF ReadWith
    <3>2. v \in Nat \X Nat /\ src[m] \in Nat \X Nat
      BY <1>1, <1>9, <1>11, FormsReadAre
    <3>3. PICK a \in Nat, b \in Nat, c \in Nat, d \in Nat : v[1] = a /\ v[2] = b /\ src[m][1] = c /\ src[m][2] = d
      BY <3>2
    <3>4. a < c \/ (a = c /\ b < d)
      BY <3>1, <3>3 DEF Before
    <3>5. a > c \/ (a = c /\ b >= d)
      BY <1>12, <3>3 DEF Later
    <3>6. QED
      BY <3>4, <3>5
  <2>2. QED
    BY <1>6, <1>8, <1>10, <2>1
<1>14. Ended(read[v[1]], v[2], formlist[k].controls)
  BY <1>2, <1>6 DEF Finished
<1>15. v[1] \in DOMAIN read /\ v[2] \in FormTags(read[v[1]])
  BY <1>1, FormsReadAre DEF Passed, IsForm
<1>16. Inside(read[v[1]], v[2]) = Without(formlist[k].controls, {<<>>, SUBMIT})
  <2>1. read[v[1]] \in Seq(Tag)
    BY <1>1, <1>15, TypesAre
  <2>2. QED
    BY <1>14, <1>15, <2>1, InsideIs
<1>17. At(w).asks = Asks(k)
  BY <1>1, <1>4, <1>5, <1>7, <1>11, <1>13, StubAsks
<1>18. QED
  BY <1>16, <1>17 DEF Asks

\* The names of the warnings.
LEMMA WarnedNames ==
    ASSUME MeetInv, pc = "done"
    PROVE  /\ {u.name : u \in {t \in warned : t.warning = "no handler"}} =
                  {formlist[k].action : k \in {j \in DOMAIN formlist : Unhandled(j)}}
           /\ {u.name : u \in {t \in warned : t.warning = "unreffed"}} =
                  {fdlist[m].filename : m \in {n \in DOMAIN fdlist : Unnamed(n)}}
<1>1. Types /\ warned = Unreffed \cup Missed
  BY DEF MeetInv, ImageInv
<1>2. Unreffed = {Warning("unreffed", fdlist[m].filename) : m \in {n \in DOMAIN fdlist : Unnamed(n)}}
  <2>1. 1 .. ListedTo = DOMAIN fdlist
    BY <1>1, TypesAre DEF ListedTo
  <2>2. QED
    BY <2>1 DEF Unreffed
<1>3. Missed = {Warning("no handler", formlist[k].action) : k \in {j \in DOMAIN formlist : Unhandled(j)}}
  BY DEF Missed
<1>4. \A a, name : Warning(a, name).warning = a /\ Warning(a, name).name = name
  BY DEF Warning
<1>5. (\A t \in Missed : t.warning = "no handler") /\ \A t \in Unreffed : t.warning = "unreffed"
  <2>1. ASSUME NEW t \in Missed
        PROVE  t.warning = "no handler"
    <3>1. PICK k : t = Warning("no handler", formlist[k].action)
      BY <1>3
    <3>2. QED
      BY <1>4, <3>1, Zenon
  <2>2. ASSUME NEW t \in Unreffed
        PROVE  t.warning = "unreffed"
    <3>1. PICK m : t = Warning("unreffed", fdlist[m].filename)
      BY <1>2
    <3>2. QED
      BY <1>4, <3>1, Zenon
  <2>3. QED
    BY <2>1, <2>2
<1>6. {t \in warned : t.warning = "no handler"} = Missed /\ {t \in warned : t.warning = "unreffed"} = Unreffed
  BY <1>1, <1>5
<1>7. {u.name : u \in Missed} = {formlist[k].action : k \in {j \in DOMAIN formlist : Unhandled(j)}}
  <2>1. PICK T : T = {j \in DOMAIN formlist : Unhandled(j)}
    OBVIOUS
  <2>2. Missed = {Warning("no handler", formlist[k].action) : k \in T}
    BY <1>3, <2>1
  <2>3. \A k \in T : Warning("no handler", formlist[k].action) \in Missed
    BY <2>2
  <2>4. ASSUME NEW u \in Missed
        PROVE  \E k \in T : u.name = formlist[k].action
    <3>1. PICK k \in T : u = Warning("no handler", formlist[k].action)
      BY <2>2
    <3>2. u.name = formlist[k].action
      BY <1>4, <3>1, Zenon
    <3>3. QED
      BY <3>2
  <2>5. \A k \in T : \E u \in Missed : u.name = formlist[k].action
    BY <1>4, <2>3
  <2>6. QED
    BY <2>1, <2>4, <2>5
<1>8. {u.name : u \in Unreffed} = {fdlist[m].filename : m \in {n \in DOMAIN fdlist : Unnamed(n)}}
  BY <1>2, <1>4
<1>9. QED
  BY <1>6, <1>7, <1>8

ReadNames == {ActionOf(w) : w \in FormsRead} \ {<<>>}
ReadRefs  == UNION {{read[n][i].value : i \in {k \in DOMAIN read[n] : read[n][k].tag = "ref"}} : n \in DOMAIN read}

\* The forms nobody handles.
LEMMA MissedAre ==
    ASSUME MeetInv, pc = "done", Uncut
    PROVE  {formlist[k].action : k \in {j \in DOMAIN formlist : Unhandled(j)}} =
               {a \in ReadNames \ ListedNames : \E w \in FormsRead : ActionOf(w) = a /\ ~Quiet(w[1])}
<1>1. Types /\ FormsKnown /\ Passes
  BY DEF MeetInv, ImageInv
<1>2. PICK src : ReadWith(src)
  BY <1>1, FormsAtEnd
<1>3. \A w \in FormsRead : w[1] \in DOMAIN fdlist
  <2>1. DOMAIN read = DOMAIN fdlist
    BY <1>1, TypesAre DEF Passes, ConvertedTo, Listing
  <2>2. QED
    BY <1>1, <2>1, FormsReadAre DEF Passed
<1>4. DOMAIN src = DOMAIN formlist
  BY <1>2 DEF ReadWith
<1>5. \A k \in DOMAIN formlist : /\ src[k] \in FormsRead /\ formlist[k].action = ActionOf(src[k])
                                 /\ "NOWARN" \in formlist[k].flags <=> Quiet(src[k][1])
                                 /\ "CCODED" \in formlist[k].flags => formlist[k].action \in ListedNames
  <2>1. \A n \in DOMAIN fdlist : QuietOf[n] <=> Quiet(n)
    BY DEF QuietOf
  <2>2. QED
    BY <1>2, <1>3, <1>4, <2>1 DEF ReadWith, FlagsOf, ActionOf, TagOf
<1>6. \A k \in DOMAIN formlist : formlist[k].flags \in SUBSET {"NOWARN", "CCODED"}
  <2>1. \A k \in DOMAIN formlist : formlist[k] \in FormRec
    BY <1>1, TypesAre
  <2>2. QED
    BY <2>1 DEF FormRec
<1>7. ASSUME NEW k \in DOMAIN formlist, Unhandled(k)
      PROVE  /\ formlist[k].action \in ReadNames \ ListedNames
             /\ \E w \in FormsRead : ActionOf(w) = formlist[k].action /\ ~Quiet(w[1])
  BY <1>5, <1>7 DEF Unhandled, ReadNames
<1>8. ASSUME NEW a \in ReadNames \ ListedNames, NEW w \in FormsRead, ActionOf(w) = a, ~Quiet(w[1])
      PROVE  \E k \in DOMAIN formlist : Unhandled(k) /\ formlist[k].action = a
  <2>1. PICK k \in DOMAIN formlist : src[k] = w
    BY <1>2, <1>4 DEF ReadWith
  <2>2. formlist[k].action = a /\ a # <<>> /\ a \notin ListedNames
    BY <1>5, <1>8, <2>1 DEF ReadNames
  <2>3. "NOWARN" \notin formlist[k].flags /\ "CCODED" \notin formlist[k].flags
    BY <1>5, <1>8, <2>1, <2>2
  <2>4. formlist[k].flags = {}
    BY <1>6, <2>3
  <2>5. QED
    BY <2>2, <2>4 DEF Unhandled
<1>9. QED
  BY <1>7, <1>8

\* The handlers nothing names.
LEMMA UnnamedAre ==
    ASSUME MeetInv, pc = "done", Uncut, NEW m \in DOMAIN fdlist
    PROVE  Unnamed(m) <=> /\ Routed(m) = {"FORM"} /\ ~Quiet(m) /\ fdlist[m].filename \notin ReadNames
                          /\ ~\E r \in ReadRefs : r[1] # SCRIPT /\ IsPrefix(fdlist[m].filename, r)
<1>1. Types /\ FormsKnown /\ RefsKnown
  BY DEF MeetInv, ImageInv
<1>2. PICK src : ReadWith(src)
  BY <1>1, FormsAtEnd
<1>3. PICK name \in Name : name = fdlist[m].filename /\ name # <<>>
  BY <1>1, AtFileIs
<1>4. FormOf(name) = 0 <=> name \notin ReadNames
  <2>1. DOMAIN formlist = 1 .. Len(formlist) /\ DOMAIN src = DOMAIN formlist /\ Len(formlist) \in Nat
    BY <1>1, <1>2, TypesAre DEF ReadWith
  <2>2. \A k \in DOMAIN formlist : src[k] \in FormsRead /\ formlist[k].action = ActionOf(src[k])
    BY <1>2, <2>1 DEF ReadWith, FlagsOf, ActionOf, TagOf
  <2>3. name \in ReadNames <=> \E k \in DOMAIN formlist : formlist[k].action = name
    <3>1. name \in ReadNames <=> \E w \in FormsRead : ActionOf(w) = name
      BY <1>3 DEF ReadNames
    <3>2. \A w \in FormsRead : \E k \in DOMAIN formlist : src[k] = w
      BY <1>2, <2>1 DEF ReadWith
    <3>3. QED
      BY <2>2, <3>1, <3>2
  <2>4. PICK k : k = FormOf(name)
    OBVIOUS
  <2>5. /\ k # 0 => k \in DOMAIN formlist /\ formlist[k].action = name
        /\ \A j \in DOMAIN formlist : formlist[j].action = name => k >= j
    BY <1>1, <2>4, FormOfIs
  <2>6. \A j \in DOMAIN formlist : ~(0 >= j)
    BY <2>1
  <2>7. QED
    BY <2>3, <2>4, <2>5, <2>6
<1>5. RefsOf(references, read, Len(read) + 1, 0) /\ references \in SUBSET Name
  BY <1>1, TypesAre DEF RefsKnown
<1>6. \A r : r \in ReadRefs <=> \E w \in Nat \X Nat : RefTag(read, Len(read) + 1, 0, w) /\ TagOf(read, w).value = r
  <2>1. read \in Seq(Seq(Tag)) /\ DOMAIN read = 1 .. Len(read) /\ Len(read) \in Nat
    BY <1>1, TypesAre
  <2>2. \A n \in DOMAIN read : n \in Nat /\ n < Len(read) + 1 /\ read[n] \in Seq(Tag)
    BY <2>1
  <2>3. \A n \in DOMAIN read : \A i \in DOMAIN read[n] : i \in Nat
    <3>1. \A q \in Seq(Tag) : \A i \in DOMAIN q : i \in Nat
      OBVIOUS
    <3>2. QED
      BY <2>2, <3>1
  <2>4. ASSUME NEW r \in ReadRefs
        PROVE  \E w \in Nat \X Nat : RefTag(read, Len(read) + 1, 0, w) /\ TagOf(read, w).value = r
    <3>1. PICK n \in DOMAIN read : \E i \in DOMAIN read[n] : read[n][i].tag = "ref" /\ read[n][i].value = r
      BY DEF ReadRefs
    <3>2. PICK i \in DOMAIN read[n] : read[n][i].tag = "ref" /\ read[n][i].value = r
      BY <3>1
    <3>3. PICK w : w = << n, i >>
      OBVIOUS
    <3>4. w \in Nat \X Nat /\ w[1] = n /\ w[2] = i
      BY <2>2, <2>3, <3>3
    <3>5. RefTag(read, Len(read) + 1, 0, w) /\ TagOf(read, w).value = r
      BY <2>2, <3>2, <3>4 DEF RefTag, Passed, TagOf
    <3>6. QED
      BY <3>4, <3>5
  <2>5. ASSUME NEW w \in Nat \X Nat, RefTag(read, Len(read) + 1, 0, w)
        PROVE  TagOf(read, w).value \in ReadRefs
    <3>1. w[1] \in DOMAIN read /\ w[2] \in DOMAIN read[w[1]] /\ read[w[1]][w[2]].tag = "ref"
      BY <2>5 DEF RefTag, Passed, TagOf
    <3>2. TagOf(read, w).value = read[w[1]][w[2]].value
      BY DEF TagOf
    <3>3. QED
      BY <3>1, <3>2 DEF ReadRefs
  <2>6. QED
    BY <2>4, <2>5
<1>7. ReadRefs \subseteq Name
  <2>1. \A n \in DOMAIN read : \A i \in DOMAIN read[n] : read[n][i] \in Tag
    <3>1. \A q \in Seq(Tag) : \A i \in DOMAIN q : q[i] \in Tag
      OBVIOUS
    <3>2. \A n \in DOMAIN read : read[n] \in Seq(Tag)
      BY <1>1, TypesAre
    <3>3. QED
      BY <3>1, <3>2
  <2>2. \A n \in DOMAIN read : \A i \in DOMAIN read[n] : read[n][i].value \in Name
    BY <2>1, TagIs
  <2>3. QED
    BY <2>2 DEF ReadRefs
<1>8. ASSUME NEW r \in references, IsPrefix(name, r)
      PROVE  r \in ReadRefs /\ r[1] # SCRIPT
  BY <1>5, <1>6 DEF RefsOf
<1>9. ASSUME NEW r \in ReadRefs, r[1] # SCRIPT, IsPrefix(name, r)
      PROVE  ref_lookup(references, name)
  <2>1. Kept(references, r)
    BY <1>5, <1>6 DEF RefsOf
  <2>2. r # <<>>
    <3>1. Len(name) # 0 /\ Len(name) \in Nat /\ Len(name) <= Len(r)
      BY <1>3, <1>9 DEF IsPrefix, Name
    <3>2. QED
      BY <3>1
  <2>3. PICK q \in references : IsPrefix(r, q)
    BY <1>9, <2>1, <2>2 DEF Kept, ref_lookup
  <2>4. IsPrefix(name, q)
    BY <1>5, <1>7, <1>9, <2>3, PrefixOfPrefix
  <2>5. QED
    BY <2>4 DEF ref_lookup
<1>10. ref_lookup(references, name) <=> \E r \in ReadRefs : r[1] # SCRIPT /\ IsPrefix(name, r)
  BY <1>8, <1>9 DEF ref_lookup
<1>11. QED
  BY <1>3, <1>4, <1>10 DEF Unnamed

LEMMA MeetDone ==
    ASSUME MeetInv, pc = "done", Uncut
    PROVE  FormsMeetHandlers
<1>1. Types /\ Expressions
  BY DEF MeetInv, ImageInv
<1>2. {lines[n].name : n \in DOMAIN lines} = ListedNames
  BY <1>1, TypesAre DEF Expressions, ListedNames
<1>3. {u.name : u \in {t \in warned : t.warning = "no handler"}} =
          {a \in ReadNames \ ListedNames : \E w \in FormsRead : ActionOf(w) = a /\ ~Quiet(w[1])}
  BY WarnedNames, MissedAre
<1>4. {u.name : u \in {t \in warned : t.warning = "unreffed"}} =
          {fdlist[n].filename : n \in {m \in Files :
              /\ Routed(m) = {"FORM"} /\ ~Quiet(m) /\ fdlist[m].filename \notin ReadNames
              /\ ~\E r \in ReadRefs : r[1] # SCRIPT /\ IsPrefix(fdlist[m].filename, r)}}
  <2>1. {n \in DOMAIN fdlist : Unnamed(n)} =
            {m \in Files : /\ Routed(m) = {"FORM"} /\ ~Quiet(m) /\ fdlist[m].filename \notin ReadNames
                           /\ ~\E r \in ReadRefs : r[1] # SCRIPT /\ IsPrefix(fdlist[m].filename, r)}
    BY UnnamedAre DEF Files
  <2>2. QED
    BY <2>1, WarnedNames
<1>5. (\A n \in DOMAIN read : Closed(read[n])) =>
          \A w \in Items("stub"), v \in FormsRead :
              (/\ Routed(At(w).of) = {"FORM"} /\ ActionOf(v) = fdlist[At(w).of].filename
               /\ \A u \in FormsRead : ActionOf(u) = ActionOf(v) => Later(v, u))
              => At(w).asks = Inside(read[v[1]], v[2])
  BY StubsMeet
<1>6. QED
  BY <1>2, <1>3, <1>4, <1>5 DEF FormsMeetHandlers, ReadNames, ReadRefs

\* A form meets its handler for every list, every content no tag of which a block's end cuts off, every size
\* of the blocks and every order of files: the stub asks for the controls newform and NewControl have kept
\* of the last form with its action, when the pages end their forms, and bldform and the pass over the forms
\* warn of exactly the handlers that nothing names and the actions that nobody handles.
THEOREM FormsMet == Spec => []FormsMeetHandlers
<1>1. MeetInv => FormsMeetHandlers
  BY MeetDone DEF FormsMeetHandlers, Uncut
<1>2. QED
  BY <1>1, MeetInit, MeetNext, PTL DEF Spec

=============================================================================
