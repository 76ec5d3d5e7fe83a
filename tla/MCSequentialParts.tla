-------------------------- MODULE MCSequentialParts --------------------------
(* TLC instances of the parts that run one after the other or alone and share no
   state: each behaviour exercises one of them. *)
EXTENDS CrashReportSender, MinidumpFileWriter, SymbolRules, DwarfLines

CONSTANTS
    e1, e2, TextEnd

VARIABLES
    part,
    map, points, ranges, marks, stores,
    root, kept, puts

RM == INSTANCE RangeMap
CR == INSTANCE ContainedRangeMap WITH ranges <- kept, stores <- puts

rangeVars == <<map, points, ranges, marks, stores>>
treeVars == <<root, kept, puts>>
mapVars == <<rangeVars, treeVars>>
symbolVars == <<lineVars, cfiVars>>
allVars == <<part, vars, writerVars, mapVars, symbolVars>>

InitAll ==
    /\ part \in {"sender", "writer", "ranges", "tree", "lines", "cfi"}
    /\ Init /\ WriterInit /\ RM!MapInit /\ CR!Init /\ LinesInit /\ CFIInit
    /\ wraps => part = "writer"

NextAll ==
    /\ UNCHANGED part
    /\ \/ part = "sender" /\ Next /\ UNCHANGED <<writerVars, mapVars, symbolVars>>
       \/ part = "writer" /\ WriterNext /\ UNCHANGED <<vars, mapVars, symbolVars>>
       \/ part = "ranges" /\ RM!MapNext /\ UNCHANGED <<vars, writerVars, treeVars, symbolVars>>
       \/ part = "tree" /\ CR!Next /\ UNCHANGED <<vars, writerVars, rangeVars, symbolVars>>
       \/ part = "lines" /\ LinesNext /\ UNCHANGED <<vars, writerVars, mapVars, cfiVars>>
       \/ part = "cfi" /\ CFINext /\ UNCHANGED <<vars, writerVars, mapVars, lineVars>>

SpecAll == InitAll /\ [][NextAll]_allVars

\* Strings of different lengths.
TextOf(x) == IF x = e1 THEN <<x, x>> ELSE <<x>>
FR == INSTANCE FastResolver WITH Text <- TextOf

\* FastResolver on the tree of ContainedRangeMap.
StaticTreeAgrees ==
    LET module == FR!ModuleOf(<<>>, <<>>, root)
        mem == FR!WriteModule(module)
    IN  /\ FR!Fits(module)
        /\ \A x \in Addresses :
              LET fast == FR!StaticInnermost(mem, FR!MapAt(mem, 3), x)
                  answer == CR!RetrieveRange(root, x)
              IN  IF answer = NotFound THEN fast = NotFound
                  ELSE fast # NotFound /\ FR!Characters(mem, fast[1]) = TextOf(answer[1])

\* The long and the short entry at even and odd addresses; the blocks of maps with other
\* entries differ in the lengths of strings only.
EntryAt(x) == IF x % 2 = 0 THEN e1 ELSE e2
InTurn == /\ \A k \in DOMAIN map : map[k].entry = EntryAt(k)
          /\ \A k \in DOMAIN points : points[k] = EntryAt(k)
          /\ \A r \in kept : r.entry = EntryAt(r.base)

\* Whatever was stored, accepted or refused, in whatever order, RangeMap and AddressMap answer
\* every lookup as the set of what they accepted would (RangeMap's LookupsAgree), and
\* ContainedRangeMap with the innermost range (its InnermostAnswers).  FastResolver finds the
\* same in the block of memory that a module with these maps is written to.
LookupsAgree ==
    /\ part = "ranges" => RM!LookupsAgree
    /\ part = "tree" => CR!InnermostAnswers
    /\ part = "ranges" /\ InTurn => FR!ResolversAgree(map, points)
    /\ part = "tree" /\ InTurn => StaticTreeAgrees

\* Plain and accented letters, and a surrogate pair, from char and from wchar_t.
a == <<1, 1>>
e == <<2, 1>>
p == <<4, 2>>
w == <<1, 2>>
Texts == {<<>>, <<e, a>>, <<p, a>>, <<a, a, w, w>>}

\* Two FDEs, one after the other.
TwoFDEs == {[base |-> 0, size |-> 2], [base |-> 2, size |-> 2]}
=============================================================================
