-------------------------- MODULE ScriptSelection --------------------------
(***************************************************************************)
(* The scripts of a stack (ScriptResolver): of the files that share an     *)
(* order number the one that fits the runtime attributes best is taken     *)
(* (ScriptFileComparator, AbstractRankableFile), and files that list other *)
(* files (YAML) are replaced by these, level by level, until none is left  *)
(* or too many levels were needed.  PluginResolver chooses the plugin of a *)
(* script by the same rank.                                                *)
(*                                                                         *)
(* Names stand for themselves in alphabetical order; the parsing of names  *)
(* into order number and qualifiers is the record of a file.               *)
(***************************************************************************)
EXTENDS Integers, FiniteSets, Sequences, SequencesExt

CONSTANTS
  Files,        \* files there may be
  Plugins,      \* plugins there may be for a script: sets of qualifiers
  Attributes,   \* runtime attributes there may be
  StackDir,     \* the directory of the stack
  MaxLevel      \* recursiveCounter may not reach it, 50 in the code

VARIABLES
  disk,         \* the files there are
  plugins,      \* the plugins the PluginResolver has found
  attributes,   \* the runtime attributes
  stage,        \* how far resolve() has come
  level,        \* recursiveCounter
  chosen,       \* the files filterScriptFiles returned
  scripts,      \* the files as far as YAML files are replaced
  plugin        \* the plugin of a script

vars == <<disk, plugins, attributes, stage, level, chosen, scripts, plugin>>

\* order: the leading number, -1 if the name has none; lists, path: the entries
\* scripts and lookupPath of a YAML file.
File == [dir : STRING, name : Nat, order : Int, quals : SUBSET Attributes,
         yaml : BOOLEAN, lists : Seq(Nat), path : Seq(STRING)]

ASSUME FilesAssumption ==
  Files \subseteq File /\ Plugins \subseteq SUBSET Attributes /\ MaxLevel \in Nat \ {0}

\* A disk holds finitely many files, and a name has room for fewer qualifiers
\* than one hit outweighs.
ASSUME FiniteAssumption == IsFiniteSet(Files) /\ IsFiniteSet(Attributes)
ASSUME BoostAssumption == Cardinality(Attributes) <= 1000

NoPlugin == {"none"}

TypeOK ==
  /\ disk \subseteq Files /\ plugins \subseteq Plugins /\ attributes \subseteq Attributes
  /\ stage \in {"new", "inject", "done", "recursive", "missing"}
  /\ level \in 0 .. MaxLevel
  /\ chosen \in Seq(Files) /\ scripts \in Seq(disk)
  /\ plugin \in plugins \cup {NoPlugin}

\* A directory holds one file of a name.
Init ==
  /\ disk \in {D \in SUBSET Files :
                 \A f, g \in D : f.dir = g.dir /\ f.name = g.name => f = g}
  /\ attributes \in SUBSET Attributes
  /\ plugins = {}
  /\ stage = "new" /\ level = 0
  /\ chosen = << >> /\ scripts = << >>
  /\ plugin = NoPlugin
-----------------------------------------------------------------------------
(***************************************************************************)
(* Rank and choice.                                                        *)
(***************************************************************************)
Hits(quals) == Cardinality(quals \cap attributes)
Misses(quals) == Cardinality(quals \ attributes)

\* Mutant: hits are not boosted.
RankUnboosted(quals) == Hits(quals) - Misses(quals)

Rank(quals) == 1000 * Hits(quals) - Misses(quals)

Candidates == {f \in disk : f.dir = StackDir /\ f.order >= 0}

\* Files are sorted by name, then by rank without changing the order of equals;
\* the last one is taken.
BestFitting(G) ==
  CHOOSE f \in G : \A g \in G :
    \/ Rank(g.quals) < Rank(f.quals)
    \/ Rank(g.quals) = Rank(f.quals) /\ g.name <= f.name

Best == {BestFitting({f \in Candidates : f.order = o}) : o \in {f.order : f \in Candidates}}

Filtered ==
  CHOOSE s \in [1 .. Cardinality(Best) -> Best] :
    \A i, j \in DOMAIN s : i < j => s[i].order < s[j].order

FilterScriptFiles ==
  /\ stage = "new"
  /\ stage' = "inject"
  /\ chosen' = Filtered /\ scripts' = Filtered
  /\ UNCHANGED <<disk, plugins, attributes, level, plugin>>
-----------------------------------------------------------------------------
(***************************************************************************)
(* Files that list other files.                                            *)
(***************************************************************************)
\* Mutant: the directory of the stack is searched last.
LookupPathStackLast(f) == <<f.dir>> \o f.path \o <<StackDir>>

LookupPath(f) == <<StackDir, f.dir>> \o f.path

At(dir, name) == {f \in disk : f.dir = dir /\ f.name = name}

\* What an entry of a YAML file stands for: at most one file.
Found(f, name) ==
  LET hits == {i \in DOMAIN LookupPath(f) : At(LookupPath(f)[i], name) # {}}
  IN IF hits = {} THEN {}
     ELSE At(LookupPath(f)[CHOOSE i \in hits : \A j \in hits : i <= j], name)

TheFile(S) == CHOOSE f \in S : TRUE

Entries(f) ==
  IF f.yaml THEN [i \in DOMAIN f.lists |-> Found(f, f.lists[i])] ELSE <<{f}>>

HasYaml(list) == \E i \in DOMAIN list : list[i].yaml

\* One level: every YAML file of the list is replaced by its entries.
Expanded == FlattenSeq([i \in DOMAIN scripts |-> Entries(scripts[i])])

\* The list with the found files, if every entry is found.
Replaced ==
  LET e == Expanded
  IN IF \E i \in DOMAIN e : e[i] = {} THEN {} ELSE {[i \in DOMAIN e |-> TheFile(e[i])]}

\* Mutant: the result is not looked at before the next level is begun.
InjectOnce ==
  /\ stage = "inject" /\ level < MaxLevel
  /\ scripts' \in Replaced
  /\ stage' = "done" /\ level' = level
  /\ UNCHANGED <<disk, plugins, attributes, chosen, plugin>>

\* Mutant: a level too many.
InjectOneLevelMore ==
  /\ stage = "inject" /\ level <= MaxLevel
  /\ scripts' \in Replaced
  /\ IF HasYaml(scripts') THEN stage' = "inject" /\ level' = level + 1
                          ELSE stage' = "done" /\ level' = level
  /\ UNCHANGED <<disk, plugins, attributes, chosen, plugin>>

\* Mutant: levels are not counted.
InjectUncounted ==
  /\ stage = "inject" /\ level < MaxLevel
  /\ scripts' \in Replaced
  /\ stage' = IF HasYaml(scripts') THEN "inject" ELSE "done"
  /\ UNCHANGED <<disk, plugins, attributes, level, chosen, plugin>>

InjectYamlScriptFiles ==
  /\ stage = "inject" /\ level < MaxLevel
  /\ scripts' \in Replaced
  /\ IF HasYaml(scripts') THEN stage' = "inject" /\ level' = level + 1
                          ELSE stage' = "done" /\ level' = level
  /\ UNCHANGED <<disk, plugins, attributes, chosen, plugin>>

\* "cannot resolve script"
EntryNotFound ==
  /\ stage = "inject" /\ level < MaxLevel
  /\ Replaced = {}
  /\ stage' = "missing"
  /\ UNCHANGED <<disk, plugins, attributes, level, chosen, scripts, plugin>>

\* "recursive YAML-Lookup exceeded recursiveLevel"
TooManyLevels ==
  /\ stage = "inject" /\ level >= MaxLevel
  /\ stage' = "recursive"
  /\ UNCHANGED <<disk, plugins, attributes, level, chosen, scripts, plugin>>
-----------------------------------------------------------------------------
(***************************************************************************)
(* The plugin of a script: only plugins whose qualifiers are all set are   *)
(* considered; among equals the order of the directory decides.            *)
(***************************************************************************)
\* Mutant: plugins with other qualifiers are considered, too.
AvailableAll(P) == P

Available(P) == {q \in P : q \subseteq attributes}

GetBestWeightedPlugin ==
  /\ stage = "done" /\ plugin = NoPlugin
  /\ plugins' \in SUBSET Plugins /\ Available(plugins') # {}
  /\ plugin' \in {q \in Available(plugins') : \A p \in Available(plugins') : Rank(p) <= Rank(q)}
  /\ UNCHANGED <<disk, attributes, stage, level, chosen, scripts>>

Next ==
  \/ FilterScriptFiles \/ InjectYamlScriptFiles \/ EntryNotFound \/ TooManyLevels
  \/ GetBestWeightedPlugin

Spec == Init /\ [][Next]_vars /\ WF_vars(Next)
-----------------------------------------------------------------------------
(***************************************************************************)
(* Properties.                                                             *)
(***************************************************************************)
\* f fits better than g: more qualifiers are set, or as many and fewer are not,
\* or it is alphabetically later.
FitsBetter(f, g) ==
  LET h == Hits(f.quals) - Hits(g.quals)
      m == Misses(g.quals) - Misses(f.quals)
  IN h > 0 \/ (h = 0 /\ m > 0) \/ (h = 0 /\ m = 0 /\ f.name > g.name)

\* "last alphabetically script wins", "2 hits": the stack runs one file of each
\* order number, in rising order, and no other file of that number fits better.
BestOfEachOrder ==
  stage # "new" =>
    /\ \A i, j \in DOMAIN chosen : i < j => chosen[i].order < chosen[j].order
    /\ \A f \in Candidates : \E i \in DOMAIN chosen :
         f.order = chosen[i].order /\ ~ FitsBetter(f, chosen[i])

\* The files a file stands for if its lists are followed to the given depth.
Leaves[depth \in Nat] ==
  [f \in Files |->
     IF ~ f.yaml \/ depth = 0 THEN <<{f}>>
     ELSE FlattenSeq([i \in DOMAIN f.lists |->
            LET e == Found(f, f.lists[i])
            IN IF e = {} THEN <<{}>> ELSE Leaves[depth - 1][TheFile(e)]])]

AllLeaves(depth) == FlattenSeq([i \in DOMAIN chosen |-> Leaves[depth][chosen[i]]])

Nested(depth) == \E S \in Range(AllLeaves(depth)) : \E f \in S : f.yaml

\* Replacing YAML files level by level gives what following each file's lists to
\* the end gives, in that order; the lookup fails as recursive only if a file is
\* nested deeper than the levels allow, and as missing only if an entry is.
InjectionFollowsTheLists ==
  /\ stage = "done" =>
       AllLeaves(MaxLevel) = [i \in DOMAIN scripts |-> {scripts[i]}] /\ ~ HasYaml(scripts)
  /\ stage = "recursive" => Nested(MaxLevel)
  /\ stage = "missing" => Contains(AllLeaves(level + 1), {})

\* Whatever the files list, even themselves, resolve() ends.
ResolveEnds == <>(stage \in {"done", "recursive", "missing"})

\* The calls of injectYamlScriptFiles that resolve() has left at most.
StepsLeft ==
  CASE stage = "new" -> MaxLevel + 2
    [] stage = "inject" -> MaxLevel - level + 1
    [] OTHER -> 0

\* Whatever the files list: each step of resolve() leaves it fewer to take.
ResolveDescends ==
  [][0 <= StepsLeft' /\ StepsLeft' < StepsLeft]_<<stage, level, chosen, scripts>>

\* A file in the stack's directory is never hidden by a file of the same name
\* that lies beside a YAML file or on its lookup path.
StackFilesComeFirst ==
  \A i \in DOMAIN scripts : scripts[i].dir # StackDir => At(StackDir, scripts[i].name) = {}

\* A plugin is taken only if all its qualifiers are set and no available plugin
\* is more special, and the plain plugin only if there is no other.
MostSpecialPlugin ==
  plugin # NoPlugin =>
    /\ plugin \subseteq attributes
    /\ ~ \E q \in plugins : q \subseteq attributes /\ plugin \subseteq q /\ plugin # q
=============================================================================
