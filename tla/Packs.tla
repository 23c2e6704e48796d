-------------------------------- MODULE Packs -------------------------------
(***************************************************************************)
(* The pack made of a rule library and its validation (packaging.py:       *)
(* create_pack, validate_pack).  A pack holds a manifest and the sources   *)
(* of the import closure that ImportClosure walks; between its creation    *)
(* and its validation anything in it may be edited, lost or damaged.       *)
(*                                                                         *)
(* A source is what its text amounts to, and its hash is the source        *)
(* itself: no two sources have the same.  What validation reports is the   *)
(* set of its codes, with SD200 for what the parser and SD300 for what the *)
(* type checker or the check of the profile reports.                       *)
(***************************************************************************)
EXTENDS ImportClosure

CONSTANTS
  Packed,      (* The libraries a pack is made of: a subset of Libraries.  *)
  Untyped,     (* Sets of modules with type errors.                        *)
  Specs,       (* Versions of the language a manifest may ask for.         *)
  MaxEdits,    (* Bound: how often a pack is edited.                       *)
  NoPack       (* No pack yet, or a pack without a manifest.               *)

VARIABLES
  pack,    (* The pack: its manifest and its files, by their paths.        *)
  made,    (* The pack as it was created.                                  *)
  edits    (* How often it was edited since.                               *)

packVars == <<pack, made, edits>>

Source == [imports: SUBSET (Module \union NoModule), clean: BOOLEAN,
           typed: BOOLEAN, utf8: BOOLEAN, revised: BOOLEAN]

(* A manifest as create_pack writes it.                                    *)
CurrentSpec == <<0, 6>>

ManifestOf(modules) ==
  [known : {TRUE}, lists : {TRUE}, spec : {CurrentSpec},
   files : [modules \X {"file"} -> Source], modules : [modules -> modules \X {"file"}],
   entrypoints : SUBSET (Module \union NoModule)]

ASSUME PackAssumption ==
  \A modules \in SUBSET Module : NoPack \notin ManifestOf(modules)

(* A path is a module's own, foo.sr, or foo/__init__.sr; one that is no    *)
(* .sr file; or one that leaves the pack.                                  *)
Path == (Module \union NoModule) \X {"file", "init", "other", "outside"}

(* _is_safe_pack_path                                                      *)
IsSafe(path) == path[2] # "outside"

(* module_name_for_file: the names that fit a path.                        *)
NamesFor(path) == IF path[2] = "other" THEN Module \union NoModule ELSE {path[1]}

-----------------------------------------------------------------------------
(* create_pack, after the walk: refused if a module of the closure did not *)
(* parse; type errors are left to validation.                              *)
SourceOf(m, untyped) ==
  [imports |-> library.imports[m], clean |-> m \in library.clean,
   typed |-> m \notin untyped, utf8 |-> TRUE, revised |-> FALSE]

PackOf(modules, untyped) ==
  LET files == [p \in modules \X {"file"} |-> SourceOf(p[1], untyped)]
  IN  [files    |-> files,
       manifest |-> [known |-> TRUE, lists |-> TRUE, spec |-> CurrentSpec,
                     files |-> files, modules |-> [m \in modules |-> <<m, "file">>],
                     entrypoints |-> library.entries]]

CreatePack ==
  /\ phase = "done" /\ library \in Packed /\ made = NoPack
  /\ result # None
  /\ LET modules == {result[i] : i \in 1 .. Len(result)} IN
     /\ modules \subseteq library.clean
     /\ \E untyped \in Untyped : made' = PackOf(modules, untyped)
  /\ pack' = made'
  /\ UNCHANGED <<vars, edits>>

-----------------------------------------------------------------------------
(* Edits of a pack.  The tools that make them are not part of the system.  *)

Revisions(s) ==
  {[r EXCEPT !.revised = TRUE] :
     r \in {s, [s EXCEPT !.clean = FALSE], [s EXCEPT !.typed = FALSE],
            [s EXCEPT !.utf8 = FALSE]}
           \union {[s EXCEPT !.imports = i] :
                     i \in {{}, s.imports \union NoModule, s.imports \union {1}}}}

Without(f, x) == [y \in DOMAIN f \ {x} |-> f[y]]

Put(f, x, y) == [z \in DOMAIN f \union {x} |-> IF z = x THEN y ELSE f[z]]

(* A file is lost, or its text changes.                                    *)
EditFile ==
  \E p \in DOMAIN pack.files :
    \/ pack' = [pack EXCEPT !.files = Without(@, p)]
    \/ \E s \in Revisions(pack.files[p]) : pack' = [pack EXCEPT !.files[p] = s]

(* A file moves with its entry; the modules listed with it follow, under   *)
(* their names or another's.                                               *)
Moved(p, q, n) ==
  [pack EXCEPT
     !.files = Put(Without(@, p), q, @[p]),
     !.manifest.files = IF p \in DOMAIN @ THEN Put(Without(@, p), q, @[p]) ELSE @,
     !.manifest.modules =
       LET old == {m \in DOMAIN @ : @[m] = p}
           kept == [m \in DOMAIN @ \ old |-> @[m]]
       IN  IF old = {} THEN @ ELSE Put(kept, n, q)]

MoveFile ==
  \E p \in DOMAIN pack.files, form \in {"init", "other"}, n \in {1, 2} :
    pack' = Moved(p, <<p[1], form>>, n)

(* A file's entry goes, is renewed, or is for another path; so is a        *)
(* module's.                                                               *)
EditFileList ==
  LET listed == pack.manifest.files IN
  \/ \E p \in DOMAIN listed :
       \/ pack' = [pack EXCEPT !.manifest.files = Without(listed, p)]
       \/ pack' = [pack EXCEPT !.manifest.files =
                                  Put(listed, <<p[1], "outside">>, listed[p])]
  \/ \E p \in DOMAIN pack.files :
       pack' = [pack EXCEPT !.manifest.files = Put(listed, p, pack.files[p])]

EditModuleList ==
  LET listed == pack.manifest.modules IN
  \/ \E n \in DOMAIN listed :
       pack' = [pack EXCEPT !.manifest.modules = Without(listed, n)]
  \/ \E n \in {1, 2}, m \in DOMAIN listed, form \in {"file", "outside"} :
       pack' = [pack EXCEPT !.manifest.modules = Put(listed, n, <<m, form>>)]

EditManifest ==
  \/ \E e \in {{}, NoModule} \union {{n} : n \in DOMAIN pack.manifest.modules} :
       pack' = [pack EXCEPT !.manifest.entrypoints = e]
  \/ \E s \in Specs : pack' = [pack EXCEPT !.manifest.spec = s]
  \/ pack' = [pack EXCEPT !.manifest.known = FALSE]
  \/ pack' = [pack EXCEPT !.manifest.lists = FALSE]
  \/ pack' = [pack EXCEPT !.manifest = NoPack]

Edit ==
  /\ made # NoPack /\ edits < MaxEdits /\ pack.manifest # NoPack
  /\ EditFile \/ MoveFile \/ EditFileList \/ EditModuleList \/ EditManifest
  /\ edits' = edits + 1
  /\ UNCHANGED <<vars, made>>

PackInit == Init /\ pack = NoPack /\ made = NoPack /\ edits = 0

PackNext ==
  \/ Next /\ UNCHANGED packVars
  \/ CreatePack
  \/ Edit

(* The walk takes its steps; nobody has to make a pack or to edit one.     *)
PackSpec == PackInit /\ [][PackNext]_<<vars, packVars>> /\ WF_vars(Next)

-----------------------------------------------------------------------------
(* validate_pack                                                           *)

If(reported, code) == IF reported THEN {code} ELSE {}

(* _dsl_spec_tuple and its use: a version that can be read and is not      *)
(* later than the current one.                                             *)
SpecOK(spec) ==
  /\ Len(spec) = 2
  /\ spec[1] < CurrentSpec[1] \/ (spec[1] = CurrentSpec[1] /\ spec[2] <= CurrentSpec[2])

(* The files that are looked for, with their hashes.                       *)
Expected(p) ==
  [f \in {q \in DOMAIN p.manifest.files : IsSafe(q)} |-> p.manifest.files[f]]

(* Wrong: the hash of a file is only compared if it still parses.          *)
DamagedIfBroken(p) ==
  {f \in DOMAIN Expected(p) :
     f \notin DOMAIN p.files \/ (~ p.files[f].clean /\ p.files[f] # Expected(p)[f])}

Damaged(p) ==
  {f \in DOMAIN Expected(p) :
     f \notin DOMAIN p.files \/ p.files[f] # Expected(p)[f]}

(* The modules listed with a file of the list, and those of them whose     *)
(* path fits their name: those are read.                                   *)
Listed(p) ==
  {n \in DOMAIN p.manifest.modules : p.manifest.modules[n] \in DOMAIN Expected(p)}

Loaded(p) == {n \in Listed(p) : n \in NamesFor(p.manifest.modules[n])}

SourceIn(p, n) == p.files[p.manifest.modules[n]]

Unreadable(p) ==
  {n \in Loaded(p) : p.manifest.modules[n] \notin DOMAIN p.files
                     \/ ~ SourceIn(p, n).utf8}

LibraryIn(p) ==
  [imports |-> [n \in Loaded(p) |-> SourceIn(p, n).imports],
   clean   |-> {n \in Loaded(p) : SourceIn(p, n).clean},
   entries |-> p.manifest.entrypoints]

ManifestCodes(p) ==
  LET m == p.manifest
  IN  If(~ SpecOK(m.spec), "SD633")
      \union If(\E f \in DOMAIN m.files : ~ IsSafe(f), "SD632")
      \union If(Damaged(p) # {}, "SD634")
      \union If(DOMAIN m.modules # Listed(p), "SD632")
      \union If(Listed(p) # Loaded(p), "SD635")

(* What the walk over the pack's modules finds, and the checks after it.   *)
SourceCodes(p) ==
  LET lib == LibraryIn(p) IN
  CASE ~ Sound(lib) -> {"SD601"}
    [] Sound(lib) /\ Cyclic(lib) -> {"SD603"}
    [] OTHER ->
         IF ~ ClosureOf(lib) \subseteq lib.clean THEN {"SD200"}
         ELSE If(\E n \in ClosureOf(lib) : ~ SourceIn(p, n).typed, "SD300")

(* The checks in their order.  A file that cannot be read raises out of    *)
(* all of them, and what was reported before is lost.                      *)
Validate(p) ==
  LET m == p.manifest IN
  IF m = NoPack \/ (m # NoPack /\ ~ m.known) THEN {"SD632"}
  ELSE IF ~ m.lists THEN {"SD632"} \union If(~ SpecOK(m.spec), "SD633")
  ELSE IF Unreadable(p) # {} THEN {"SD631"}
  ELSE IF ManifestCodes(p) # {} THEN ManifestCodes(p)
  ELSE IF ~ m.entrypoints \subseteq Loaded(p) THEN {"SD632"}
  ELSE SourceCodes(p)

-----------------------------------------------------------------------------
Accepted == made # NoPack /\ Validate(pack) = {}

SameManifest == pack.manifest = made.manifest

(* What the pack leads to from its entrypoints, by the sources in it, is   *)
(* within a set of its modules that all parse and type and import nothing  *)
(* outside of the set, none of them itself, however indirectly.            *)
RunsFrom(p) ==
  LET names == DOMAIN p.manifest.modules
  IN  \E reached \in SUBSET names :
        /\ p.manifest.entrypoints \subseteq reached
        /\ \A n \in reached : /\ SourceIn(p, n).clean /\ SourceIn(p, n).typed
                              /\ SourceIn(p, n).imports \subseteq reached
        /\ \E rank \in [reached -> 1 .. Cardinality(names)] :
             \A n \in reached : \A d \in SourceIn(p, n).imports : rank[d] < rank[n]

(* A pack nobody edited is accepted unless its library has type errors.    *)
(* One that is accepted with the manifest it was made with holds the       *)
(* sources it was made of.  And whatever was edited, an accepted pack can  *)
(* be run from its entrypoints (packaging.py: the order of the checks and  *)
(* their early returns, and what each reads of the manifest and the files).*)
AcceptedPacksAreWhole ==
  /\ made # NoPack /\ pack = made =>
       (Accepted <=> \A f \in DOMAIN made.files : made.files[f].typed)
  /\ Accepted /\ SameManifest =>
       \A f \in DOMAIN made.files : f \in DOMAIN pack.files /\ pack.files[f] = made.files[f]
  /\ Accepted => RunsFrom(pack)
=============================================================================
