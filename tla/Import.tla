------------------------------- MODULE Import -------------------------------
(***************************************************************************)
(* Imports of configs: importConfigs of                                    *)
(* pkg/manager/service/rest/configserver.go, importFromImage and           *)
(* importFromTar of pkg/manager/configserver/configserver.go and           *)
(* CopyFromImage of pkg/component/storage/docker/docker.go.                *)
(*                                                                         *)
(* An import from an image copies a directory, the namespace, into a       *)
(* temporary directory named after the second in which the import began,   *)
(* walks it and removes it.  Imports of one second share the directory.    *)
(* Each file is a transaction of its own, which is one step here;          *)
(* ConfigServer has its statements.                                        *)
(***************************************************************************)
EXTENDS Integers, FiniteSets, FiniteSetsExt

CONSTANTS Imports,     \* import requests
          Sites,       \* sites the configs are for
          Types,       \* types of configs; an image has a directory for each
          OtherType,   \* a type without a directory
          Names,       \* names of the files in a directory, in walk order
          MaxSecond,   \* bound of the clock
          None         \* no type or site

ASSUME ImportAssumption ==
    /\ OtherType \notin Types /\ None \notin Types \cup {OtherType}
    /\ Names \subseteq Nat \ {0}
    /\ MaxSecond \in Nat \ {0}

VARIABLES
    clock,   \* the second
    dirs,    \* the temporary directories: directories and files in them
    imp,     \* the import requests
    configs  \* configs that exist, by site, namespace and name

importVars == <<clock, dirs, imp, configs>>

Seconds == 1 .. MaxSecond

\* An entry of a temporary directory; name 0 is the namespace's directory.
Entry(ns, name, from) == [ns |-> ns, name |-> name, from |-> from]

NoImport == [pc |-> "idle", source |-> "", site |-> None, ns |-> None, second |-> 0,
             dir |-> 0, todo |-> {}, took |-> {}]

ImportInit ==
    /\ clock = 1
    /\ dirs = [s \in Seconds |-> {}]
    /\ imp = [i \in Imports |-> NoImport]
    /\ configs = {}

\* The step of an import that creates no config.
Step(i, r) ==
    /\ imp' = [imp EXCEPT ![i] = r]
    /\ UNCHANGED <<clock, configs>>

Tick ==
    /\ clock < MaxSecond
    /\ clock' = clock + 1
    /\ UNCHANGED <<dirs, imp, configs>>

\* The request is checked; a parameter that is missing refuses it.
importConfigs(i) ==
    /\ imp[i].pc = "idle"
    /\ \E source \in {"image", "tar", "bad"}, site \in Sites, ns \in Types \cup {OtherType} :
          Step(i, [imp[i] EXCEPT !.source = source, !.site = site, !.ns = ns,
                                 !.pc = IF source = "bad" THEN "failed" ELSE "begin"])
    /\ UNCHANGED dirs

-----------------------------------------------------------------------------
(* From an image.                                                          *)

\* Slip: one directory for all imports.
DistDirSlip(second) == 1

\* tmpDir / second
DistDir(second) == second

\* The deferred RemoveAll.
RemoveAll(i) == dirs' = [dirs EXCEPT ![imp[i].dir] = {}]

\* MkdirAll; the image is pulled and a container created.
importFromImage(i) ==
    /\ imp[i].pc = "begin" /\ imp[i].source = "image"
    /\ Step(i, [imp[i] EXCEPT !.second = clock, !.dir = DistDir(clock),
                              !.pc = IF imp[i].ns \in Types THEN "copy" ELSE "read"])
    /\ UNCHANGED dirs

\* The directories, then the files one by one.  A file of the same name is
\* replaced; without its directory it cannot be created.
CopyFromContainer(i) ==
    LET r == imp[i] IN
    /\ r.pc = "copy"
    /\ dirs' = [dirs EXCEPT ![r.dir] = @ \cup {Entry(r.ns, 0, None)}]
    /\ Step(i, [r EXCEPT !.pc = "copying", !.todo = Names])

CopyFile(i) ==
    LET r == imp[i]
        name == Min(r.todo)
    IN
    /\ r.pc = "copying" /\ r.todo # {}
    /\ Entry(r.ns, 0, None) \in dirs[r.dir]
    /\ dirs' = [dirs EXCEPT ![r.dir] =
                   {e \in @ : e.ns # r.ns \/ e.name # name} \cup {Entry(r.ns, name, i)}]
    /\ Step(i, [r EXCEPT !.todo = @ \ {name}, !.pc = IF r.todo = {name} THEN "read" ELSE @])

\* ReadDir: the one directory is the namespace.
createConfigFromDir(i) ==
    LET r == imp[i] IN
    /\ r.pc = "read"
    /\ \E ns \in Types :
          /\ {e.ns : e \in dirs[r.dir]} = {ns}
          /\ Step(i, [r EXCEPT !.pc = "walk", !.ns = ns])
    /\ UNCHANGED dirs

\* filepath.Walk reads the names.  The callback does not look at the error of
\* a directory that is gone by then, and the walk ends with nothing imported.
ReadNames(i) ==
    LET r == imp[i]
        names == {e.name : e \in {x \in dirs[r.dir] : x.ns = r.ns}} \ {0}
    IN
    /\ r.pc = "walk"
    /\ Step(i, [r EXCEPT !.pc = "file", !.todo = names])
    /\ UNCHANGED dirs

\* The config of the file, which is created unless it exists.
createOrUpdateConfig(i, name, from) ==
    /\ imp' = [imp EXCEPT ![i].todo = @ \ {name}, ![i].took = @ \cup {<<name, from>>}]
    /\ configs' = configs \cup {<<imp[i].site, imp[i].ns, name>>}
    /\ UNCHANGED <<clock, dirs>>

createConfigFromFile(i) ==
    LET r == imp[i] IN
    /\ r.pc = "file" /\ r.source = "image" /\ r.todo # {}
    /\ \E e \in dirs[r.dir] :
          /\ e.ns = r.ns /\ e.name = Min(r.todo)
          /\ createOrUpdateConfig(i, e.name, e.from)

-----------------------------------------------------------------------------
(* From a tar file, whose first entry is the namespace.                    *)

importFromTar(i) ==
    /\ imp[i].pc = "begin" /\ imp[i].source = "tar"
    /\ Step(i, [imp[i] EXCEPT !.pc = "file", !.todo = Names])
    /\ UNCHANGED dirs

TarFile(i) ==
    /\ imp[i].pc = "file" /\ imp[i].source = "tar" /\ imp[i].todo # {}
    /\ createOrUpdateConfig(i, Min(imp[i].todo), i)

-----------------------------------------------------------------------------
\* The import succeeds, or fails at any of its calls: a docker, database or
\* tar error, a directory that is not as expected, a file that is gone (for
\* Walk a panic, which the HTTP server recovers from).  Files imported before
\* stay.
Return(i, result) ==
    /\ Step(i, [imp[i] EXCEPT !.pc = result, !.todo = {}])
    /\ IF imp[i].source = "image" /\ imp[i].dir # 0 THEN RemoveAll(i) ELSE UNCHANGED dirs

Succeed(i) == imp[i].pc = "file" /\ imp[i].todo = {} /\ Return(i, "ok")

Fail(i) == imp[i].pc \notin {"idle", "ok", "failed"} /\ Return(i, "failed")

ImportNext ==
    \/ Tick
    \/ \E i \in Imports :
          \/ importConfigs(i) \/ importFromImage(i) \/ CopyFromContainer(i) \/ CopyFile(i)
          \/ createConfigFromDir(i) \/ ReadNames(i) \/ createConfigFromFile(i)
          \/ importFromTar(i) \/ TarFile(i) \/ Succeed(i) \/ Fail(i)

ImportSpec == ImportInit /\ [][ImportNext]_importVars

-----------------------------------------------------------------------------
(* Properties.                                                             *)

\* The image imports that use the directory of a second at some time.
Sharing(i) == {j \in Imports \ {i} : imp[j].second = imp[i].second}

\* An import that shares its second with no other takes all files of its image
\* and none of another's, even while imports of other seconds copy, walk and
\* remove; and a temporary directory is gone when its imports are.
ImportsApart ==
    /\ \A i \in Imports :
          imp[i].pc = "ok" /\ imp[i].source = "image" /\ Sharing(i) = {} =>
              imp[i].took = Names \X {i}
    /\ \A s \in Seconds :
          dirs[s] # {} => \E i \in Imports : /\ imp[i].dir = s
                                             /\ imp[i].pc \notin {"ok", "failed"}
=============================================================================
