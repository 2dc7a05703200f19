----------------------------- MODULE AssetPaths -----------------------------
(* paths.rs: the key of a file, and the file of a key.  A path is the       *)
(* sequence of what stands between its slashes ("/a" is <<"", "a">>), a      *)
(* place in the file system is the sequence of names that leads to it from  *)
(* the root.                                                               *)
EXTENDS SequencesExt

CONSTANTS Dirs, Files,   \* places
          Links,         \* symbolic links: from places to places
          AssetsPath,    \* the canonical path of the assets
          NotUtf8        \* names that are not UTF-8, by strings that stand for them

Name == STRING \ {"", ".", ".."}

Places == Dirs \cup Files \cup DOMAIN Links

\* A directory, a file and a link each have a name in a directory; Links says
\* where a link leads in the end, if anywhere.
ASSUME AssetPathsAssumption ==
    /\ AssetsPath \in Dirs
    /\ Places \subseteq Seq(Name)
    /\ Dirs \cap Files = {} /\ DOMAIN Links \cap (Dirs \cup Files) = {}
    /\ \A place \in Places : \A n \in 0..Len(place) - 1 : SubSeq(place, 1, n) \in Dirs

IsAbsolute(path) == Len(path) > 1 /\ path[1] = ""

-----------------------------------------------------------------------------
(* path_to_key.                                                            *)

IsUtf8(path) == \A i \in DOMAIN path : path[i] \notin NotUtf8

\* path_to_key returns a key and no error.
HasKey(path) == ~IsAbsolute(path) /\ ~Contains(path, "..") /\ IsUtf8(path)

\* Mutant: file_name in place of components.
PathToKeyOfName(path) == <<Last(path)>>

\* Path::components drops empty components and every "." but a leading one,
\* which the loop drops.
PathToKey(path) ==
    LET key[i \in 0..Len(path)] ==
            IF i = 0 THEN <<>>
            ELSE IF path[i] \in {"", "."} THEN key[i - 1]
            ELSE Append(key[i - 1], path[i])
    IN  key[Len(path)]

-----------------------------------------------------------------------------
(* load_asset_data.                                                        *)

\* Where one component leads from a directory.
Enter(place, s) ==
    LET next == Append(place, s)
    IN  CASE s \in {"", "."} -> place
          [] s = ".." -> IF place = <<>> THEN <<>> ELSE Front(place)
          [] OTHER -> IF next \in DOMAIN Links THEN Links[next] ELSE next

\* Nowhere is an error.
Follow(place, s) == {p \in Dirs \cup Files : place \in Dirs /\ p = Enter(place, s)}

\* canonicalize of a path from a place; join starts at the root for an absolute
\* path.
Canonicalize(start, path) ==
    LET places[i \in 0..Len(path)] ==
            IF i = 0 THEN {IF IsAbsolute(path) THEN <<>> ELSE start}
            ELSE UNION {Follow(place, path[i]) : place \in places[i - 1]}
    IN  places[Len(path)]

\* Mutant: the path is tested before it is resolved.
LoadAssetDataUnresolved(key) ==
    {f \in Canonicalize(AssetsPath, key) : ~IsAbsolute(key) /\ f \in Files}

\* The file that is read, if any.
LoadAssetData(key) ==
    {f \in Canonicalize(AssetsPath, key) : IsPrefix(AssetsPath, f) /\ f \in Files}

-----------------------------------------------------------------------------
(* Properties.                                                             *)

IsAsset(file) == IsPrefix(AssetsPath, file) /\ file \in Files

\* Every asset whose names are UTF-8 can be pre-cached, and its key is one that the
\* Ambient server answers with the same file.
FileFoundByItsKey(file) ==
    IsAsset(file) =>
        LET path == SubSeq(file, Len(AssetsPath) + 1, Len(file))
        IN  IsUtf8(path) => HasKey(path) /\ LoadAssetData(PathToKey(path)) = {file}

\* However a file is asked for, it is an asset, and asking by the key of the path
\* yields the same one: a cache filled by keys has what a request would load.
KeyKeepsFile(path) ==
    /\ \A file \in LoadAssetData(path) : IsAsset(file)
    /\ HasKey(path) => /\ LoadAssetData(path) \subseteq LoadAssetData(PathToKey(path))
                       /\ PathToKey(PathToKey(path)) = PathToKey(path)
=============================================================================
