----------------------------- MODULE FileWriter -----------------------------
(***************************************************************************)
(* The paths of ExternalStorerFileWriter (external_storer_file.cpp).  A    *)
(* path is its parts, as std::filesystem::path iterates over them (".",    *)
(* "..", names, and "" for a trailing slash), and whether it began with a  *)
(* root directory.                                                         *)
(***************************************************************************)
EXTENDS Integers, SequencesExt

CONSTANTS
  baseDir,   \* the parts of the absolute path the writer was given
  Paths      \* arguments of isValidPath that ValidIffInside is about

(* What iterating over a std::filesystem::path can give: an empty part     *)
(* only comes last.                                                        *)
IsPath(path) ==
  /\ path \in [absolute : BOOLEAN, parts : Seq(STRING)]
  /\ \A i \in 1 .. Len(path.parts) - 1 : path.parts[i] # ""

ASSUME PathAssumption ==
  /\ baseDir \in Seq(STRING)
  /\ \A i \in DOMAIN baseDir : baseDir[i] \notin {"..", ".", ""}
  /\ \A path \in Paths : IsPath(path)

Absolute(parts) == [absolute |-> TRUE, parts |-> parts]
Relative(parts) == [absolute |-> FALSE, parts |-> parts]

(* Faulty variant: the root directory stays.                               *)
GetRelativePathAsIs(path) == path

GetRelativePath(path) == Relative(path.parts)

(* Faulty variant: only the depth at the end counts.                       *)
IsValidPathAtEnd(path) ==
  LET parts == GetRelativePath(path).parts
      ups == Len(SelectSeq(parts, LAMBDA p : p = ".."))
      names == Len(SelectSeq(parts, LAMBDA p : p \notin {"..", "."}))
  IN names >= ups

(* The depth after each of the parts; the loop gives up as soon as it is   *)
(* negative.                                                               *)
Deeper(part) == CASE part = ".." -> -1 [] part = "." -> 0 [] OTHER -> 1

Depth(parts) ==
  LET depth[n \in 0 .. Len(parts)] ==
        IF n = 0 THEN 0 ELSE depth[n - 1] + Deeper(parts[n])
  IN depth

IsValidPath(path) ==
  LET parts == GetRelativePath(path).parts
  IN \A n \in 0 .. Len(parts) : Depth(parts)[n] >= 0

(* baseDir / path of std::filesystem: an absolute right side replaces the  *)
(* left one.  External: where the first n of the parts lead to.            *)
Join(base, path) == IF path.absolute THEN path.parts ELSE base \o path.parts

Follow(at, part) ==
  CASE part \in {".", ""} -> at
    [] part = ".." -> IF at = <<>> THEN at ELSE Front(at)
    [] OTHER -> Append(at, part)

Walk(parts) ==
  LET at[n \in 0 .. Len(parts)] ==
        IF n = 0 THEN <<>> ELSE Follow(at[n - 1], parts[n])
  IN at

Resolve(parts) == Walk(parts)[Len(parts)]

(* The folder that createFolder, createFile and removeAll work on.         *)
FolderAt(path) == Resolve(Join(baseDir, GetRelativePath(path)))

(* The folders create_directories makes on the way: the root, then one per *)
(* part, also one that a later ".." leaves again.                          *)
FoldersOn(path) ==
  LET parts == Join(baseDir, GetRelativePath(path))
  IN {Walk(parts)[n] : n \in Len(baseDir) .. Len(parts)}

-----------------------------------------------------------------------------
(* Where the first n parts of the path, as the writer joins it to its base *)
(* directory, lead to.                                                     *)
Visited(path, n) ==
  FolderAt([path EXCEPT !.parts = SubSeq(@, 1, n)])

(* isValidPath accepts a path exactly if no part of it leaves the base     *)
(* directory, whatever comes later, and the folder that is used lies below *)
(* the base directory, also for a path given as absolute.                  *)
AcceptedIffInside(path) ==
  IsValidPath(path) <=>
    \A n \in 0 .. Len(path.parts) : IsPrefix(baseDir, Visited(path, n))

=============================================================================
