----------------------------- MODULE Whitelist ------------------------------
(***************************************************************************)
(* classify_path (whitelist.rs): which files may be linked, by name alone. *)
(* A path is the names of its directories, its file name and its extension *)
(* ("" if there is none); the last two in lower case, as they are compared.*)
(***************************************************************************)

Immutable ==
    {"a", "lib", "so", "dll", "dylib"}
    \cup {"png", "jpg", "jpeg", "gif", "bmp", "webp", "ico"}
    \cup {"mp3", "ogg", "wav", "flac", "aac"}
    \cup {"bin", "dat", "npz", "gguf", "onnx", "pt", "pth"}

Volatile == {"d", "obj", "o", "pdb", "tsbuildinfo"}

IsInsideNodeModules(path) == "node_modules" \in path.dirs

IsVolatile(path) == path.ext \in Volatile \/ path.file = "compile_commands.json"

(* As a bug: whatever is not prohibited by its extension is welcome.       *)
ClassifyLenient(path) ==
    IF path.ext \in Volatile \ {"o"} THEN "Prohibited" ELSE "Whitelisted"

Classify(path) ==
    CASE IsInsideNodeModules(path) -> "Whitelisted"
      [] ~IsInsideNodeModules(path) /\ path.ext \in Immutable -> "Whitelisted"
      [] ~IsInsideNodeModules(path) /\ IsVolatile(path) -> "Prohibited"
      [] OTHER -> "Unknown"
=============================================================================
