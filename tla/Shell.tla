-------------------------------- MODULE Shell --------------------------------
(***************************************************************************)
(* Boot and the shell: kernel_process mounts the file systems and executes *)
(* the shell, which reads a line, cuts it into words in place, looks the   *)
(* command up in the working directory and in the path, and executes it.   *)
(* All of it is one process: programs, nested shells too, run on the stack *)
(* of the shell that executes them and share its directory, its file       *)
(* descriptors and errno.                                                  *)
(*                                                                         *)
(* A line is a sequence of tokens: a word, or one space.                   *)
(***************************************************************************)
EXTENDS Namespace

CONSTANTS
    Space,
    Nul,          (* the terminator the splitter puts in the place of a space *)
    PathOf,       (* the path of each word that begins with a slash         *)
    ExitWords,    (* words that contain "exit"                              *)
    Lines,        (* what may be typed                                      *)
    Creatable,    (* paths at which programs create files                   *)
    Interactive,  (* modules that read keys: simple_game and curses_test    *)
    ArgvSize,     (* elements of the shell's argv: 10                       *)
    Descriptors,  (* those the process has beside the three standard ones: 5 *)
    MaxShells     (* bound: shells inside one another                       *)

ASSUME ShellAssumption ==
    /\ ArgvSize \in Nat \ {0} /\ Descriptors \in Nat \ {0} /\ MaxShells \in Nat \ {0}
    /\ Lines # {} /\ \A l \in Lines : l \in Seq((UNION {Range(x) : x \in Lines}) \ {Nul})
    /\ \A l \in Lines : \A i \in 1 .. Len(l) - 1 : l[i] = Space \/ l[i + 1] = Space
    /\ Space # Nul
    /\ \A t \in DOMAIN PathOf : IsNormal(PathOf[t])
    /\ \A path \in Creatable : IsNormal(path)
    /\ Interactive \cap {"cd", "cat", "ls"} = {}

VARIABLES
    phase,        (* what the process is at                                 *)
    shells,       (* shells inside one another                              *)
    cwd,          (* the working directory of the process                   *)
    free,         (* its file descriptors that are free                     *)
    noent,        (* errno is ENOENT; nothing ever clears it                *)
    line,         (* what was typed, and the words of it looked for         *)
    buffer,       (* the shell's buffer                                     *)
    rest,         (* Splitter::tmp_: <<first, last>> position, empty if first > last *)
    argv,         (* where in the buffer each word begins; argv[1] is argv[0] *)
    target,       (* the path to execute                                    *)
    searched,     (* it was found in the path                               *)
    told          (* "Command not found"                                    *)

registries == <<drivers, apps>>
names == <<mounts, ram, registries>>
parsing == <<buffer, rest, argv>>
vars == <<names, phase, shells, cwd, free, noent, line, parsing, target, searched, told>>

PathDirectory == <<"rom", "bin">>          (* setenv("path", "/rom/bin", 0)  *)

IsWord(t) == t # Space /\ t # Nul
IsAbsolute(t) == t \in DOMAIN PathOf
WordsOf(l) ==
    LET words[n \in 0 .. Len(l)] ==
            IF n = 0 THEN <<>>
            ELSE IF IsWord(l[n]) THEN Append(words[n - 1], l[n]) ELSE words[n - 1]
    IN  words[Len(l)]
Blank(l) == WordsOf(l) = <<>>
SaysExit(l) == Range(l) \cap ExitWords # {}

(* A path and a word joined by operator+= and made normal.                  *)
Join(path, t) ==
    IF IsAbsolute(t) THEN PathOf[t]
    ELSE IF t = ".." THEN (IF path = <<>> THEN <<>> ELSE Front(path))
    ELSE Append(path, t)

Least(S) == CHOOSE i \in S : \A j \in S : i <= j
Greatest(S) == CHOOSE i \in S : \A j \in S : j <= i

(* The C string that begins at a position of the buffer.                    *)
StringAt(i) ==
    LET ends == {j \in i .. Len(buffer) : buffer[j] = Nul}
    IN  SubSeq(buffer, i, IF ends = {} THEN Len(buffer) ELSE Least(ends) - 1)

-----------------------------------------------------------------------------

Init ==
    /\ NamespaceInit
    /\ phase = "constructors" /\ shells = 0 /\ cwd = <<>> /\ free = Descriptors /\ noent = FALSE
    /\ line = <<>> /\ buffer = <<>> /\ rest = <<1, 0>> /\ argv = <<>>
    /\ target = <<>> /\ searched = FALSE /\ told = FALSE

Construct ==
    /\ phase = "constructors"
    /\ (\E name \in Drivers : RegisterDriver(name)) \/ (\E name \in Apps : RegisterExecutable(name))
    /\ UNCHANGED <<phase, shells, cwd, free, noent, line, parsing, target, searched, told>>

(* main makes kernel_process the root process.                              *)
EnterMain ==
    /\ phase = "constructors" /\ AllRegistered /\ phase' = "boot"
    /\ UNCHANGED <<names, shells, cwd, free, noent, line, parsing, target, searched, told>>

(* kernel_process: RamFs at the root; shell.cfg stays open.                 *)
MountRam ==
    /\ phase = "boot" /\ phase' = "rom"
    /\ mounts' = <<MountAt(<<>>, "RamFs")>>
    /\ ram' = [q \in {<<"bin">>, <<"dev">>, <<"config">>, <<"config", "shell.cfg">>} |->
                IF Len(q) = 1 THEN "dir" ELSE "data"]
    /\ free' = free - 1
    /\ UNCHANGED <<registries, shells, cwd, noent, line, parsing, target, searched, told>>

(* The ROM image is there and valid, there but not valid, or not there.     *)
MountRom ==
    /\ phase = "rom" /\ phase' = "devices"
    /\ \/ ram' = WithDirectories({<<"rom">>}) /\ mounts' = Append(mounts, MountAt(<<"rom">>, "RomFS"))
       \/ ram' = WithDirectories({<<"rom">>}) /\ UNCHANGED mounts
       \/ UNCHANGED names
    /\ UNCHANGED <<registries, shells, cwd, free, noent, line, parsing, target, searched, told>>

(* app_start: read_configuration_file opens shell.cfg and does not close it. *)
StartShell ==
    /\ shells' = shells + 1 /\ phase' = "prompt"
    /\ free' = IF free > 0 THEN free - 1 ELSE 0

MountDevices ==
    /\ phase = "devices"
    /\ mounts' = mounts \o <<MountAt(<<"dev">>, "DevFs"), MountAt(<<"bin">>, "AppFs")>>
    /\ StartShell
    /\ UNCHANGED <<ram, registries, cwd, noent, line, parsing, target, searched, told>>

(* A line was read; it is all blanks, has "exit" in it, or is a command.    *)
Read(l) ==
    /\ phase = "prompt" /\ l \in Lines
    /\ told' = FALSE /\ searched' = FALSE

(* Between two commands nothing of the line is used; the model forgets it.  *)
Forget == buffer' = <<>> /\ rest' = <<1, 0>> /\ argv' = <<>> /\ target' = <<>>
Done == Forget /\ line' = <<>>

ReadBlank(l) ==
    /\ Read(l) /\ Blank(l)
    /\ Done /\ UNCHANGED <<names, phase, shells, cwd, free, noent>>

ReadExit(l) ==
    /\ Read(l) /\ ~Blank(l) /\ SaysExit(l)
    /\ shells' = shells - 1
    /\ phase' = IF shells = 1 THEN "idle" ELSE "prompt"
    /\ Done /\ UNCHANGED <<names, cwd, free, noent>>

(* The rest of the line is the path, as it stands: a line that goes on      *)
(* after the word names no file.                                            *)
ReadAbsolute(l) ==
    LET from == Least({i \in DOMAIN l : l[i] # Space})
    IN  /\ Read(l) /\ ~Blank(l) /\ ~SaysExit(l) /\ IsAbsolute(l[from])
        /\ \/ /\ from = Len(l) /\ target' = PathOf[l[from]] /\ phase' = "exec"
              /\ line' = l /\ buffer' = l /\ argv' = <<from>>
              /\ UNCHANGED <<rest, noent>>
           \/ from < Len(l) /\ Done /\ phase' = "prompt" /\ noent' = TRUE
        /\ UNCHANGED <<names, shells, cwd, free>>

ReadCommand(l) ==
    /\ Read(l) /\ ~Blank(l) /\ ~SaysExit(l)
    /\ ~IsAbsolute(l[Least({i \in DOMAIN l : l[i] # Space})])
    /\ line' = l /\ buffer' = l /\ rest' = <<1, Len(l)>> /\ phase' = "split"
    /\ UNCHANGED <<names, shells, cwd, free, noent, argv, target>>

(* get_next_part: skip blanks at both ends, cut at the first blank.  Only   *)
(* there is a terminator put: the last word ends where the buffer does.     *)
NextPartCutsAfter ==             (* fault: the terminator one too far *)
    LET words == {i \in rest[1] .. rest[2] : buffer[i] # Space}
        first == Least(words)
        blanks == {i \in first .. Greatest(words) : buffer[i] = Space}
    IN  /\ argv' = Append(argv, first)
        /\ IF blanks = {} THEN rest' = <<1, 0>> /\ UNCHANGED buffer
           ELSE /\ rest' = <<Least(blanks) + 1, Greatest(words)>>
                /\ buffer' = [buffer EXCEPT ![Least(blanks) + 1] = Nul]

NextPart ==
    LET words == {i \in rest[1] .. rest[2] : buffer[i] # Space}
        first == Least(words)
        blanks == {i \in first .. Greatest(words) : buffer[i] = Space}
    IN  /\ argv' = Append(argv, first)
        /\ IF blanks = {} THEN rest' = <<1, 0>> /\ UNCHANGED buffer
           ELSE /\ rest' = <<Least(blanks) + 1, Greatest(words)>>
                /\ buffer' = [buffer EXCEPT ![Least(blanks)] = Nul]

(* The command and then the arguments, as many as there are; argv has room  *)
(* for ten.                                                                 *)
Split ==
    /\ phase = "split" /\ rest[1] <= rest[2]
    /\ IF Len(argv) < ArgvSize
       THEN NextPart /\ UNCHANGED phase
       ELSE phase' = "fault" /\ UNCHANGED parsing
    /\ UNCHANGED <<names, shells, cwd, free, noent, line, target, searched, told>>

Command == buffer[argv[1]]

(* fopen(path, "r"): a descriptor, and a file that is no directory.         *)
CanRead(path) == free > 0 /\ Get(path) # "none" /\ ~IsDirectory(Get(path))

LookHereLater ==                 (* fault: the path goes first              *)
    /\ phase = "split" /\ rest[1] > rest[2]
    /\ phase' = "search"
    /\ UNCHANGED <<names, shells, cwd, free, noent, line, parsing, target, searched, told>>

LookHereRoot ==                  (* fault: looks in the root directory      *)
    /\ phase = "split" /\ rest[1] > rest[2]
    /\ IF CanRead(Join(<<>>, Command))
       THEN phase' = "exec" /\ target' = Join(<<>>, Command)
       ELSE phase' = "search" /\ UNCHANGED target
    /\ UNCHANGED <<names, shells, cwd, free, noent, line, parsing, searched, told>>

LookHere ==
    /\ phase = "split" /\ rest[1] > rest[2]
    /\ IF CanRead(Join(cwd, Command))
       THEN phase' = "exec" /\ target' = Join(cwd, Command)
       ELSE phase' = "search" /\ UNCHANGED target
    /\ UNCHANGED <<names, shells, cwd, free, noent, line, parsing, searched, told>>

(* readdir of the null pointer that opendir returns is undefined.           *)
SearchPath ==
    /\ phase = "search"
    /\ phase' = IF ~CanOpenDir(PathDirectory) THEN "fault"
                ELSE IF Command \in List(PathDirectory) THEN "exec" ELSE "prompt"
    /\ searched' = (phase' = "exec") /\ told' = (phase' = "prompt")
    /\ IF phase' = "prompt" THEN Done
       ELSE target' = Append(PathDirectory, Command) /\ UNCHANGED <<line, parsing>>
    /\ UNCHANGED <<names, shells, cwd, free, noent>>

(* Back in the shell with what exec returned: only a command of the path    *)
(* that failed is looked at, and then errno is, whoever set it.             *)
Returned(rc) ==
    /\ phase' = "prompt"
    /\ told' = (searched /\ rc = -1 /\ noent') /\ Done /\ searched' = FALSE

FileSystem(path) == mounts[BestMount(path)].fs

(* exec of what is no program: nothing there; nothing to load from; or data *)
(* that does not load and is then called, which no program survives.  The   *)
(* root of AppRegistry claims to be at 0xdeadbeef.                          *)
ExecFails ==
    /\ phase = "exec"
    /\ \/ /\ Get(target) = "none"
          /\ noent' = TRUE /\ Returned(-1)
       \/ /\ \/ Get(target) \in {"device", "devices"}
             \/ Get(target) \in {"dir", "data"} /\ FileSystem(target) = "RamFs"  (* empty *)
          /\ UNCHANGED noent /\ Returned(-1)
       \/ /\ \/ Get(target) = "data" \/ Get(target) = "apps"
             \/ Get(target) = "dir" /\ FileSystem(target) = "RomFS"
          /\ phase' = "fault" /\ UNCHANGED <<noent, line, parsing, target, searched, told>>
    /\ UNCHANGED <<names, shells, cwd, free>>

(* The shell is the one registered program.                                 *)
ExecShell ==
    /\ phase = "exec" /\ Get(target) = "app" /\ shells < MaxShells
    /\ StartShell
    /\ Done /\ UNCHANGED <<names, cwd, noent, searched, told>>

(* The module runs, or it does not load (its code, its data or its table    *)
(* finds no memory, or a symbol nobody provides): then the ROM's bytes are  *)
(* called where they stand, header first.                                   *)
ExecModule ==
    /\ phase = "exec" /\ Get(target) = "program" /\ phase' \in {"running", "fault"}
    /\ UNCHANGED <<names, shells, cwd, free, noent, line, parsing, target, searched, told>>

Running(program) == phase = "running" /\ Last(target) = program

(* The path that the first argument names; blanks after the last word are   *)
(* part of the argument and make a name that no file has.                   *)
ArgumentPath == Join(cwd, StringAt(argv[2])[1])
ArgumentHasBlanks == Len(StringAt(argv[2])) > 1

(* cd: chdir goes where get finds something that says it is a directory.    *)
Cd ==
    LET moves == Len(argv) > 1 /\ ~ArgumentHasBlanks /\ IsDirectory(Get(ArgumentPath))
    IN  /\ Running("cd")
        /\ cwd' = IF moves THEN ArgumentPath ELSE cwd
        /\ noent' = noent /\ Returned(IF moves \/ Len(argv) = 1 THEN 0 ELSE -1)
        /\ UNCHANGED <<names, shells, free>>

(* cat: reads to the end of the file, which a device does not have.         *)
CatOpens == Len(argv) > 1 /\ ~ArgumentHasBlanks /\ CanRead(ArgumentPath)

CatReadsOn ==                    (* fault: the end of the file is not seen  *)
    /\ Running("cat") /\ ~CatOpens
    /\ noent' = noent /\ Returned(IF Len(argv) = 1 THEN 0 ELSE -1)
    /\ UNCHANGED <<names, shells, cwd, free>>

Cat ==
    /\ Running("cat") /\ ~(CatOpens /\ Get(ArgumentPath) = "device")
    /\ noent' = noent /\ Returned(IF CatOpens \/ Len(argv) = 1 THEN 0 ELSE -1)
    /\ UNCHANGED <<names, shells, cwd, free>>

(* ls: -l is its one option; blanks behind it are options it does not know. *)
Ls ==
    /\ Running("ls")
    /\ noent' = noent
    /\ Returned(IF \E i \in 2 .. Len(argv) : StringAt(argv[i])[1] = "-l" /\ Len(StringAt(argv[i])) > 1
                THEN -1 ELSE 0)
    /\ UNCHANGED <<names, shells, cwd, free>>

(* A module that reads keys returns when those it waits for were typed:     *)
(* scanf of simple_game, the loop round getch of curses_test.               *)
InteractiveProgram ==
    /\ phase = "running" /\ Last(target) \in Interactive
    /\ noent' = noent /\ Returned(0)
    /\ UNCHANGED <<names, shells, cwd, free>>

(* Any other module waits for nobody, as pwd; it may create files.          *)
OtherProgram ==
    /\ phase = "running" /\ Last(target) \notin {"cd", "cat", "ls"} \cup Interactive
    /\ UNCHANGED ram \/ (\E path \in Creatable : Create(path))
    /\ noent' = noent /\ \E rc \in {0, -1} : Returned(rc)
    /\ UNCHANGED <<mounts, registries, shells, cwd, free>>

Boot == Construct \/ EnterMain \/ MountRam \/ MountRom \/ MountDevices
Parse == Split \/ LookHere \/ SearchPath
Execute == ExecFails \/ ExecShell \/ ExecModule
Program == Cd \/ Cat \/ Ls \/ OtherProgram

Next ==
    \/ Boot \/ Parse \/ Execute \/ Program \/ InteractiveProgram
    \/ \E l \in Lines : ReadBlank(l) \/ ReadExit(l) \/ ReadAbsolute(l) \/ ReadCommand(l)

(* The process is scheduled; nobody has to type, neither at the prompt nor  *)
(* for a program that reads keys.                                           *)
Spec == Init /\ [][Next]_vars /\ WF_vars(Boot) /\ WF_vars(Parse) /\ WF_vars(Execute) /\ WF_vars(Program)

-----------------------------------------------------------------------------

(* What ls shows in a directory can be opened under the name it is shown    *)
(* with, and is the file that stands there: neither a mount point whose     *)
(* name is part of another path nor the order of the mounts gets in the     *)
(* way (mount_points.cpp, vfs.cpp).  Stated where names may have changed.   *)
ListedIsReachable == phase \in {"rom", "devices", "prompt"} => NamesLead

(* What a line asks for: the file of an absolute path that nothing follows; *)
(* else the file of that name in the working directory, else in the path.   *)
HasFile(path) == Meaning(path) \notin {"none", "dir", "apps"}

Here(l) == Join(cwd, WordsOf(l)[1])

Intended(l) ==
    IF IsAbsolute(WordsOf(l)[1]) THEN PathOf[WordsOf(l)[1]]
    ELSE IF HasFile(Here(l)) THEN Here(l)
    ELSE Append(PathDirectory, WordsOf(l)[1])

(* What the shell executes is what the line means, although the command is  *)
(* looked for by fopen, by opendir and readdir and by exec, each with a     *)
(* search of its own - as long as fopen gets a descriptor: every shell      *)
(* that starts keeps one for good (shell/main.cpp, spawn.cpp).              *)
RunsWhatWasMeant ==
    phase \in {"exec", "running"} => target = Intended(line) \/ free = 0

(* The shell says that there is no such command only when there is none,    *)
(* in the working directory and in the path.  Left out: a program of the    *)
(* path that returned -1 while errno was ENOENT, and no descriptor left.    *)
NotFoundIsTrue ==
    [][phase = "search" /\ told' /\ free > 0 =>
        /\ ~HasFile(Here(line))
        /\ Meaning(Append(PathDirectory, WordsOf(line)[1])) = "none"]_vars

(* A program gets the words of the line, one argument each, however many    *)
(* blanks are around them; only the last may have blanks behind it.         *)
ArgumentsAreWords ==
    phase \in {"exec", "running"} /\ ~IsAbsolute(WordsOf(line)[1]) =>
        /\ Len(argv) = Len(WordsOf(line))
        /\ \A i \in DOMAIN argv :
              /\ WordsOf(StringAt(argv[i])) = <<WordsOf(line)[i]>>
              /\ StringAt(argv[i])[1] = WordsOf(line)[i]
              /\ i < Len(argv) => Len(StringAt(argv[i])) = 1

(* A command comes back to the prompt, unless it was no program or did not  *)
(* load, had too many words, was looked for in a ROM that is not there (all *)
(* a fault), is cat of a device, or reads keys, which nobody has to type;   *)
(* the bound on shells ends the model.                                      *)
CommandEnds ==
    phase \in {"split", "exec"} ~>
        \/ phase \in {"prompt", "fault"}
        \/ Running("cat") /\ CatOpens /\ Get(ArgumentPath) = "device"
        \/ phase = "running" /\ Last(target) \in Interactive
        \/ phase = "exec" /\ shells = MaxShells
=============================================================================
