# Verification of the teaching kernel

The repository is a small 32-bit x86 kernel in C (`src/student-distrib`) with
programs that run on it (`src/syscalls`, `src/fish`): one CPU, three terminals
on one screen and keyboard, at most six processes, a round-robin scheduler on
the PIT, a shared real-time clock, a read-only file system. This directory has
TLA+ modules of its core, TLC configurations that check them on small
instances, and proofs that the TLA+ proof system checks for all instances.

Paths below are relative to `src/student-distrib`.

## 1. The system

| Part | Code | State | Operations |
|---|---|---|---|
| Processes and job control | `system_call.c`, `task.c`, `pcb.c` | `process_cnt`, `avail_pid`, six PCBs on the six kernel stacks, `terminal_pid`, `active_process`, `tss.esp0`, the 128 MB page | `sys_exeute`, `sys_halt`, `exception_halt`, `keyboard_halt`, `execute_shell` |
| Scheduler | `scheduler.c` | `pit_cnt`, two saved stack pointers per PCB | `pit_handler`, `switch_process` |
| Virtual clock | `rtc.c` | `interrupt_flag`, `tick_counter`; the period in `file_pos` of each descriptor | `rtc_handler`, open, close, write, read |
| Line editing | `keyboard.c` | `key_buffer`, `buffer_pos`, `buf_status`, `cur_ter` | one per kind of key |
| Terminal reads | `terminal_driver.c` | the same buffers | `terminal_read` |
| File system, descriptors | `file_sys_driver.c`, `system_call.c` | `fd_array` in each PCB, `dir_idx` | open, read, close |
| Video memory | `terminal_driver.c`, `paging_init.c` | which page is behind two addresses, contents of four pages | `switch_video`, echo of keys, slices |
| Text output | `lib.c`, `terminal_driver.c` | screen position and cursor of each terminal | `putc`, `scroll_up`, `terminal_write`, `printf` |
| Library | `lib.c` | none | memory, string and number functions |
| Command line | `system_call.c`, `file_sys_driver.c`, the shell | the argument in the PCB | `sys_exeute` up to the load, `sys_getargs` |
| Keys | `keyboard.c` | `shift`, `ctrl`, `alt`, `capslock` | `handle_special`, `keyboard_handler` |
| Interrupts | `i8259.c`, `idt.c`, `interrupt_wrapper.S` | PIC masks, gates | enable, end of interrupt |
| Programs | `src/syscalls`, `src/fish` | grep's buffer, fish's list of blinkers | `do_one_file`, `mp1_ioctl`, `mp1_rtc_tasklet`, `add_frames` |
| Signals | `signal.c` | a queue per process | not reached in this build |

How they interact. A program enters the kernel by a system call, with
interrupts on. Calls that change shared state turn them off; `terminal_read`,
`rtc_read` and `dir_open` spin or search with interrupts on. Timer, keyboard
and RTC interrupts come at any time in between. The timer interrupt moves the
CPU to the kernel stack of another terminal's foreground process. A start
leaves the parent's kernel stack inside `sys_exeute`, and a halt jumps back
there. Ctrl+C halts a process from inside the keyboard interrupt, on the kernel
stack of whichever process that interrupted.

What makes it hard: the current process is recorded in five places
(`active_process`, `terminal_pid`, the page directory, `tss.esp0`, the stack
pointer); a keyboard interrupt acts on the terminal on display and not on the
running one; one flag, one counter, one directory position are shared by all
processes; jumps go through stack pointers saved earlier. `PROJECT.json` lists
each such place as a hazard, with the properties about it.

What makes each part correct:

- *Processes.* The five records agree; a pid in use is never given out; counter
  and bit mask agree; each terminal's processes form one chain that ends in its
  foreground program; a jump finds the context it expects; a halt takes nothing
  from other processes.
- *Scheduler.* Every terminal gets slices again and again.
- *Clock.* A read waits for a tick of its own, and returns.
- *Lines.* A program gets the line the user edited, after Enter; keys change
  the line of the terminal on display only.
- *Files.* A program reads the file from its start; a listing by one program
  gives every entry once; descriptors are not given out twice.
- *Video memory.* Only programs of the terminal on display print on the screen.
- *Terminals.* Each is as if it were alone: the same screen, printing position
  and cursor, whatever happens at the others and whichever is on display.
- *Interrupts.* A device that asks is heard, again and again.
- *Pure functions.* They return what they should for every input.

## 2. Modules

| Module | What it is |
|---|---|
| `Process` | processes, job control, scheduler, video mappings |
| `OrderlyProcess` | the same kernel in an environment under which its job control works |
| `JobControl` | abstract: a stack of jobs per terminal |
| `ProcessRefinement` | `OrderlyProcess` implements `JobControl` |
| `ProcessProofs` | proofs about these, the refinement included |
| `Rtc`, `RtcProofs` | the clock and its readers |
| `LineDiscipline` | line buffers, keys, `terminal_read` |
| `LineEditor` | abstract: one line with a cursor per terminal |
| `LineRefinement` | `LineDiscipline` implements `LineEditor` |
| `LineProofs` | proofs about `LineDiscipline` and its refinement |
| `FileSystem`, `FileProofs` | descriptors, files, the directory |
| `Screen` | a screen of characters and what printing does to it |
| `Display` | terminals on one screen: pages, positions, cursors, keys' echo |
| `Terminals` | abstract: a screen, a cursor and a line for each terminal |
| `DisplayRefinement` | `Display` implements `Terminals` |
| `DisplayProofs` | proofs about `Display` and its refinement |
| `Library` | memory, string and number functions of `lib.c` |
| `Command` | names, executables, the command line and its argument |
| `Keys` | from scan codes to what a key means |
| `Grep` | grep's search of a file |
| `Fish`, `FishProofs` | fish's blinkers |
| `Frames` | fish's frames |
| `Pic`, `PicProofs` | the interrupt controllers and the handlers' ends of interrupt |
| `PureCalls` | calls of the kernel's pure functions, and what each should return |
| `CallProofs` | proofs about these |
| `MCFileSystem` | a small image, and these calls and those of grep and fish beside its users |

`PROJECT.json`, "map", has the lines behind every definition.

### Process

Each operation runs with interrupts off from its first relevant instruction to
its last, so it is one action: `PitHandler`, `Execute`, `Halt`, `ExceptionHalt`,
`KeyboardHalt`, `KeyboardSwitch`, and the two effects that keys which print have
on the mapping (`KeyboardEcho`, `KeyboardNoErase`).

A process without the CPU is what its kernel stack holds, and the stack
pointers saved in the PCB are right or wrong about that. The variable `frame`
keeps this: a context stored by `switch_process` ("switch"), a call of
`sys_exeute` ("execute"), the CPU itself ("cpu"), nothing ("none"), or a context
the CPU left without saving ("lost"). A jump to a stack that does not hold what
is expected is undefined behaviour in C. So is a load of a program under the
pid -1, and a page fault inside `exception_halt` repeats for ever. `fault`
records which of these happened, and the behaviour ends. So the runs `kernel`,
`child_terminal` and `root_shell_halt` have `CHECK_DEADLOCK FALSE`.

Two NULLs: `parent_pointer = NULL` is a root shell; `esp = NULL` is the boot
stack before the first timer interrupt. `task_init`'s uninitialised `pid` is
covered by the fault "no_pid".

A restart of a root shell (`sys_halt`, 18-24) changes none of the variables. The
shell opens no files, so that its descriptors stay open has no effect today.

### OrderlyProcess

The kernel works as intended only if programs and the user keep to four
conditions that it does not enforce. Each guard there is one of them, and
without it:

1. *Programs are started by a process of the terminal on display, once all
   shells run.* Otherwise the child becomes the foreground process of another
   terminal, whose own program is left without slices (finding
   `child_terminal`). Before all shells run, the pids can be used up, and
   `execute_shell` goes on with -1.
2. *Ctrl+C comes while the foreground program of the terminal on display has
   the CPU and is no root shell.* Otherwise `keyboard_halt` leaves the
   interrupted process's stack without saving it ("lost": its next slice finds
   no context) and `close_fds` closes the interrupted process's descriptors:
   `LiveDescriptors`, which the run `orderly` checks, is false under `Spec`.
3. *A root shell raises no exception* (finding `root_shell_halt`).
4. *Backspace is not pressed at the start of a line while a hidden terminal's
   process runs* (finding `backspace_bleeds`). `ErasingSpec` drops this one.

### Rtc

The two waiting loops of `rtc_read`, the lowering of the flag, ticks and slices
are separate actions. The Makefile sets no optimisation, so `tick_counter` is
read again in every iteration although it is not volatile; the model says so.
A history variable, `fresh`, tells whether a tick came since the reader last
saw a due one.

### LineDiscipline

A key is one action. `terminal_read` has one for each access to the shared
buffers: the test of `buf_status`, the cursor, each byte it clears, the status,
the end of the loop, the copy. Rows touch each other as they do in C:
position `KEYBOARD_BUFFER_SIZE` of a terminal is the first byte of the next
one's row. Memory behind the last row reads as anything. `CURSOR_MAX` bounds
how far the cursor goes. `Readers` are the terminals whose programs read.

`OrderlySpec` has the user type at a prompt and use Tab where four spaces fit.
Without the first condition two things happen: keys handled while
`terminal_read` opens a line leave gaps or vanish (`buglog.txt` 114-117 tells of
the same family of errors), and a key after Enter costs the entered line. When
it comes depends on the program. Before the program looks at `buf_status` again,
the key opens a new line (`keyboard.c` 369): the entered one is gone and the
program waits on, for another Enter. After the loop has ended and before interrupts are
off (`terminal_driver.c` 207-209), the program copies what was typed since, with
no newline in it (finding `line_typed_over`). Without the second, Tab near the end of a row
writes into the next terminal's row (`keyboard.c` 250-255).

A read of no bytes waits for a line like any other and is given nothing. It also
stores a NUL in front of the program's buffer (`terminal_driver.c` 221-222);
programs' memory is not part of this model.

`LineRefinement` maps the characters of a row before its newline or first NUL
to the line of `LineEditor`, and `buf_status` with the place of the program in
`terminal_read` to its state. `ImplementsLineEditor` says that each step is a
step of the editor or none (`Edits`); that an entered line is taken at last is
a property of its own, `LinesTaken`.

### FileSystem

`dir_open` runs with interrupts on, so each of its steps is an action;
`dir_idx++` is taken as one step. The names of a directory are compared as
wholes; `dir_open` compares only as many characters as it is given, which is the
same for "." in an image with no other name that starts with a dot. Entries
behind the directory "may match or may differ". The history `shared` says that
two descriptors were open on the directory when it was last opened, `got`
collects what was read from a descriptor, `expected` is where a listing is.
`Contents` is what a file is: its blocks in the order of its list, cut at its
length. `ReadsFromStart` compares `got` with it, while `read_data` finds block
and offset of every byte anew.
Lengths are natural numbers: a negative one, which wraps in the test of
`read_data`, is not modelled. An unknown file type, after which a descriptor
leaks, is excluded by `FileAssumption`.

### Screen, Display, Terminals

`Screen` has `putc`, the scroll and the clear of `lib.c` on a screen of any
size. `Display` puts several terminals on one: the screen and a backing page
per terminal, the page behind the kernel's and the programs' video memory, one
printing position and one saved one per terminal, the cursor registers and the
saved cursors. Its actions are what programs do (write, draw, open a line and
return from it, restart a root shell), every key, `switch_video`, and a slice.
Keys run inside whatever process the interrupt met and borrow its mapping, its
position and the cursor.

`Terminals` says what this should look like: each terminal has all of that for
itself. `DisplayRefinement` maps a terminal's screen, position and cursor to the
live ones when it is on display or has the CPU, and to the saved ones otherwise.
That holds under the conditions of `OrderlySpec`, none of which the code
enforces. Without it:

1. *Keys edit a line that a program waits for.* Otherwise line and screen part.
2. *Ctrl+L and Ctrl+C come at an empty line.* Ctrl+L puts the cursor at the top
   left and keeps the line and the position in it: Left or Backspace then moves
   the cursor to -1, which is 65535 in the register, and the next echo is stored
   at 0xB8000 + 131070 (`keyboard.c` 195, 424). `OnScreen` is false under
   `UserSpec`.
3. *Ctrl+C does not come while a hidden process has the CPU.* Its message is
   printed for the process it interrupts.
4. *Backspace at the start of a line* is as in `OrderlyProcess`.
5. *A terminal comes on display only while its process lacks the CPU, and does
   not leave it while its drawing program has the CPU.* Otherwise what these
   print until their next slice goes to the wrong page (`terminal_driver.c`
   273-276).
6. *A root shell restarts on display.* `clear()` moves the cursor of the
   terminal on display (`lib.c` 56).

### Library, Command, Keys, Grep

Pure functions, in the shape of the code: `memcpy` in bytes, words and bytes;
`printf` character by character; `sys_exeute`'s two loops over the command line;
the lookup of a name in entries that need not end in a NUL, with what the stack
holds where the code reads bytes it never wrote; `handle_special` over a
sequence of scan codes; grep's buffer with the unfinished line moved to its
front. Each is compared with a definition of what it should do
that has none of that shape. `PureCalls` makes one call with any of its inputs
and says what it should return (`MemoryCopied`, `NumbersPrinted`,
`CommandsUnderstood`, `KeysMean`). `KeysMean` is about the state of Shift, Ctrl
and Caps Lock: which half of `key_array` a key is looked up in, and that Ctrl+L
and Ctrl+C take effect exactly with Ctrl down. What `key_array` holds is data
and not part of it. `MCFileSystem` adds calls of the programs'
functions (`GrepPrintsLines`, `FramesBlink`), with the same variable `call`. In
the runs words are of 8 bits, `ARG_BUF_SIZE`, `NAME_LEN` and `BUFSIZE` a few
bytes.

grep's array is on the stack and not cleared, and the search for a line's end
reads the byte behind a full buffer before anything was stored there
(`ece391grep.c` 33). So `do_one_file` is given what the array holds, and
`GrepPrintsLines` is checked for all its contents. A newline there breaks one
line in two, once, at the first buffer-full that ends within a line; `Seen` is
the text with that newline in it. In every other case grep prints the lines of
the file.

### Fish, Frames

The list of blinkers is the sequence of array slots along `NEXT`; the calls of
`mp1_ioctl` and the ticks come in any order. `BlinkersKept` ties the list, the
array and what was added together. `BlinkersShown` says how far screen and
status agree: `mp1_ioctl_sync` tests the status with `testb` and chooses with
`cmovl`, which is never taken behind it, so a blinker that is on shows the other
character until it changes next (history `stale`). Location 0 marks a free slot
in `mp1_malloc`, so a blinker there would be given away again; fish has none.
`Frames` has `add_frames`, which reads two texts in step, with their ends in any
order.

### Pic

The controllers are hardware: requests, lines in service, masks, the slave
behind line 2 of the master. The kernel's side is `enable_irq`, `send_eoi`, and
in each handler the end of interrupt, the read of register C, and the point
where interrupts are on again.

`entry` is how far `entry()` has come (`kernel.c` 158-177): `KeyboardInit`, then
`rtc_init` in two steps, `PitInit`, `Sti`, and at last "left", when the first
timer interrupt goes to a shell. The first step of `rtc_init` is `ChangeRate`,
which ends in `sti()` (`rtc.c` 152): from there on keys interrupt what is left
of `entry()`, with the lines of clock and timer still masked. Ctrl+C then finds
no process to halt and never comes back, so `LeaveStack` wants a process to be
there.

`keyboard_handler` sends its end of interrupt in four places (`keyboard.c` 178,
183, 215, 266), which are four actions: `SpecialKey`, `TerminalKey`,
`InterruptKey`, `OtherKey`. `NEST_MAX` bounds how
often `keyboard_handler` is interrupted between its `sti` and its return. An
exception inside a handler before its end of interrupt, such as that of
condition 2 of `Display` above, is outside this model: the line would stay in
service.

## 3. Runs

| Run | Instance | Question |
|---|---|---|
| `kernel` | 4 pids, 3 terminals | what holds whatever programs and user do |
| `orderly` | 6 pids, 3 terminals (the real ones) | does job control work under the four conditions, and implement `JobControl` |
| `rtc` | 3 terminals, 2 readers, frequencies 2..32 | do readers of one flag and one counter get their ticks |
| `line_any_keys` | 1 terminal, row of 4, cursor to 6 | what holds for any keys at any time |
| `line_orderly` | 2 terminals, rows of 6, one reads | is the line well formed when typed at the prompt, the one the user edited, and taken at last |
| `files` | 2 processes, 4 descriptors, blocks of 2 bytes; calls of pure functions; fish; PICs | contents, descriptors, directory position; do the functions return what they should; are blinkers kept; are interrupts heard |
| `display` | 2 terminals of 2 x 2 characters, one draws | is each terminal as if it were alone |
| `child_terminal`, `root_shell_halt`, `backspace_bleeds`, `rtc_divide_error`, `line_typed_over` | small | findings, section 5 |

Properties worth a word:

- `CpuAgrees` and `LiveIsAllocated` hold even after Ctrl+C has torn apart a
  process of another terminal. They are what the kernel guarantees with no
  condition at all.
- `PcbStable` is about every step: a process never finds itself with another
  parent or terminal.
- `OneChainPerTerminal` relates `terminal_pid`, `terminal`, `parent_pointer` and
  the stacks of all processes at once.
- `ReadNeedsEnter` holds for all keys at all times, though `terminal_read` sets
  the status that Enter clears in a step of its own.
- `KeysStayOnDisplay` is about rows that touch in memory.
- `LineVisible` relates the line under edit, the position in it, the cursor and
  the cells of the screen, which change in different handlers.
- `ImplementsTerminals` has no exception for who is on display or has the CPU.
- `ImplementsJobControl`, `ImplementsLineEditor` and `ImplementsTerminals` are
  refinements step by step; the fairness that goes with the first two is checked
  as `EveryTerminalRuns` and `LinesTaken`.
- `CommandsUnderstood` quantifies over what the kernel's stack holds, except
  that it does not hold the bytes an executable begins with.
- `InterruptsHeard`: whenever the processor can be interrupted, during the rest
  of the initialisation too, nothing is in service and a requested line of an
  initialised device, or one before it, is ready. A handler that misses its end
  of interrupt on one of its ways out violates it.
- `ListingUndisturbed` is about a global position which other programs' opens,
  closes, halts and reads of files leave alone, as long as they do not open the
  directory too.

Bounds, and why they are enough.

- 4 pids and 3 terminals give shells everywhere and one more program, so that
  the table is full, a child is on any terminal, and Ctrl+C meets a shell, a
  child and a parent. `orderly` uses the real numbers: a chain of four, or
  chains on all terminals.
- `PIT_MAX = 3` wraps the counter at 4, and 4 and 2^32 leave the same remainder
  by 3: the wrap repeats one terminal, as in the code.
- `UINT_MAX = 15` is well above the number of processes, so that a counter that
  went below 0 would show.
- `TICK_MAX = 3` makes the signed counter wrap within a few slices. A real slice
  of 1/100 s has 10 or 11 ticks of the 1024 Hz clock; here 2 or 3, with periods
  0, 1, 2 and 5, so shorter than, within and longer than a slice. Requests 1, 3
  and 64 are refused.
- Rows of 4 bytes (`line_any_keys`) have a first, middle, last-but-one and last
  position; rows of 6 (`line_orderly`) have room for Tab after one character.
  A character differs from the spaces of a Tab. A length of 3 cuts a line, 9
  does not, 0 takes nothing of it.
- Blocks of 2 bytes, a file of 5 in three blocks out of order: reads of 3 and 4
  bytes start inside a block, end in a later one, and are cut at the end. Four
  descriptors are two free ones. The program's name fills its entry and begins
  with the clock's.
- Copies in 9 bytes of memory meet every alignment with a few bytes in front of,
  in and behind words. Numbers are all words of 8 bits. Lines have up
  to 5 bytes over letters, a space, a newline, and texts for grep up to 7; its
  buffer has 3, so that a line of its length fills it, and a text fills it more
  than twice. Up to 5 codes of modifier keys in a row.
- Frames of up to 3 bytes: rows of different lengths, empty rows, one text with
  more rows than the other, with and without a final newline.
- Three blinkers with times 0, 1 and 2, one more that is off the screen.
- A screen of 2 x 2 and a line of 3: a full line scrolls the screen, and scrolls
  it while its terminal is hidden. `PRINT_MAX` bounds how often a behaviour
  prints; three prints fill a screen and scroll it. `CHECK_DEADLOCK FALSE`
  there, as programs and user may stop.

## 4. Fairness

- `WF(PitHandler)`: the PIT runs freely and every way out of the kernel enables
  interrupts again. Nothing is assumed of programs or keys.
- `Rtc`: weak fairness of tick and slice (both clocks run), strong fairness of
  each reader's steps: it spins, has the CPU again and again, and an iteration
  takes nanoseconds while the condition holds for a millisecond tick at least.
  `ReadReturns` is claimed for periods of at most a slice, as the condition then
  holds in each slice of the reader. For longer ones it depends on the ratio of
  the two clocks.
- `LineDiscipline`: weak fairness of the end of the loop and of the copy, as the
  terminal's slices come again and again. Not of the user. `LinesTaken` follows:
  a program that waits for a line that was entered is given it.
- `FileSystem`: weak fairness of the steps of `dir_open`, for the same reason,
  as long as its search is inside the directory: behind the last entry it may
  find a match or go on for ever, and the model promises neither.

## 5. Findings

Each is the violation run of that name; `PROJECT.json` quotes the texts.

- `child_terminal`: a program is started on the terminal on display, not on its
  parent's. `buglog.txt` 11-14 calls it fixed.
- `root_shell_halt`: an exception in a root shell, or Ctrl+C at one, makes
  `exception_halt` follow a null pointer, whose handler is `exception_halt`.
- `backspace_bleeds`: `delete_bf_cursor` returns early without restoring the
  page behind video memory.
- `rtc_divide_error`: `rtc_write` accepts 512 and 1024 Hz, whose period is 0.
  The kernel's own test writes 512.
- `line_typed_over`: a key after `terminal_read`'s loop has seen Enter, and
  before its `cli()`, clears the line; the program is given what was typed since,
  without a newline.

Seen while modelling, with no run of their own: Ctrl+C leaves the interrupted
process of another terminal without a saved context and without descriptors
(condition 2 of `OrderlyProcess`); a key between Enter and the program's next
slice throws the line away; Tab at the end of a row; gaps in a line typed while
`terminal_read` opens it; the page behind a program's own video memory is not
restored by `switch_video`; the other conditions of `Display`, of which Ctrl+L at a
line with text is the worst;
`mp1_ioctl_sync` of fish; the newline that the stack may hold behind grep's
buffer; a read of no bytes from the terminal stores a NUL in front of the
buffer; and shift with the apostrophe's key gives an apostrophe again, with the
back tick's a NUL (`keyboard.c` 40).

## 6. Proofs

All are checked by `tlapm` from nothing, for every value of the constants
allowed by the assumptions:

- `ProcessAssumption`: there is a terminal, at least as many pids as terminals,
  fewer than 255, counters wide enough;
- `RtcAssumption`: positive frequencies and slices, in order;
- `LineAssumption`: rows of two bytes or more, characters that are not NUL or
  newline, lengths of reads that are natural numbers;
- `FileAssumption`: an image whose inodes list as many blocks as their lengths
  need;
- `ScreenAssumption`, `DisplayAssumption`: a screen on which a line under edit
  fits, and whose cells a 16-bit cursor register can count;
- `FishAssumption`: no blinker at location 0;
- `LibraryAssumption`: words of at most 32 bits, space, newline and NUL apart;
- `CommandAssumption`: names and arguments of at least one byte, a signature of
  four bytes, no more entries than inodes (the rest of the boot block);
- `ImageAssumption`: names that are not used twice and fit their entries, inodes
  with as many blocks as their lengths need, a line that fits an argument, and a
  stack that does not hold the last byte of the signature where a file of fewer
  than four bytes leaves it unwritten;
- `CallsAssumption`: the bounds of the calls are natural numbers.

`Pic` needs none.

Every invariant the runs check of the kernel is a theorem; `GrepPrintsLines` and
`FramesBlink`, of programs, are not. What each needed:

**`ProcessProofs`**, `Spec`: `ProcessInv` is inductive. `CpuAgrees` alone is not:
a halt from a foreign stack needs that a live process's pid is allocated, the
flip of a bit needs that no process is its own parent (`NotOwnParent`), and the
first timer interrupt needs that the table is empty at boot (`BootState`). From
it: `TypeOK`, `CpuAgrees`, `LiveIsAllocated` and, step by step, `PcbStable`.

There also, `OrderlySpec`: `OrderlyInv` adds the chains, exact
accounting, descriptors and the mapping. `NoFault` alone is far from inductive:
that a halt finds its parent waiting needs `ParentWaits`; that a slice finds a
saved context needs `ForegroundIsLeaf`; that `execute_shell` finds a pid needs a
count: before all shells run no program is started (`ShellsFirst`), each process
is the foreground of its own terminal, so there are fewer processes than
terminals (`FewShells`, an injection). Accounting uses cardinalities of sets
with one element more or less.

`KernelImplementsJobControl` is the simulation of `JobControl`. The stack of a
terminal is `Chain` of its foreground program, a recursive function that follows
`parent_pointer`. That it is defined is part of the inductive invariant:
`ChainInv` adds to `OrderlyInv` that every set of pids has one whose parent is
outside (`Grounded`, so that no process is its own ancestor) and that the
equation of `Chain` has a solution. `Grounded` makes that solution unique, so
when a process starts or ends the chains of all others are the same as before,
and its own is one longer or gone. With that each action maps to a push, a pop,
a move of the CPU or nothing.

**`RtcProofs`**: `OneReadPerTick` needs `FlagIsFresh`, that a raised flag means a
tick since every terminal's last due one, save for a reader about to lower it.
`TypeOK` needs that dividing by more gives no more (`DivMonotone`).

**`LineProofs`**, `Spec`: `ReadNeedsEnter` needs `ClosedByEnter`, that whoever
waits and sees the line closed called before that Enter; `TypeOK` needs that
`Count` finds a first free byte (a least number). `OrderlySpec`: `LineShape`,
`WholeLine` and `KeysStayOnDisplay` follow from `Fits`, what the row of a
terminal looks like at each place of `terminal_read`: while a row is cleared
`buf_status` is 0, so no key touches it. The lemmas `InsertedLine`,
`DeletedLine`, `EnteredLine` and `TabLine` say what the loops of
`add_at_cursor`, `delete_bf_cursor` and Enter make of a line of n characters,
for rows of any length. `LinesImplementEditor` carries these over to sequences:
from `PromptInv` each key is the one edit of the abstract line, and the copy of
`terminal_read` is the beginning of the entered line.

**`DisplayProofs`**, `OrderlySpec`: `DisplayInv` says that the kernel's and the programs' video memory are the page
of the running process (`Maps`), and of each terminal, through its live or its
saved copies (`Good`), that its cursor is on the screen, that a line under edit
has room for its newline and is empty while no program reads, and that one which
a program waits for is in the cells where the cursor says. `LineVisible` and
`OnScreen` alone are not inductive: an echo goes through the mapping, so that
must be right; a key that moves the cursor back stays on the screen only since
the line and the position in it are behind the cursor; a line scrolls along with
its cursor only if all of it is on the screen. From `DisplayInv`: `TypeOK`,
`OnScreen`, `LineVisible`; and the simulation `DisplayImplementsTerminals`,
action by action, where the terminals that an action is not about are shown to
keep what the mapping gives them.

**`FileProofs`**, `Spec`: `ListingUndisturbed` needs that one descriptor has the
directory while nobody opened it beside another (`OneLister`), and that a
program within `dir_open` is the one that has it (`OpenerLists`).
`DescriptorKept` needs that descriptors 0 and 1 are never replaced
(`TerminalKept`), `TypeOK` that every byte of a file lies in a block of its list
(`BlockInList`, a fact about division). `FilesReadFromStart` needs `ReadSoFar`,
that what was read through a descriptor is the file up to its position. The rest is
about data: `ContentsIs` gives `Contents` byte by byte, the library's
`FlattenSeq` by an explicit solution of its recursion that is shown to be the
only one, and `ReadDataIs` says that `read_data` returns the same bytes.

**`FishProofs`**, `FishSpec`: `FishInv` adds to `BlinkersKept` and
`BlinkersShown` that no two blinkers of the list are at one place (`Apart`),
without which a tick may draw the wrong one and a removal leave one behind, and
that list and `added` correspond one to one (`Counted`).

**`PicProofs`**, `PicSpec`: `InterruptsHeard` needs `MaskTypes`, which lines are
masked at each place of `entry()`; `Stack`: only the keyboard's handler is ever
interrupted, and only after its end of interrupt, so what is in service is what
the last handler has still to end; and `ClockHeard`, by which a stack that is
left behind holds no handler of the clock that has still to read register C.
The timer's line is the last to be unmasked, so nothing leaves the stack of
`entry()` while it initialises other devices.

**`CallProofs`**, `CallsSpec`: a call, with any input, and its return. The state
says nothing here; the proofs are about the loops. Each loop is a fold over a
sequence, which the library defines by a recursive function on sets of
positions. `FoldExists` shows that such a function exists, for folds from the
left, by a least number of positions for which it does not; `CopyRuns`,
`FillRuns`, `MoveRuns`, `KeyRuns`, `NameRuns`, `ArgRuns`, `PrintRuns` and
`ValueRuns` say of one loop each that its state after k elements follows from
that after k - 1. What a loop has done after k elements is then an invariant,
and `Climb` takes it to the last one.

- `MemoryAlwaysCopied`: the bytes, words and bytes of `memcpy` and `memset` tile
  the region, wherever its start lies (`UnitsTile`), and the next unit reads
  what no earlier one wrote when the regions are apart or the destination is
  below (`CopyMore`). `memmove` from above has the mirror image (`CopyBefore`).
- `NumbersAlwaysPrinted`: `itoa`'s recursion on the number has one solution
  (`WritesExist`, `WritesAgree`); the digits it leaves, which
  `strrev` turns round, read as the number (`AllWritten`, `ItoaReads`). A word
  has eight hexadecimal digits at most, so the zeros of `%#x` fill up to eight
  (`EightDigits`).
- `KeysAlwaysMean`: a flag of `handle_special` is set exactly while a key of its
  kind is down, given that both shift keys are never held together; caps lock
  is the parity of a count.
- `CommandsAlwaysUnderstood`: the two loops of `sys_exeute` are in one of three
  places of the line (before, in and behind a word), and so stop with the first
  word and the rest. A lookup compares the bytes of an entry, padded with NULs
  or full (`NamesMatch`). The signature is read from the file or, of a shorter
  file, in part from the stack. `sys_getargs` gives back what was stored, and
  the byte of the PCB behind the argument is not written.

The run `files` checks the same four formulas with `call` beside the other
variables of `MCFileSystem`, where it starts as in `CallsSpec` and changes only
when the call returns.

Induction over numbers is done with least elements: the library's
`NatLessThanWellFounded` gives a least counterexample, which is then refuted.
Its induction theorems proper take an operator as a parameter, which the provers
used here cannot instantiate.

Checked by TLC only:

- liveness (`EveryTerminalRuns`, `ReadReturns`, `OpenReturns`, `LinesTaken`):
  fairness and `ENABLED` are out of the prover's reach;
- `GrepPrintsLines` and `FramesBlink`: the loops of grep and of `add_frames` are
  recursive operators, for which the prover has no backend. They are checked for
  every input of a bounded set.

## 7. Not modelled

- Registers, which the interrupt wrappers of `interrupt_wrapper.S` 66-91 do not
  save, and the TLB (the program page is marked global, `paging_init.c` 130, and
  `flushTLB` reloads CR3 only): both are about instructions, below every model
  here.
- Signals: the callers are compiled out (`TEST_EXTRA` is not defined).
- Negative lengths, the test of an unknown file type, the writes to files.
- cat, ls, counter, pingpong, hello, testprint and syserr: orders of system
  calls that `FileSystem`, `Rtc` and `Display` allow in any order. `emulate.c`
  runs programs on Linux.
- Boot: the multiboot information, the static descriptor tables (the order in
  which the devices are initialised is in `Pic`); the kernel's tests; disable_irq, memset_word and memset_dword, which nothing else calls.
- Exit codes; what `vidmap` checks of its argument.

## 8. Plan

Done: `Process` with its environment, refinement and proofs; `Rtc` and proofs;
`LineDiscipline`, its refinement and proofs; `FileSystem` and proofs; `Display`,
its refinement and proofs; `Library`, `Command`, `Keys`, with `PureCalls` and
proofs; `Grep`, `Frames`; `Fish` and proofs; `Pic` and proofs.

Left: the loops of `Grep` and `Frames` as recursive functions on the states of
their buffers, after which the way of `CallProofs` is open to them; a queue of
signals, once the callers of `signal.c` are compiled in.
