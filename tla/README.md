# A TLA+ model of slinux

slinux is a minimal, statically linked Linux distribution.  Its own code is a
handful of shell scripts and two small C programs around third-party packages,
of which wget and mandoc are kept in the tree.  This directory models the scripts
and programs, and of wget what the system relies on when it fetches files, in
TLA+, checks the models with TLC on small instances and proves, with TLAPS and for
all instances, all but one of their safety properties (section 5).

`PROJECT.json` lists the runs, the source lines each definition models, a
plausible bug ("mutant") that each property catches, the hazards of the code
and the theorems.

## 1. The system

### Components

| Component | Source | State it keeps | Operations | Module |
|---|---|---|---|---|
| boot-medium search | `bin/slinux-install` 44-65 | what is mounted on `/tmp/bm`, `KERNEL`, `INITRD`, the loop position | mount, inspect, break, umount | `BootMedium` |
| on-target installer | `bin/slinux-install` | the disk (table, two file systems), mounts, traps, caches | some forty commands under `set -eu` | `SlinuxInstall`, `InstallPromise` |
| account files | `bin/slinux-install` 162-196 | `/etc/passwd`, `shadow`, `group` and their new versions | write aside and move, write in place, rewrite line by line | `UserFiles` |
| user dialog | `bin/slinux-install` 68-80, 148-160, `tools/getpass.c` | terminal echo, answers read and not read | `readpass`, user name loop, `getpass` | `PasswordDialog` |
| boot script | `etc/rc.init` | current root, marker, mounts, services | coldplug, `resolve_root`, `switch_root`, services, getty | `RcInit` |
| host-side installer | `install.sh` | loop device, temporary mount points, target | as above, with a `cleanup` function as trap | `HostInstall` |
| parallel build | `meson.build`, `scripts/assemble-rootfs.sh`, `make-iso.sh`, `setup-sysroot.sh`, `Makefile` 60-62, 120-121 | files the targets hand to each other, the kernel tree two of them use | eight targets run by samurai | `MesonBuild` |
| wget: hash tables | `userland/wget/src/hash.c` | cells, count, size | put, remove, clear, grow, for_each | `WgetHash`, `KeyedStore` |
| wget: HSTS database | `userland/wget/src/hsts.c` and its callers | a table per process, one file, its lock and time | open, match, store an entry, merge, save | `WgetHsts` |
| wget: HTTP retrieval | `userland/wget/src/http.c`, `retr.c` | tries, `hstat`, the kept connection, the local file | `retrieve_url`, `http_loop`, `gethttp`, `fd_read_body` | `WgetHttp` |
| wget: recursion | `userland/wget/src/recur.c`, `convert.c`, `exits.c` | queue, blacklist, maps between URLs and files | `retrieve_tree`, `download_child`, `register_*`, `convert_all_links` | `WgetRecur` |
| wget: the rest, mandoc | `userland/*` | - | - | no |
| sequential build | `Makefile` | packages, `build/` | compile, install, assemble | no |
| shutdown script | `etc/rc.shutdown` | - | sync, umount, halt | no |
| `cryptpw` | `tools/cryptpw.c` | none | salt and `crypt(3)` | no |
| kernel options | `scripts/create-minimal-kernel.sh`, `kernel/t480-config` | none | - | no |
| data files, submodules | `etc/*`, ... | - | - | no |

### How they interact

The build puts the scripts into an initramfs and an ISO.  The live system
boots with `rc.init`, its user runs `slinux-install`, which calls `getpass` and
`cryptpw` and copies the running system to a disk; or `install.sh` does the
same from the build host.  The installer leaves `/.slinux-installed` on the new
root; `rc.init` on the new disk takes the marker as a sign that it need not
switch roots.  Processes are connected by files, mounts, pipes, exit statuses
and signals, and there is no other shared state.

Within wget, `main` calls `retrieve_tree` (or `retrieve_url`) for each URL;
`retrieve_tree` calls `retrieve_url` for each URL of its queue, which calls
`http_loop` once per redirection, which calls `gethttp` once per try.  The kept
connection outlives all of these, the maps of `convert.c` outlive the trees, and
the HSTS file outlives the process.  `WgetRecur` takes the outcome of
`retrieve_url`, which `WgetHttp` models, as a choice; both rest on tables that
`WgetHash` shows to be maps.

### What is hard

- `set -e` with traps: which commands end a script, what the trap finds
  mounted, and what happens when the trap itself fails.  In dash, a TERM trap
  whose last command succeeds lets the script *go on*; one that fails ends it
  through `set -e`, and the EXIT trap then runs as well.  A signal during the
  builtin `read` makes `read` fail.  Ctrl-C also kills the running command.  A
  file that a redirection of the shell holds open keeps its file system busy.
  These rules were taken from dash's behaviour; the models rest on them.
- Paths lead somewhere else when a file system is unmounted under a script.
- Device nodes appear asynchronously (devtmpfs), with retry loops that give up.
- Page caches: what `sync` or `umount` has not written is lost with the power.
- A boot script that runs twice with the same command line.
- Answers that arrive early on a pipe, or not at all.
- Targets that run in parallel and read each other's files.
- Retries that continue where the last one stopped, against a server that may
  send something else this time; lengths that count what was read, written,
  skipped or there before.
- A connection that is kept, with bytes of an earlier answer on it.
- Processes that share a file which is locked for writing and not for reading,
  and compare times in whole seconds.
- Maps that must be kept in step with files that are overwritten, redirected to
  and deleted, and a search that looks at every URL only once.
- A hash table without tombstones, changed by the function that traverses it.

The full list, with source lines, is under "hazards" in `PROJECT.json`.

## 2. The modules

### BootMedium

State: `media` (what every block device holds, arbitrary and fixed), `at` (the
device the loop is at), `phase`, `bm` (what is mounted on `/tmp/bm`), and the
shell variables `KERNEL` and `INITRD`.  Actions: `NextDevice` (the two `case`
lines, or three failed mounts), `MountMedium`, `InspectMedium` (lines 56-61
including `break 2`), `ReleaseMedium`/`ReleaseFails` (line 62),
`NoMediumFound`.  A device holds at most one file system, so the inner loop
over file system types is one attempt.  A device that both globs list may occur
twice in `Scan`.  `Numbered` is what line 53 skips of the target: the disk and its
partitions 1 to 4.

### SlinuxInstall and InstallPromise

`SlinuxInstall` extends `BootMedium` (its actions are steps of `Search`) and
follows the script command by command with a program counter `pc`.

- The target is a set of artifacts per place: `root`, `esp` and `ram`, the
  live system's own directory `/mnt/root` that a path leads to while nothing is
  mounted there (`RootLoc`, `EspLoc`).  `fs` is what readers see, `durable`
  what survives a loss of power; `Sync`, `Umount` and the trap copy the one to
  the other.
- `Ready` says what the command at `pc` needs; if it is not met the command
  fails (`CommandCannotSucceed`).  `sfdisk` needs a disk of which no partition is
  mounted, the search's own medium included.  Besides that any command may fail for
  reasons outside the model (`CommandFails`), which also covers Ctrl-C.
- `trap` is the action installed.  `Exit` runs it, `SigTerm` runs it and goes on
  if `TrapSucceeds`, else exits.  `SfdiskInterrupted` and
  `MountRootInterrupted` are the two commands where Ctrl-C may hit after the
  command has had its effect and before the shell goes on, and the difference
  is visible.
- `DiskAppears`, `PartitionAppears` are devtmpfs.

`InstallPromise` is the abstract specification: the disk goes from `old` to
`erased` to `installed`, never back; the report is `ok` only about an installed
disk; nothing changes after the report.  `SlinuxInstall` implements it with
`disk` computed from `table` and `durable`.

### UserFiles

The three files line by line, each command an action, with an end (`Ends`)
between any two.  `passwd` lines keep name, uid and password field; `shadow`
lines name and hash; a `group` line its gid and the parts after it, since
`Rewrite` puts the member in front of what was there.  `Readable` is the
behaviour of the shell's `read` on a last line without a newline.  The pattern of
the dialog tests two characters of a name and lets a colon through: such a name
(`~WholeName`) is several fields, and the lines written are read accordingly.

### PasswordDialog

`readpass`, the user name loop and `getpass.c`, with whoever answers as a
concurrent process (`Type`, `CtrlC`).  A terminal gives `read(2)` one line, a
pipe everything written so far.  `Accepted` is the glob `[89] | 1?` over the
length.  `getpass` also gives up when the echo cannot be turned off.  `answers` is
a history variable.

### RcInit

The script on its first root (initramfs or a partition the kernel mounted) and
again after `SwitchRoot`.  `disks` holds for each partition its PARTUUID, file
system UUID, whether it can be mounted and written to, the marker, and whether it
has a directory `/newroot`, which `Mkdir` makes where it can and `MountNew` needs.
`resolve_root` is one action per line of the dump (`ResolveLine`), `Matches`
its two comparisons, `Resolved` the `head -n1` and the shell.  Services are
started in order; `Lease` is the DHCP server.  `switch_root(8)` may refuse.

### HostInstall

`install.sh` in the manner of `SlinuxInstall`.  The difference is its trap: the
function `cleanup` runs under `set -e` too, so each of its lines needs the
previous ones to have succeeded (`UmountEspOk`, `UmountRootOk`, `LosetupOk`,
`RmdirOk`).  `dirs` says which of the temporary mount points exist: after a
successful `cleanup` on SIGTERM they are gone, and commands that create
directories put them on the host.

### MesonBuild

The eight targets as jobs, each with the steps of its command or script;
`Depends` is the target graph, `Start` what samurai may start, `JobFails` a
failing command, `Again` a second build over what the first one left.  Files are
absent, partial or whole.  Two ways for a job to succeed with a broken result are
kept apart from failures: a member of the pipeline of line 139 other than `gzip`
fails (`PipeMemberFails`, `lost`), and `make userland` installs the kernel's headers
while the kernel job is in the same tree (`Meet`, `clash`), after which both may
produce anything (`Outcome`).

### WgetHash and KeyedStore

`cells` is the array with linear probing; `find_cell` is what
`FOREACH_OCCUPIED_ADJACENT` finds, `Closed` the loop of `hash_table_remove` that
rehashes the run behind the hole (`Closing` after each of its passes, `Resettled`
one pass), `Rehashed` `grow_hash_table` (`Rehashing` after each old cell).  An
operation is one action.  `hash_table_for_each` is one action per cell (`ForEachSkip`) and per
call of its function (`ForEachCall`), which may put or remove the entry it was
called with, as the comment in the code allows; `Advance` is `goto repeat`.
`Abort` is the end of the list of primes.  Keys are values: that equal keys may be
different pointers is left out.  `KeyedStore` is the abstract specification, a
map that changes by one entry at a time or is emptied; the refinement maps a table
to what `hash_table_get_pair` finds.

### WgetHsts

Processes `Proc` with a table each, one file `db` with its `mtime`, a lock and
a clock in seconds.  Opening is three steps (the test of the file, the read
without a lock, `fstat`), saving five (`OpenForSave`, `Flock`, `MergeDatabase`,
`Truncate`, `Dump`); `Die` kills a process anywhere.  `find_entry` returns, as the
code does, the entry of the shortest superdomain even if it does not match, which
`Merged` and `Stored` then take for something; `Merging` is the table after each
line of the file.  `folds` says whether the compiler
has turned the overflow test into a comparison with zero; it is an arbitrary
constant of the build.  `heard` is a history variable.

### WgetHttp

One call of `retrieve_url`.  `at` is where it is: `Begin` is `http_loop` up to its
loop, `Try` a pass up to `gethttp`, `Connect` the choice between the kept and a
new connection, then one action for every way `gethttp` deals with an answer
(`Unauthorized`, `FileAppeared`, `NoContent`, `Redirected`, `NotModified`,
`StillCurrent`, `AlreadyRetrieved`, `RangeError`, `NoBody`, `OpenOutput`), then
`ReadWrite` for each piece of the body and one action for each way `fd_read_body`
ends, then one for every branch of `http_loop` afterwards (`Switch*`, `Judge*`).
`Interim` is the loop over 10x answers.  The record `hs` is `hstat`.

The server is external: it answers with any of `Answers`, from the version of the
file that it has at that moment, and may break off anywhere.  A range may begin
before what was asked for and end before the file does; chunks may come with a
Content-Length that is too small; trailers may follow the last chunk; redirections
and errors may come with a length, in chunks or without either.  The history variable
`short` says whether the last answer announced less than the file.  A byte is a pair of
version and position, so that order and origin show in the local file.  `pconn`
says what is unread on the kept connection; `Connect` may use it even so, because
`test_socket_open` sees only what has arrived, and `stale` bytes are then read as
an HTTP/0.9 answer; "late" is what `skip_short_body` leaves when a chunk's line does
not come.  `FileSpringsUp` is another process that creates the file.
`MaxName` bounds the numbers of `FILE.1`, `FILE.2`, ... that `unique_name` tries:
`FreeName` keeps behaviours within it.

### WgetRecur

A web gives every URL its kind, its links, its local name, its form without escapes
(`url_unescape`, which several URLs may share) and where it has moved.  The blacklist
holds forms without escapes.
`RetrieveTree` starts a tree, `Reuse`, `Download` and `DownloadFails` are the
passes of the loop, `TreeEnds` leaves it, `convert_all_links` is the end of
`main`.  `Refusal` lists the checks of `download_child` in their order, two of which
look at the link and not only at its URL (`-L`, and `-np` with `-p`); the checks of
scheme and domain are one set of refused URLs, and the starting URLs are taken to
share a directory, so that `-np` is one set too.  `Harvest` enqueues the links of a document, `RedirectFollowed` is
`descend_redirect`.  `register_download`, `register_redirection`,
`register_delete_file` and `dissociate_urls_from_file` are the functions of
`convert.c` on the pair of maps.  `RedirectionCrashes` is the pass in which the
maps have no file for the target of a redirection (`Stranded`), which
`register_redirection` asserts they have (section 6).

`MC*` modules give the constants of the runs.

## 3. What the runs check

| Run | Shows | Bounds |
|---|---|---|
| `medium_search` | `InitrdBacked`, `FirstUsableMediumWins` | five devices (two foreign, a loop device, the target and its fifth partition), every content of each |
| `install` | `SuccessMeansInstalled`, `MountsReleased`, `RescueEntryBacked`, `MarkerBeforeBoot`, `EspInsideRoot`, the refinement `KeepsPromise`, `NeverHangs` | a foreign device, the target and its fifth partition, two copied directories, two tries in each wait loop |
| `users` | `HashInForce`, `GroupWhole`, `JoinsWheelAndUsers` | every choice and order of four groups, two edited files, four user names of which two have a colon |
| `dialog` | `StoredWasRepeated`, `EchoRestored`, `DialogEnds` | six lines of three lengths (7, 8, 20), terminal and pipe |
| `boot` | `SwitchOnce`, `LoginOnRequestedRoot`, `ShellIsJustified`, `OnlyRequestedRootTouched`, `BootEnds` | two partitions, writable or not, with or without `/newroot`, two UUIDs, one wireless interface, every command line |
| `host_install` | `ExitStatusHonest`, `DoneMeansDurable`, `LeaksOnlyAroundMount` | image file and block device |
| `meson` | `InputsWhole`, `ImageSound` | two parallel jobs, two builds |
| `wget_hash` | `ProbesReach`, `ForEachMissesNone`, the refinement `IsKeyedStore` | five keys in two clusters that meet across the end, sizes two and five |
| `wget_hsts` | `MergeKeepsOthers`, `UpgradeJustified` | two processes, a host and its superdomain, ages 0, 1 and the largest integer, two ticks, two URLs |
| `wget_http` | `NeverAborts`, `BytesInOrder`, `WholeOnSuccess`, `KeptConnectionDrained`, `ContinueNeverClobbers`, `HttpEnds` | seven command lines, files of one and three bytes in three versions, two tries, one redirection allowed and any number sent, names up to `FILE.2` |
| `wget_recur` | `TreesComplete`, `LinksLead`, `AskedOnce` | five URLs, over a thousand webs, seven command lines, two trees, one failing retrieval |

`boot_uuid` ends in a counterexample: the code does something other than its
comment says (section 6).

The modules also define a type invariant each.  Those of `BootMedium`,
`SlinuxInstall`, `UserFiles`, `PasswordDialog`, `RcInit`, `HostInstall`,
`MesonBuild`, `WgetHash` and `WgetHsts` are parts of proved invariants (section 5);
`WgetHttpProofs` and `WgetRecurProofs` state the types they need themselves.

Why the bounds are enough.  *medium_search*: the search carries one bit of
memory per shell variable from one device to the next, so three devices that are
not skipped give every order of unsuitable, half suitable and suitable media, with
skipped ones between.  *install*: the wait loops behave alike for every positive number
of tries (reaching the limit, the node appearing on the last try); the copy loop
needs `bin` (the setuid bit) and `etc` (the account files) and treats the other
directories alike.  The proofs below do not depend on these bounds.  *dialog*: a
complete dialog takes five lines, the sixth is one rejected answer or a left
over one; the lengths lie just below the lower, on the lower and just above the
upper end of what is accepted.  *boot*: two partitions are enough for a clash of
PARTUUIDs and for "the first one wins".  *meson*: limine runs beside everything
else and kernel beside userland, so a limit of two is one that is reached, and any
two jobs that share a file can overlap; two builds give every leftover of a
failed build.  *wget_hash*: three occupied cells of five are the most the code
allows before it grows, so the clusters reach from the last cell to the second; a
table of two shows growth, five keys the end of the list of primes.  *wget_hsts*:
two savers, one of them reading while the other writes; a clock of three values
tells the same second, the next and one after that, when the entry of the first
has expired.  *wget_http*: three bytes are the least that give a beginning, an
overlap and a range that ends before the file does, and the versions grow once and
shrink once; two tries give one that fails or got part of the file before another,
and the local file may hold a part from the start; the bound
on names cuts nothing off, or `HttpEnds` would fail there.  *wget_recur*: a
cycle, a redirection into the queue, a shared name, an `index.html`, two URLs that
differ in escapes and a second tree that meets documents of the first all fit into
five URLs.

The state spaces are finite without further constraints.  `CHECK_DEADLOCK FALSE`
stands in every configuration because scripts, searches and builds end.

Properties exclude what the code plainly leaves open; each comment says what:
`MountsReleased` speaks of the trap in force (an end during the search, or
between lines 102 and 103 of `slinux-install`, leaves a mount behind),
`EchoRestored` excludes Ctrl-C in `getpass`, `SwitchOnce` and `BootEnds` need a
root the marker can be written to, `JoinsWheelAndUsers` a group file as shipped and a
name without a colon,
`LeaksOnlyAroundMount` names the commands of `install.sh` around which `cleanup`
cannot work, `InputsWhole` leaves out limine, and it and `ImageSound` except what two
makes in one tree or a broken pipeline have made (section 6).  `MergeKeepsOthers`
speaks of files that look younger than when they were read, `BytesInOrder` and
`WholeOnSuccess` of a server that keeps its file (`Undisturbed`) and of answers
whose length is known, the latter of a last answer that announces the rest of the
file, `KeptConnectionDrained` of answers with a length or in
chunks that are not skipped, `HttpEnds` of a server that does not answer 10x for ever,
`TreesComplete` of links that say truthfully what they lead to, of a
redirection as a step of its own and of URLs up to their escapes, `LinksLead` not of a file that a failed
retrieval has spoiled.  Section 6 says what happens otherwise.

## 4. Fairness

- `SearchSpec`, `BootSpec`, `BuildSpec`, `DialogSpec`: weak fairness of the
  script (of the running jobs and of starting new ones, for the build).  A shell
  always starts the next command, and the commands in question return.  In
  `RcInit` a hook that hangs is a command that is never enabled; the network is
  not fair.
- `SlinuxInstall`: weak fairness of the script away from the four prompts.
  Nothing is assumed of the user, of devtmpfs, of signals or of failing
  commands, so `NeverHangs` holds also when nodes never appear.
- `DialogSpec`: in addition the one who answers goes on until the input ends.
  `DialogEnds` is the claim that an input that ends does end the dialog.
- `HttpSpec`: weak fairness of wget itself.  Every wait for the network ends, at
  the latest with `opt.read_timeout`, which is set by default; the server and other
  processes are not fair.  `HttpEnds` is then about the counting of tries and
  redirections; 10x answers are counted nowhere, and the property says so.
- `UserFiles`, `HostInstall`, `WgetHash`, `WgetHsts`, `WgetRecur`: none; only safety
  is claimed.

## 5. What is proved

TLAPS checks the modules `*Proofs` and `BoundedRecursion`.  Every proof has the
same frame: an inductive invariant, checked by TLC on the instance of the
component's run before it was proved; a lemma that it holds initially; one lemma
per part of the invariant that every action keeps it; and the properties as
consequences.

What is assumed of the constants:

| Assumption | Says |
|---|---|
| `ScanAssumption` | the scan is a sequence of devices, the skipped ones are devices, and those of the target are the target's |
| `InstallAssumption` | the copied directories are among the eight the script names, numbers of tries are naturals |
| `UserAssumption` | a name and its part before a colon are strings; a group file is a sequence of lines; without a newline at its end it has at least one |
| `DialogAssumption` | lines have lengths, names are lines, `MaxLines` is a natural |
| `PartAssumption` | the dump of block devices is a sequence of partitions; the initramfs is none of them |
| `HashAssumption` | hash values are naturals, the sizes in the list are above one, and one of them suits the first size asked for; neither primality nor order is needed |
| `HstsAssumption` | finitely many hosts, superdomains are hosts, ages are integers, the bounds are naturals |
| `BuildAssumption` | at least one job at a time, at least one build |
| `HttpAssumption` | options have their types and not both `-N` and `-nc` (which `main` refuses), at least one try, versions are numbered from 0 and have sizes |
| `RecurAssumption` | redirections lead to a URL of the web that has not moved itself, links are links, options have their types |

So the theorems hold for any number of devices, partitions, keys, hosts and
processes, any hash function, any group file and any input, any number of jobs and
builds, any sizes of the files on the server, any number of tries and any web.

*Search* (`SlinuxInstallProofs`).  `SearchInv` adds to the types that a mounted medium
is the unskipped, mountable device at the loop position (`MediumAt`) and that no
usable medium lies before it (`NothingPassedOver`).  `InitrdBacked` and
`FirstUsableMediumWins` do not follow from themselves: the latter
is about the end of the loop and needs the statement about every position
before.

*Installer* (`SlinuxInstallProofs`).  `SuccessMeansInstalled` is a statement about
the last command; it holds because `umount` (line 199) fails unless both file
systems are still mounted, and because as long as they are, everything written so
far is on them.  That is the inductive invariant `InstallInv`:

- `TrapMatches`: which trap is in force at each command and what may be mounted
  there; after the ESP is mounted it is both file systems or none, which is what
  a successful trap leaves.
- `PhaseMatches`: the table is new, and nothing copied before the ESP is mounted.
- `RootProgress`, `EspProgress`, `RescueProgress`: while a file system is mounted
  it holds the artifacts of all commands before `pc`.
- `Flushed`: nothing of a file system still being filled counts as durable (so
  that the abstract disk does not become installed early and then change).
- `Outcome`: from `umount` on the disk is complete.

It is shown initially (`InvInit`) and for each group of actions (`PrepareKeeps`,
`FillKeeps`, `UsersKeeps`, `FinishKeeps`, `InterruptKeeps`, ...), and gives the
theorems `Typing`, `SuccessIsReal`, `NothingLeftMounted`, `EspSafe`,
`RescueSafe`, `MarkerSafe`.  `PromiseKept` is the refinement: every step maps to
a step of `InstallPromise` or to a stutter, using that artifacts are never taken
from a complete disk.

`EspInsideRoot` is an example of what the invariant is for: SIGTERM can unmount
the root before the ESP is mounted, and only the failure of the trap's `umount`
(the ESP is not mounted yet) keeps the script from going on to mount the ESP in
the live system.

*Account files* (`AccountProofs`).  What a file says once it has been moved was
decided while its new version was written, so `UserIInv` follows `passwd.new`,
`group.new` and the read position.  `PasswordInv`: either no hash has been written
or root's line, the first of `/etc/passwd`, and the user's, unless the name is cut at a
colon, send their accounts to `/etc/shadow`, and up to the `mv` (line 170) it is the
former; `Owned` says whose the hashes are.  `ReadPosition`: the lines in `group.new` are the
first lines of the original, rewritten, and the unread ones are the rest; the loop
stops with all lines read but an unterminated last one (`ReadStep`, `ReadDone`).
Theorems: `PasswordsInForce`, `GroupIsWhole`, `JoinsItsGroups`.

*Dialog* (`AccountProofs`).  `AnswerInv`: from the first answer to the
repeat, `$PW` is the last entry of the history, and a repeat is asked for only where
its length was accepted.  That makes what `ReadRepeat` stores the last two answers;
a longer history keeps the pair (`StillRepeated`).  The length of an answer stays an
unexpanded recursive function: only that the same length was accepted matters.
Theorems: `PasswordRepeated`, `TerminalEchoes`.

*Boot* (`RcInitProofs`).  `HitsInv`: during `resolve_root` the first hit is the first
matching line of the dump, or no line so far matches.  `RootInv`: what is checked,
mounted and switched to is the target of that search, and a login needs no `root=`
or the marker; once `Mkdir` has run, a root without `/newroot` is one that cannot be
written to.  `MarkerInv`: where partitions can be written to, a root that was
switched to has the marker, hence there is no second switch.  `MeaningStays` says
that no command changes what `root=` is compared with.  Theorems: `SwitchesOnce`,
`LoginWhereRequested`, `ShellJustified`, and the action property
`TouchesOnlyRequested`.

*Hash tables* (`WgetTableProofs`).  The argument is about paths: the cells from a
key's own position to the cell it lies in, round the end of the array.  `Sound` says
that no path has a hole, no key lies in two cells, and `count` is the number of
occupied cells, fewer than all.  An insertion fills the hole at the end of its path
(`InsertKeepsShape`); growing does so for each old cell in turn
(`RehashedKeepsAll`).  The removal is the hard case: while the loop behind the hole
runs, the table is not sound, and `Passed` says what is true instead after i passes,
namely that holes lie only in the stretch already passed and every entry ahead still
has its path up to there; the loop ends at a cell that was empty before, which no
path crosses (`RemoveKeepsShape`).  Theorems: `SearchesReach`, `TraversalComplete`
(a removal moves entries only towards the cell it freed, never past it), and the refinement `TableIsMap` to `KeyedStore`.

*HSTS* (`WgetTableProofs`).  `Heard`: every entry in a table or in the file was once
received for that host.  A process that has locked, merged or truncated holds the
lock, so nobody else writes between its merge and its truncation; `MergedAll` says
what a table holds after all lines of the file have been merged, in whatever order
the file lists them.  `UnexpiredHolds` shows that a wrapped sum never makes an entry
last longer, with either build of the overflow test.  Theorems: `SavesAreMerged`,
and the action property `UpgradesAreJustified`.

*HTTP* (`WgetHttpProofs`).  Three layers.  `ReadInv` relates the counters while a
body is read (`BodyInv`): either the answer starts again, the first `restval` bytes
of it are skipped and `len` does not move until they are, or it continues at
`restval` and `len` counts from there; so `len` cannot pass the length announced
unless it is still what it was before the try, which is the one case that
`http_loop` tells apart before its `abort` (`JudgeInv`).  Chunks may bring
more than was announced; `res` is then positive, and `http_loop` tries again before it
comes to its `abort`.  The announced length and what was read decide whether the connection is kept.  Theorems: `NeverAbortsHolds`,
`KeptConnectionDrainedHolds`.  `ContinueInv`: with `-c` a request is for what
follows the end of the file as it is at that moment.  Theorem, an action property:
`ContinueNeverClobbersHolds`.  `FileInv` speaks of undisturbed retrievals and says
of every place at which `http_loop` can be what the file holds: it is the old one
or a beginning of the server's (`InOrder`), it ends where this try or the next will
ask for more (`Resumable`), it has `len` bytes while the body arrives
(`Arriving`), and what is compared at the end is the server's length
(`Judgeable`).  `BytesInOrder` is not inductive, because a beginning that is
continued in the wrong place is out of order only one step later, and a `len` left
over from a failed try does harm only in the next; `EarlyInv` adds what `hstat` says
before the first answer and of the file that `-N` compares with.  Theorems:
`BytesInOrderHolds`, `WholeOnSuccessHolds`.

*Recursion* (`WgetRecurProofs`).  `TreeInv`: what is in the queue or was asked for
is, without its escapes, on the blacklist, and no two places in the queue are the
same; a document's links
are enqueued one after the other, and `Harvesting` is the recursive function that
says so.  `MapsInv`: a URL that has a file is, up to a redirection and an
`index.html`, a form of the one the file is registered under (`MapsAgree`), and the
file holds that document or was spoiled (`Held`).  `LinksLead` alone is not
inductive: a download under a name that is taken changes both maps and the disk, and
which URLs are forgotten depends on the file's own entry.  `PagesInv` carries the
result over to the converted pages.  Theorems: `AskedOnceHolds`, `LinksLeadHolds`,
and `RegisteredIfNamesDifferHolds`, which says when the assertion of
`register_redirection` cannot fail (section 6).

*Build* (`HostProofs`).  `OrderInv`: a target that is not waiting has all it depends
on done, and stays behind them, because a target that is done does not run again in
the same build.  `FilesInv`, `TreeInv` and `IsoInv` say which files are complete at
each step, up to what two makes in one tree or a broken pipeline may have spoiled; a
file left half written by an earlier build is complete again before anyone reads it.  Theorems: `InputsWholeHolds`, `ImageSoundHolds`.

*install.sh* (`HostProofs`).  `MountInv`: from the copy on, both file systems are
mounted, or a cleanup that ran to its end has released them and the loop device;
between `mktemp` and the second mount no cleanup can succeed.  `FilledInv`: while
both are mounted the target has what the commands before `pc` write (`Rank`,
`WrittenAt`).  `SavedInv`: after `sync` it is durable.  The exit status is honest
because the last cleanup succeeds only with both mounted.  Theorems:
`ExitStatusHonestHolds`, `DoneMeansDurableHolds`, `LeaksOnlyAroundMountHolds`.  The
model has no parameters, so TLC's search is exhaustive as well; the proof says why.

*Induction over data.*  The library's induction theorems have an operator as a
parameter, which the installed provers cannot instantiate.  `BoundedRecursion`
states induction with sets instead: a non-empty set of naturals has a least element
(`LeastNatural`, from the well-foundedness of `<`), hence induction up to a bound
(`UpTo`), hence a function defined by recursion up to a bound exists and satisfies
its defining equation (`RecursionExists`).  The loops of `hash.c`, `hsts.c` and
`recur.c` are recursive functions over `0 .. n` so that this applies.

*Model-checked only.*  The liveness properties `NeverHangs`, `DialogEnds`,
`BootEnds` and `HttpEnds` (fairness and ENABLED are beyond the prover), and of the
safety properties `TreesComplete`: it compares what was fetched with `Within`, what
is reachable in the web within the depth, and that needs induction over paths of a
recursively defined set.

## 6. Where the code and its words differ

Shown by the run `boot_uuid`: `root=UUID=` is compared with the PARTUUID first
and finds a file system only if both are equal (`UuidNamesFileSystem`).

More formulas state what a comment or a message of the code says, or what one would
expect, and TLC refutes them when they take the place of the properties of the run
named:

1. `KernelBacked` (`medium_search`): a medium with a kernel and no initramfs sets
   `KERNEL=/tmp/bm/vmlinuz` and is unmounted again; the copy (line 130) then
   fails, after the disk has been erased.
2. `FinishesWithoutMedium` (`install`): without a boot medium ("installing without
   rescue entry") the last `umount /tmp/bm` fails under `set -e`, so a complete
   installation ends with status 1 and without its last line.
3. `DoneMeansInstalled` (`host_install`): `install.sh` can say "done" after SIGTERM
   took the target away.  (Its exit status is still 1: `ExitStatusHonest`.)
4. `LimineShipped` (`meson`): `rootfs` does not depend on `limine` and may ship no
   boot loader.
5. `TargetRegistered` (`wget_recur`): "This assumes that TO is successfully
   downloaded and already registered using register_download() above" (`convert.c`
   983), and line 994 asserts it.  But `register_download` returns at 923 when the
   file is registered under TO already, although TO itself may have been forgotten
   since: it was saved again under the name of another redirection, and that file
   was then overwritten or deleted.  The next redirection to TO under the first name
   (`foo/` to `foo/index.html`, say) fails the assertion or, where assertions are
   not compiled, passes a null pointer to `xstrdup`.  The proof of `LinksLead` led
   there; where no two URLs have the same local name it cannot happen
   (`RegisteredIfNamesDiffer`).

6. `KernelTreeAlone` (`meson`): "top-level targets share state (sysroot, rootfs), so
   serialize them" (`Makefile` 60-62).  samurai runs `make kernel` and `make userland`
   side by side, and the latter installs headers from `kernel/linux`.
7. `ZeroAgeIgnored` (`wget_hsts`): "we ignore new entries with max_age == 0"
   (`hsts.c` 491).  No test does so (478-487): the entry is stored, upgrades for the
   rest of its second and is saved.  `UpgradeJustified` therefore lets a max-age of 0
   heard in the same second count.
8. `EveryUrlLoaded` (`wget_recur`): the blacklist compares URLs without their escapes
   (`recur.c` 163-182), so that of `a?b` and `a%3Fb`, two resources, only the first
   that is met is fetched, and the exit status is 0.  `TreesComplete` is stated up to
   escapes.
9. `<>(at = "done")` (`wget_http`): a server that answers a request with 10x again and
   again holds wget for ever (`http.c` 3425-3480); no try is counted.
10. `WholeOnSuccess` without `~short` (`wget_http`): a 206 whose range ends before the
    file does ends in RETROK with a part of the file.  `entity_length` is parsed from
    Content-Range and not looked at (`http.c` 3730-3739).  The same holds for chunks
    with a Content-Length that is too small.

Seen while reading, not stated as properties:

- the search of `slinux-install` may mount a fifth partition of the disk it is about to
  erase (line 53); `sfdisk` refuses the disk while it is mounted, so the installation
  fails and the disk is not changed;
- a user name may have a colon (155), and its lines in `passwd`, `shadow` and `group`
  then have a field too many: the one in `passwd` is no account, for its uid is no
  number;
- `find | sort | cpio | gzip` (`meson.build` 139) has the status of `gzip`, so that the
  failure of another member leaves a truncated archive and a successful job;
- passwords of twenty and more characters are turned down as "too short"
  (`slinux-install` 74-76);
- `getpass` on a pipe may take several lines as one answer (`getpass.c` 31);
- the user name `root` is accepted (`slinux-install` 155);
- a group line that has members becomes one of five fields, and a last line
  without a newline is dropped (`slinux-install` 183-190);
- `slinux_trace` is read from `/proc` before `/proc` is mounted (`rc.init` 15,
  21), so it has no effect on the first root;
- on a root that cannot be written to the marker is missing and `rc.init`
  switches again and again (`rc.init` 87), or, where there is no `/newroot` either,
  falls to a shell on the root that was asked for (82-86);
- the `Makefile` looks for the kernel image when it is parsed (459-462), before
  it is built, and names a configuration file that does not exist (550);
- `rc.shutdown` stops no services: what they write after `sync` is lost.

In wget, found while the properties were being stated (each was a counterexample
of a stronger form, or is what a definition's comment says):

- *HSTS.*  "Otherwise we could potentially overwrite the data stored by other Wget
  processes" (`hsts.c` 567-570) still happens when the file did not exist at the
  start (`last_mtime` is 0), for saves in the same second, for a read that overlaps
  a save, and for hosts whose superdomain has an entry that does not cover them.
  Removing the last entry is never saved.  An expired entry of a superdomain is
  never removed.  A process killed between `ftruncate` and `fclose` leaves an
  empty file.
- *Kept connection.*  `skip_short_body` returns at once for a body of unknown
  length, and returns true when the line that begins a chunk does not come (996-997),
  where its comment says "If reading fails, false is returned" (969); one line is read
  after the last chunk, so that trailers stay; a HEAD may be answered with a body, the
  last chunk of a range is not read, and `check_file_output` returns without closing: in these cases the
  connection is kept with bytes on it, and what arrives after `test_socket_open`
  is read as an HTTP/0.9 answer and saved.
- *Output file.*  `open_output_stream` asks for `count > 0`, which always holds, so
  `fopen_excl` is never called and a file that has just been created is
  overwritten (`http.c` 2558).
- *Lengths.*  "from now on hstat.res can only be -1" (`http.c` 4838) is not so:
  with `-N -c` and a file that has shrunk, `res` is positive, and the retrieval
  ends with TRYLIMEXC.  The end of the connection within a chunk, or before the
  end of an answer of unknown length, counts as success.  `-c` does not ask whether
  the file is still the same, and with `-N` a newer rest may be appended to an old
  beginning.
- *Recursion.*  A redirection to a URL that is still in the queue costs a level, so
  with `-l` its children can be missed.  After A was redirected to B, which had
  been saved before under its own name, deleting or overwriting A's file makes the
  maps forget B.  A failed retrieval overwrites a file that other URLs map to.  A
  style sheet served with the wrong type is followed once and never converted.
  `descend_redirect` accepts a URL that the lists refuse without looking at the
  checks that come after the lists, the host among them.
- *Hash tables.*  A traversal that removes entries may visit one twice, when the
  removal moves it round the end of the array.

## 7. Not modelled, and why

Compilers, archivers, mkfs, fsck and the like are commands that succeed or fail.
`cryptpw` is a pure function through `crypt(3)`.  Kernel options and the files in
`etc/` are data.  The submodules (sinit, ubase, sbase, dash, sdhcp, limine, musl,
linux) are not in the tree; what the scripts use of them is marked external in the
map.  Formatting of messages and of the boot menu is left out.  A server that sends
more than its Content-Length without chunks is left out: wget reads no further than the
length, and the rest would be on the connection as trailers are.

By lines, nearly all of the tree is the vendored source of wget, its gnulib and
mandoc: some 230,000 lines of C, against a few hundred of the scripts.  Most of it
is portability code, lexers, parsers of text and formatters, which are sequential
functions of their input without the interleavings, failures and retries that a
model of states says anything about; of the rest, the parts that keep state over
several steps are modelled: the hash tables everything rests on, the file shared
between processes, the retries and connections, the recursion and its maps.  FTP,
cookies, WARC, Metalink, proxies and compression are left out: the scripts of slinux
do not use them, and they do not take part in the behaviours modelled here.
`rc.shutdown` is three commands in a row.  The `Makefile` is compiler invocations;
the graph of its targets is the one of `meson.build`.

## 8. Plan

Done, in this order: `BootMedium` and its proofs, `SlinuxInstall` with
`InstallPromise` and their proofs, `PasswordDialog`, `UserFiles`, `RcInit`,
`HostInstall`, `MesonBuild`, `WgetHash` with `KeyedStore`, `WgetHsts`, `WgetHttp`,
`WgetRecur`.

The proofs of `WgetHash`, `WgetHsts`, `RcInit`, `UserFiles` and `PasswordDialog`
followed, then those of `WgetRecur`, `WgetHttp`, `MesonBuild` and `HostInstall`.
Components whose names do not clash share a proof module: the search and the
installer, account files and dialog, the two programs of the build host, the two
kinds of tables of wget.

What could come next: `TreesComplete` for every web, from an explicit path to each
document that was not fetched; the refinement of `WgetHsts` to an abstract file to
which entries are only added; the parts of `http.c` left out (proxies, Metalink,
compression), should slinux come to use them.
