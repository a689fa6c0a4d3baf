------------------------------ MODULE HalFiles ------------------------------
(***************************************************************************)
(* The file layer of the board support package: the lists of devices and   *)
(* filesystems, the pool of file descriptors, the redirection of the       *)
(* standard streams at boot and the calls of the program, of which the     *)
(* drivers decide whether they succeed.  This system is built with direct  *)
(* drivers, where the calls go to the devices of the standard streams and  *)
(* there is no pool; the Direct operators are that build.  A name is the   *)
(* sequence of its components and stands for the device it names.          *)
(***************************************************************************)
EXTENDS Integers, Sequences, SequencesExt

CONSTANTS
  ALT_MAX_FD,    \* descriptors in the pool
  Calls,         \* name of a device or filesystem |-> the calls its driver has
  Devices, Filesystems,   \* the names that alt_sys_init may register
  Files,         \* the names the program opens
  Streams        \* <<stdin, stdout, stderr>>, the names alt_main redirects to

Null == <<"dev", "null">>
None == <<>>

FilesAssumption ==
  /\ ALT_MAX_FD \in Nat /\ ALT_MAX_FD > 3
  /\ Devices \cup Filesystems \cup {Null} = DOMAIN Calls
  /\ Devices \cap Filesystems = {} /\ None \notin DOMAIN Calls

\* The device of the standard streams is not the one they start with, and its
\* driver has neither of the calls that alt_isatty and alt_lseek look for.
StreamsAssumption ==
  \A i \in 1 .. 3 : Streams[i] # Null /\ Calls[Streams[i]] \cap {"fstat", "lseek"} = {}

VARIABLES
  dev_list, fs_list,
  pool,          \* [fds, max]: alt_fd_list and alt_max_fd
  boot,          \* alt_sys_init and alt_io_redirect have not ended
  owned          \* descriptor |-> the device it was opened on, None if not open

vars == <<dev_list, fs_list, pool, boot, owned>>

Fds == 0 .. ALT_MAX_FD - 1
Modes == {"RDONLY", "WRONLY", "RDWR"}
Settable == {"NONBLOCK"}      \* stands for O_APPEND too: treated alike
Free == [dev |-> None, mode |-> "RDONLY", flags |-> {}]

Init ==
  /\ dev_list = <<Null>> /\ fs_list = <<>> /\ boot = TRUE
  /\ pool = [fds |-> [i \in Fds |-> IF i < 3 THEN [Free EXCEPT !.dev = Null] ELSE Free], max |-> -1]
  /\ owned = [i \in Fds |-> IF i < 3 THEN Null ELSE None]

-----------------------------------------------------------------------------
(* Names and the pool.                                                     *)

find_dev(file) == IF Contains(dev_list, file) THEN file ELSE None

\* The first filesystem of the list that holds the name, the longest or not.
find_file(file) ==
  LET holding == {i \in DOMAIN fs_list : IsPrefix(fs_list[i], file)}
  IN IF holding = {} THEN None ELSE fs_list[Min(holding)]

FreeFds(p) == {i \in Fds : p.fds[i].dev = None}

\* The first free descriptor, with what alt_open writes into it.
get_fd(p, r) ==
  LET i == Min(FreeFds(p))
  IN [fd |-> i, p |-> [fds |-> [p.fds EXCEPT ![i] = r], max |-> IF i > p.max THEN i ELSE p.max]]

release_fdAboveThree(p, fd) == IF fd > 3 THEN [p EXCEPT !.fds[fd] = Free] ELSE p    \* mutant

release_fd(p, fd) == IF fd > 2 THEN [p EXCEPT !.fds[fd] = Free] ELSE p

file_lockedBelow(p, fd) ==      \* mutant: the last descriptor is not looked at
  \E i \in 0 .. p.max - 1 : /\ p.fds[i].dev = p.fds[fd].dev
                            /\ "EXCL" \in p.fds[i].flags
                            /\ i # fd

file_locked(p, fd) ==
  \E i \in 0 .. p.max : /\ p.fds[i].dev = p.fds[fd].dev
                        /\ "EXCL" \in p.fds[i].flags
                        /\ i # fd

\* alt_open, where status is what the driver's own open would return.
Opened(p, file, mode, flags, status) ==
  LET isafs == find_dev(file) = None
      dev == IF isafs THEN find_file(file) ELSE find_dev(file)
      got == get_fd(p, [dev |-> dev, mode |-> mode,
                        flags |-> flags \cup IF isafs THEN {} ELSE {"DEV"}])
      granted == /\ isafs \/ ~file_locked(got.p, got.fd)
                 /\ "open" \in Calls[dev] => status
  IN IF dev = None \/ FreeFds(p) = {} THEN [fd |-> -1, p |-> p]     \* ENODEV, EMFILE
     ELSE IF granted THEN got
     ELSE [fd |-> -1, p |-> release_fd(got.p, got.fd)]

\* alt_open_fd: a descriptor of the pool is copied, then freed.
Redirected(p, fd, file, mode, status) ==
  LET old == Opened(p, file, mode, {}, status)
  IN IF old.fd < 0 THEN old.p
     ELSE release_fd([old.p EXCEPT !.fds[fd] = old.p.fds[old.fd]], old.fd)

-----------------------------------------------------------------------------
(* Boot.                                                                   *)

dev_llist_insert(d) ==
  /\ boot /\ ~Contains(dev_list, d)
  /\ dev_list' = <<d>> \o dev_list
  /\ UNCHANGED <<fs_list, pool, boot, owned>>

fs_reg(f) ==
  /\ ~Contains(fs_list, f)
  /\ fs_list' = <<f>> \o fs_list
  /\ UNCHANGED <<dev_list, pool, boot, owned>>

io_redirect ==
  /\ boot /\ boot' = FALSE
  /\ \E status \in [0 .. 2 -> BOOLEAN] :
       LET out == Redirected(pool, 1, Streams[2], "WRONLY", status[1])
           in == Redirected(out, 0, Streams[1], "RDONLY", status[0])
       IN pool' = Redirected(in, 2, Streams[3], "WRONLY", status[2])
  /\ owned' = [i \in Fds |-> pool'.fds[i].dev]
  /\ UNCHANGED <<dev_list, fs_list>>

-----------------------------------------------------------------------------
(* The calls.  A descriptor in use is what the program passes.             *)

InUse(fd) == ~boot /\ pool.fds[fd].dev # None
HasCall(fd, call) == call \in Calls[pool.fds[fd].dev]
Lists == <<dev_list, fs_list, boot>>

open(file, mode, flags) ==
  /\ ~boot
  /\ \E status \in BOOLEAN :
       LET o == Opened(pool, file, mode, flags, status) IN
         /\ pool' = o.p
         /\ owned' = IF o.fd < 0 THEN owned ELSE [owned EXCEPT ![o.fd] = o.p.fds[o.fd].dev]
  /\ UNCHANGED Lists

\* The descriptor is freed whatever the driver answers.
close(fd) ==
  /\ InUse(fd)
  /\ pool' = release_fd(pool, fd)
  /\ owned' = IF fd > 2 THEN [owned EXCEPT ![fd] = None] ELSE owned
  /\ UNCHANGED Lists

fd_lock(fd) ==
  LET rc == \A i \in 0 .. pool.max - 1 : i # fd => pool.fds[i].dev # pool.fds[fd].dev
  IN pool' = IF rc THEN [pool EXCEPT !.fds[fd].flags = @ \cup {"EXCL"}] ELSE pool

fd_unlock(fd) == pool' = [pool EXCEPT !.fds[fd].flags = @ \ {"EXCL"}]

ioctl(fd, req) ==
  /\ InUse(fd)
  /\ \/ req = "TIOCEXCL" /\ "DEV" \in pool.fds[fd].flags /\ fd_lock(fd)
     \/ req = "TIOCNXCL" /\ "DEV" \in pool.fds[fd].flags /\ fd_unlock(fd)
     \/ (req = "other" \/ "DEV" \notin pool.fds[fd].flags) /\ pool' = pool    \* the driver's
  /\ UNCHANGED <<Lists, owned>>

fcntl_setfl(fd, flags) ==
  /\ InUse(fd)
  /\ pool' = [pool EXCEPT !.fds[fd].flags = (@ \ Settable) \cup flags]
  /\ UNCHANGED <<Lists, owned>>

\* Which calls on a descriptor reach a driver, or are answered without one.
Reads(fd) == pool.fds[fd].mode # "WRONLY" /\ HasCall(fd, "read")
Writes(fd) == pool.fds[fd].mode # "RDONLY" /\ HasCall(fd, "write")
Seeks(fd) == HasCall(fd, "lseek")
IsATty(fd) == ~HasCall(fd, "fstat")     \* else what the driver's fstat says

Next ==
  \/ \E d \in Devices : dev_llist_insert(d)
  \/ \E f \in Filesystems : fs_reg(f)
  \/ io_redirect
  \/ \E file \in Files, mode \in Modes, flags \in SUBSET Settable : open(file, mode, flags)
  \/ \E fd \in Fds :
       \/ close(fd)
       \/ \E req \in {"TIOCEXCL", "TIOCNXCL", "other"} : ioctl(fd, req)
       \/ \E flags \in SUBSET Settable : fcntl_setfl(fd, flags)

Spec == Init /\ [][Next]_vars

-----------------------------------------------------------------------------
(* The direct build: alt_read, alt_write, alt_isatty, alt_fstat and        *)
(* alt_ioctl switch on the descriptor, alt_open, alt_close and alt_lseek   *)
(* are stubs that fail.                                                    *)

DirectReads(fd) == fd = 0
DirectWrites(fd) == fd \in {1, 2}
DirectIsATty(fd) == fd \in 0 .. 2
DirectSeeks(fd) == FALSE

\* What alt_fd_lock promises: a device is locked by its only descriptor.
LockedAlone ==
  \A fd \in Fds :
    /\ "EXCL" \notin pool.fds[fd].flags
    /\ "EXCL" \in pool'.fds[fd].flags
    => \A i \in Fds : i # fd => pool.fds[i].dev # pool.fds[fd].dev

\* A descriptor is in use exactly from the open that returned it to its close,
\* on the device that was opened, however opens and closes fail and follow one
\* another: no open leaks one and none is given out twice.
DescriptorsOwned == [i \in Fds |-> pool.fds[i].dev] = owned

\* Once a device is locked, no open of it succeeds until the lock is undone.
NotLocked ==
  \A fd \in Fds :
    pool.fds[fd].dev = None /\ pool'.fds[fd].dev \in Devices
    => \A i \in Fds : "EXCL" \in pool.fds[i].flags => pool.fds[i].dev # pool'.fds[fd].dev
LockExcludes == [][NotLocked]_vars

\* Whatever the program has opened, locked and closed, a standard stream that
\* was redirected serves the calls that it serves in the direct build.
StreamsAsDirect ==
  ~boot => \A fd \in 0 .. 2 :
    pool.fds[fd].dev = Streams[fd + 1] =>
      /\ Reads(fd) = (DirectReads(fd) /\ HasCall(fd, "read"))
      /\ Writes(fd) = (DirectWrites(fd) /\ HasCall(fd, "write"))
      /\ IsATty(fd) = DirectIsATty(fd)
      /\ Seeks(fd) = DirectSeeks(fd)
=============================================================================
