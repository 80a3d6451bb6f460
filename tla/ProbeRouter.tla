------------------------------ MODULE ProbeRouter ------------------------------
(***************************************************************************)
(* The syscall router of ksvc-module: which tier serves a system call,      *)
(* given the io_uring opcodes the running kernel says it supports           *)
(* (ksvc-module/src/probe_router.rs, ksvc-core/src/router.rs).              *)
(*                                                                          *)
(* The table is built once and only read afterwards, so it is an operator   *)
(* of the probe's answer.  System calls are named, opcodes keep their       *)
(* numbers: the two ready-made routers are ranges of numbers.               *)
(***************************************************************************)
EXTENDS Naturals, FiniteSets

(* The opcodes the table mentions, with the kernel's numbers. *)
op ==
  [READV |-> 1, WRITEV |-> 2, FSYNC |-> 3, SYNC_FILE_RANGE |-> 8,
   SENDMSG |-> 9, RECVMSG |-> 10, ACCEPT |-> 13, CONNECT |-> 16,
   FALLOCATE |-> 17, OPENAT |-> 18, CLOSE |-> 19, STATX |-> 21, READ |-> 22,
   WRITE |-> 23, FADVISE |-> 24, MADVISE |-> 25, SEND |-> 26, RECV |-> 27,
   OPENAT2 |-> 28, EPOLL_CTL |-> 29, SPLICE |-> 30, TEE |-> 33,
   SHUTDOWN |-> 34, RENAMEAT |-> 35, UNLINKAT |-> 36, MKDIRAT |-> 37,
   SYMLINKAT |-> 38, LINKAT |-> 39, FSETXATTR |-> 41, SETXATTR |-> 42,
   FGETXATTR |-> 43, GETXATTR |-> 44, SOCKET |-> 45, WAITID |-> 53,
   FTRUNCATE |-> 58, BIND |-> 59, LISTEN |-> 60]

(* Tier 0: answered from the shared page. *)
tier0 ==
  {"getpid", "getppid", "getuid", "getgid", "geteuid", "getegid", "getsid",
   "uname", "getpgrp", "getrlimit"}

(* Tier 1 candidates that have no other way to be served ... *)
tier1_only ==
  {<<"read", op.READ>>, <<"write", op.WRITE>>, <<"pread64", op.READ>>,
   <<"pwrite64", op.WRITE>>, <<"readv", op.READV>>, <<"writev", op.WRITEV>>,
   <<"preadv", op.READV>>, <<"pwritev", op.WRITEV>>, <<"openat", op.OPENAT>>,
   <<"openat2", op.OPENAT2>>, <<"close", op.CLOSE>>, <<"statx", op.STATX>>,
   <<"fallocate", op.FALLOCATE>>, <<"ftruncate", op.FTRUNCATE>>,
   <<"fsync", op.FSYNC>>, <<"fdatasync", op.FSYNC>>,
   <<"sync_file_range", op.SYNC_FILE_RANGE>>, <<"renameat2", op.RENAMEAT>>,
   <<"renameat", op.RENAMEAT>>, <<"unlinkat", op.UNLINKAT>>,
   <<"mkdirat", op.MKDIRAT>>, <<"symlinkat", op.SYMLINKAT>>,
   <<"linkat", op.LINKAT>>, <<"fadvise64", op.FADVISE>>,
   <<"madvise", op.MADVISE>>, <<"accept4", op.ACCEPT>>,
   <<"connect", op.CONNECT>>, <<"sendto", op.SEND>>, <<"recvfrom", op.RECV>>,
   <<"sendmsg", op.SENDMSG>>, <<"recvmsg", op.RECVMSG>>,
   <<"shutdown", op.SHUTDOWN>>, <<"splice", op.SPLICE>>, <<"tee", op.TEE>>,
   <<"epoll_ctl", op.EPOLL_CTL>>}

(* ... and those a worker thread serves on a kernel without the opcode. *)
tier1_fallback ==
  {<<"setxattr", op.SETXATTR>>, <<"getxattr", op.GETXATTR>>,
   <<"fsetxattr", op.FSETXATTR>>, <<"fgetxattr", op.FGETXATTR>>,
   <<"socket", op.SOCKET>>, <<"bind", op.BIND>>, <<"listen", op.LISTEN>>,
   <<"waitid", op.WAITID>>}

(* Tier 2: always a worker thread. *)
tier2_always ==
  {"dup", "dup2", "dup3", "fcntl", "ioctl", "lseek", "setsockopt",
   "getsockopt", "getsockname", "getpeername", "getdents64", "access",
   "faccessat", "fchmod", "fchmodat", "fchown", "fchownat", "utimensat",
   "flock", "readlinkat", "readlink", "pipe2", "getcwd", "getrandom"}

(* Old calls that are routed as their newer form. *)
legacy_to_at ==
  [open |-> "openat", rename |-> "renameat", unlink |-> "unlinkat",
   mkdir |-> "mkdirat", symlink |-> "symlinkat", link |-> "linkat",
   rmdir |-> "unlinkat", stat |-> "statx", fstat |-> "statx",
   lstat |-> "statx"]

LEGACY == [tier |-> "Legacy", opcode |-> 0]
worker == [tier |-> "WorkerPool", opcode |-> 0]
shared_page == [tier |-> "SharedPage", opcode |-> 0]
iouring(o) == [tier |-> "IoUring", opcode |-> o]

(* The probe's answer: the opcodes up to some number, nothing when the      *)
(* registration of the probe fails.                                         *)
all_opcodes == 0..80
kernel_6_8 == 0..op.FTRUNCATE
no_probe == {}

(* A candidate becomes Tier 1 when its opcode is supported, Tier 2 when it  *)
(* is not and a worker may serve it, and else keeps what it had.            *)
Candidates(supported, n, had) ==
  LET on(s) == {c \in s : c[1] = n}
      mine == on(tier1_only) \cup on(tier1_fallback)
  IN IF \E c \in mine : c[2] \in supported
     THEN iouring((CHOOSE c \in mine : c[2] \in supported)[2])
     ELSE IF on(tier1_fallback) # {} THEN worker ELSE had

(* ProbeRouter::new before the old calls are copied. *)
Table(supported, n) ==
  LET base == Candidates(supported, n,
                IF n \in tier0 THEN shared_page ELSE LEGACY)
  IN IF n \in tier2_always /\ base.tier = "Legacy" THEN worker ELSE base

(* SyscallRouter::route. *)
route(supported, n) ==
  Table(supported,
        IF n \in DOMAIN legacy_to_at THEN legacy_to_at[n] ELSE n)

================================================================================
