---------------------------- MODULE VirtFsLocal ----------------------------
(***************************************************************************)
(* The "local" backend of virtio-9p (hw/virtio-9p-local.c): the file      *)
(* operations that create, re-own, rename and remove host files for the   *)
(* guest, under the three security models of -fsdev:                      *)
(*   mapped       the host file keeps QEMU's owner and fixed mode bits;   *)
(*                the guest's credentials live in user.virtfs.* xattrs;  *)
(*   passthrough  the host file gets the guest's mode and owner;          *)
(*   none         as passthrough, but a failing lchown is ignored.        *)
(* Every host system call of an operation may fail; the model chooses    *)
(* which one (f) fails first.  A create that fails after the file exists  *)
(* goes to err_end, which removes the file.                                *)
(*                                                                         *)
(* Data is abstracted to what lstat reports: an inode is a record of its  *)
(* kind, host owner and mode and its xattrs.  File contents, timestamps,  *)
(* the errno values and the pass-through calls (read, write, fsync,       *)
(* statfs, utimensat, truncate, the xattr calls of virtio-9p-xattr.c) are *)
(* left out.                                                               *)
(***************************************************************************)
EXTENDS Integers, SequencesExt, Bitwise

CONSTANTS
    Paths,              \* paths below the export root
    Creds,              \* FsCred values the 9p server passes (-1: unset)
    QemuUid, QemuGid,   \* the owner of files the QEMU process creates
    SM_LOCAL_MODE,      \* SM_LOCAL_MODE_BITS (0600)
    SM_LOCAL_DIR_MODE,  \* SM_LOCAL_DIR_MODE_BITS (0700)
    LinkMode            \* the mode symlink(2) gives (0777)

Models == {"mapped", "passthrough", "none"}
XFields == <<"uid", "gid", "mode", "rdev">>   \* the order local_set_xattr uses
NoXattr == -2
S_IFLNK == 16   \* the symlink type bit, above the abstract permission bits
Absent == [kind |-> "absent"]
OK == "ok"
XStep == [uid |-> "setxattr_uid", gid |-> "setxattr_gid",
          mode |-> "setxattr_mode", rdev |-> "setxattr_rdev"]
FailPoints == {"none", "create", "write", "chmod", "lchown", "remove",
               "rename"} \cup {XStep[k] : k \in DOMAIN XStep}
CreateOps == {"mknod", "mkdir", "open2", "symlink"}

VARIABLES
    fs_sm,  \* fs_ctx->fs_sm, fixed when the device is set up
    ino,    \* ino[p]: the host inode at p, or Absent
    last    \* the operation last run and what it returned

vars == <<fs_sm, ino, last>>

NewInode(k, m) ==
    [kind |-> k, uid |-> QemuUid, gid |-> QemuGid, mode |-> m,
     x |-> [k2 \in {"uid", "gid", "mode", "rdev"} |-> NoXattr]]

\* chmod(path, fc_mode & 07777), with the abstract modes below 07777
ModeBits(m) == IF m = -1 THEN 4095 ELSE m

-----------------------------------------------------------------------------
(* Host system calls on a result r = [fs, err]: once err is set, later    *)
(* calls do not run; the call named f fails and sets err.                 *)

Run(r, name, f, new) ==
    IF r.err # OK THEN r
    ELSE IF f = name THEN [r EXCEPT !.err = name]
    ELSE [r EXCEPT !.fs = new]

\* mknod/mkdir/open(O_CREAT)/symlink: EEXIST on an existing path, except
\* open without O_EXCL, which opens the existing file
HostCreate(r, p, inode, excl, f) ==
    IF r.err = OK /\ r.fs[p] # Absent
    THEN IF excl THEN [r EXCEPT !.err = "EEXIST"] ELSE Run(r, "create", f, r.fs)
    ELSE Run(r, "create", f, [r.fs EXCEPT ![p] = inode])

HostChmod(r, p, m, f) == Run(r, "chmod", f, [r.fs EXCEPT ![p].mode = ModeBits(m)])

\* lchown: -1 leaves that id alone
HostLchown(r, p, u, g, f) ==
    Run(r, "lchown", f, [r.fs EXCEPT ![p].uid = IF u = -1 THEN @ ELSE u,
                                     ![p].gid = IF g = -1 THEN @ ELSE g])

\* mutant: every field is written, -1 included
SetXattrAll(r, p, c, f) ==
    LET step(acc, k) == Run(acc, XStep[k], f, [acc.fs EXCEPT ![p].x[k] = c[k]])
    IN  FoldLeft(step, r, XFields)

\* local_set_xattr: user.virtfs.uid, gid, mode, rdev in turn, each only if
\* the credential is not -1; the first setxattr that fails ends it, and the
\* ones before it stay written
SetXattr(r, p, c, f) ==
    LET step(acc, k) ==
            IF c[k] = -1 THEN acc
            ELSE Run(acc, XStep[k], f, [acc.fs EXCEPT ![p].x[k] = c[k]])
    IN  FoldLeft(step, r, XFields)

\* local_post_create_passthrough: chmod, then lchown, whose failure is
\* ignored under security model none
PostCreatePassthrough(r, p, c, f) ==
    LET r1 == HostChmod(r, p, c.mode, f)
        r2 == HostLchown(r1, p, c.uid, c.gid, f)
    IN  IF r1.err = OK /\ r2.err # OK /\ fs_sm = "none"
        THEN [r2 EXCEPT !.err = OK] ELSE r2

\* mutant: err_end returns the error without removing the file
ErrEndNoRemove(r, p) == r

\* err_end: remove(rpath(path)); errno = serrno; return err
ErrEnd(r, p) == [r EXCEPT !.fs[p] = Absent]

-----------------------------------------------------------------------------
(* The operations.                                                         *)

Return(op, p, c, r) ==
    /\ ino' = r.fs
    /\ last' = [op |-> op, path |-> p, cred |-> c, rc |-> IF r.err = OK THEN 0 ELSE -1]
    /\ UNCHANGED fs_sm

\* the shape shared by the creates: a failed create step returns at once,
\* a failure after it goes to err_end
CreateResult(op, p, c, r1, r2) ==
    Return(op, p, c, IF r1.err # OK THEN r1
                     ELSE IF r2.err # OK THEN ErrEnd(r2, p) ELSE r2)

Start == [fs |-> ino, err |-> OK]

\* local_mknod.  Mapped: the result of local_set_xattr is dropped (the
\* test that follows reads err of mknod), so the call returns 0 whatever
\* setxattr did.
LocalMknod(p, c, f) ==
    IF fs_sm = "mapped"
    THEN LET r1 == HostCreate(Start, p, NewInode("reg", SM_LOCAL_MODE), TRUE, f)
             r2 == SetXattr(r1, p, c, f)
         IN  Return("mknod", p, c, IF r1.err # OK THEN r1 ELSE [r2 EXCEPT !.err = OK])
    ELSE LET r1 == HostCreate(Start, p, NewInode("node", ModeBits(c.mode)), TRUE, f)
         IN  CreateResult("mknod", p, c, r1, PostCreatePassthrough(r1, p, c, f))

\* local_mkdir
LocalMkdir(p, c, f) ==
    IF fs_sm = "mapped"
    THEN LET r1 == HostCreate(Start, p, NewInode("dir", SM_LOCAL_DIR_MODE), TRUE, f)
         IN  CreateResult("mkdir", p, c, r1, SetXattr(r1, p, c, f))
    ELSE LET r1 == HostCreate(Start, p, NewInode("dir", ModeBits(c.mode)), TRUE, f)
         IN  CreateResult("mkdir", p, c, r1, PostCreatePassthrough(r1, p, c, f))

\* local_open2 with the client's flags (O_CREAT, with or without O_EXCL)
LocalOpen2(p, c, excl, f) ==
    IF fs_sm = "mapped"
    THEN LET r1 == HostCreate(Start, p, NewInode("reg", SM_LOCAL_MODE), excl, f)
         IN  CreateResult("open2", p, c, r1, SetXattr(r1, p, c, f))
    ELSE LET r1 == HostCreate(Start, p, NewInode("reg", ModeBits(c.mode)), excl, f)
         IN  CreateResult("open2", p, c, r1, PostCreatePassthrough(r1, p, c, f))

\* fc_mode | S_IFLNK (-1, "unset", stays -1)
LinkCred(c) == [c EXCEPT !.mode = IF @ = -1 THEN -1 ELSE @ | S_IFLNK]

\* local_symlink.  Mapped: a regular file holding the target, then the
\* xattrs with S_IFLNK added to the mode; a short write goes to err_end.  Otherwise symlink(2) and lchown,
\* whose failure is ignored under none.
LocalSymlink(p, c, f) ==
    IF fs_sm = "mapped"
    THEN LET r1 == HostCreate(Start, p, NewInode("reg", SM_LOCAL_MODE), TRUE, f)
             r2 == Run(r1, "write", f, r1.fs)
         IN  CreateResult("symlink", p, c, r1, SetXattr(r2, p, LinkCred(c), f))
    ELSE LET r1 == HostCreate(Start, p, NewInode("lnk", LinkMode), TRUE, f)
             r2 == HostLchown(r1, p, c.uid, c.gid, f)
         IN  CreateResult("symlink", p, c, r1,
                          IF r2.err # OK /\ fs_sm = "none" THEN [r2 EXCEPT !.err = OK]
                                                          ELSE r2)

\* a call on a missing path fails with ENOENT and changes nothing
OnExisting(p, r) == IF ino[p] = Absent THEN [Start EXCEPT !.err = "ENOENT"] ELSE r

\* mutant: chmod goes to the host file whatever the security model
LocalChmodHost(p, c, f) ==
    Return("chmod", p, c, OnExisting(p, HostChmod(Start, p, c.mode, f)))

\* local_chmod
LocalChmod(p, c, f) ==
    Return("chmod", p, c,
           OnExisting(p, IF fs_sm = "mapped" THEN SetXattr(Start, p, c, f)
                                             ELSE HostChmod(Start, p, c.mode, f)))

\* local_chown: lchown when both ids are -1 or under passthrough, the
\* xattrs under mapped, lchown under none
LocalChown(p, c, f) ==
    Return("chown", p, c,
           OnExisting(p, IF (c.uid = -1 /\ c.gid = -1) \/ fs_sm = "passthrough"
                         THEN HostLchown(Start, p, c.uid, c.gid, f)
                         ELSE IF fs_sm = "mapped" THEN SetXattr(Start, p, c, f)
                         ELSE HostLchown(Start, p, c.uid, c.gid, f)))

\* local_remove
LocalRemove(p, c, f) ==
    Return("remove", p, c, OnExisting(p, Run(Start, "remove", f, [ino EXCEPT ![p] = Absent])))

\* local_rename: the inode moves to q, replacing what was there
LocalRename(p, q, c, f) ==
    Return("rename", p, c,
           OnExisting(p, Run(Start, "rename", f,
                             IF p = q THEN ino ELSE [ino EXCEPT ![q] = ino[p], ![p] = Absent])))

\* local_lstat: the host stat, with uid, gid and mode replaced by the
\* user.virtfs.* xattrs that getxattr finds under mapped
Lstat(fs, p) ==
    LET i == fs[p]
        pick(k) == IF fs_sm = "mapped" /\ i.x[k] # NoXattr THEN i.x[k] ELSE i[k]
    IN  [uid |-> pick("uid"), gid |-> pick("gid"), mode |-> pick("mode")]

-----------------------------------------------------------------------------
(* The export starts empty; the security model is chosen at start-up.      *)
Init ==
    /\ fs_sm \in Models
    /\ ino = [p \in Paths |-> Absent]
    /\ last = [op |-> "none", path |-> CHOOSE p \in Paths : TRUE,
               cred |-> CHOOSE c \in Creds : TRUE, rc |-> 0]

Next ==
    \E p \in Paths, c \in Creds, f \in FailPoints :
        \/ LocalMknod(p, c, f)
        \/ LocalMkdir(p, c, f)
        \/ \E excl \in BOOLEAN : LocalOpen2(p, c, excl, f)
        \/ LocalSymlink(p, c, f)
        \/ LocalChmod(p, c, f)
        \/ LocalChown(p, c, f)
        \/ LocalRemove(p, c, f)
        \/ \E q \in Paths : LocalRename(p, q, c, f)

Spec == Init /\ [][Next]_vars

\* last is history written by every step and read only in its primed form
\* by the action properties, so states that differ only in it have the
\* same futures.  A TLC VIEW.
StateView == <<fs_sm, ino>>

-----------------------------------------------------------------------------
CredValues == (UNION {{c[k] : k \in {"uid", "gid", "mode", "rdev"}} : c \in Creds}
               \cup {LinkCred(c).mode : c \in Creds}) \ {-1}

\* Every inode has the fields of the host's stat and xattrs; an xattr is
\* either absent or a credential the server passed (never the -1 that
\* means "unset").
TypeOK ==
    /\ fs_sm \in Models
    /\ \A p \in Paths :
         \/ ino[p] = Absent
         \/ /\ ino[p].kind \in {"reg", "dir", "lnk", "node"}
            /\ ino[p].x \in [{"uid", "gid", "mode", "rdev"} -> CredValues \cup {NoXattr}]
    /\ last.rc \in {0, -1}

\* A create (mknod, mkdir, open2, symlink) that fails on a path that did not
\* exist leaves no file behind, whichever host call failed: err_end removes
\* what the first call made.
FailedCreateLeavesNoTrace ==
    [][last'.op \in CreateOps /\ last'.rc = -1 /\ ino[last'.path] = Absent
         => ino'[last'.path] = Absent]_vars

\* Under mapped, the host never sees the guest's credentials: every file
\* QEMU made keeps QEMU's owner and SM_LOCAL_*_MODE_BITS, through chmod,
\* chown and rename, so a guest cannot make a host file setuid or hand it
\* to another host user.
MappedHostAttrsFixed ==
    fs_sm = "mapped" =>
        \A p \in Paths : ino[p] # Absent =>
            /\ ino[p].uid = QemuUid /\ ino[p].gid = QemuGid
            /\ ino[p].mode \in {SM_LOCAL_MODE, SM_LOCAL_DIR_MODE}

\* A create that returns success leaves the path owned, as lstat reports
\* it, by the uid and gid the server asked for (security models mapped and
\* passthrough; none tolerates a failed lchown by design).
CreateReportsCredentials ==
    [][last'.op \in CreateOps /\ last'.rc = 0 /\ fs_sm # "none" =>
         LET st == Lstat(ino', last'.path)
             c == last'.cred
         IN  /\ c.uid # -1 => st.uid = c.uid
             /\ c.gid # -1 => st.gid = c.gid]_vars
=============================================================================
