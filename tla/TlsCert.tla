------------------------------ MODULE TlsCert ------------------------------
(***************************************************************************)
(* The certificate that SMTP and POP3S share (internal/tlscert).  The      *)
(* manager looks for fullchain.pem and privkey.pem in the directories of   *)
(* the hostname and of its parent domains, at the start and then at every  *)
(* tick of the reload loop, while whoever renews the certificate writes or *)
(* removes the two files, one at a time.                                   *)
(***************************************************************************)
EXTENDS Integers, Sequences

CONSTANTS
    Candidates,     \* domainCandidates: directories, the hostname's own first
    Certificates,   \* [key, from, until, covers]: covers all hostnames or not
    Keys,
    MaxTime,        \* bound of the clock
    MaxWrites,      \* bound: writes and removals of files
    None            \* no file, no certificate

VARIABLES
    chain, key,     \* fullchain.pem and privkey.pem of each directory
    now,
    writes,
    current,        \* Manager.current: what handshakes are answered with
    loading         \* Reload or New: candidate number and what has been read

vars == <<chain, key, now, writes, current, loading>>

Directories == {Candidates[i] : i \in DOMAIN Candidates}

idle == [st |-> "idle", i |-> 1, chain |-> None]

Init ==
    /\ chain = [d \in Directories |-> None]
    /\ key = [d \in Directories |-> None]
    /\ now = 0
    /\ writes = 0
    /\ current = None
    /\ loading = idle

-----------------------------------------------------------------------------
(* Outside *)

\* The files are replaced one after the other, by rename; or removed.
WriteChain(d, c) ==
    /\ writes < MaxWrites
    /\ chain' = [chain EXCEPT ![d] = c]
    /\ writes' = writes + 1
    /\ UNCHANGED <<key, now, current, loading>>

WriteKey(d, k) ==
    /\ writes < MaxWrites
    /\ key' = [key EXCEPT ![d] = k]
    /\ writes' = writes + 1
    /\ UNCHANGED <<chain, now, current, loading>>

Tick ==
    /\ now < MaxTime
    /\ now' = now + 1
    /\ UNCHANGED <<chain, key, writes, current, loading>>

-----------------------------------------------------------------------------
(* The manager *)

\* tls.X509KeyPair
matches(c, k) == c.key = k

validNow(c) == c.from <= now /\ now < c.until

\* New, or a tick of RunReloadLoop: loadCertificate begins.
Load ==
    /\ loading.st \in {"idle", "failed"}
    /\ loading' = [idle EXCEPT !.st = "chain"]
    /\ UNCHANGED <<chain, key, now, writes, current>>

\* os.ErrNotExist: the next candidate, or none is left and loading fails.
nextCandidate ==
    IF loading.i < Len(Candidates)
    THEN [st |-> "chain", i |-> loading.i + 1, chain |-> None]
    ELSE idle

directory == Candidates[loading.i]

ReadChain ==
    /\ loading.st = "chain"
    /\ loading' = IF chain[directory] = None THEN nextCandidate
                  ELSE [loading EXCEPT !.st = "key", !.chain = chain[directory]]
    /\ UNCHANGED <<chain, key, now, writes, current>>

\* The checks of loadDirectory: the pair matches and covers every hostname.
loadable(c, k) == matches(c, k) /\ c.covers

\* Mutant: the directory alone is compared.
unchangedDirectory(next) == current # None /\ current.directory = next.directory

\* The hash of both files and the directory are those of the current one.
unchanged(next) == current # None /\ current = next

\* privkey.pem is missing, and so the whole directory.
ReadKeyMissing ==
    /\ loading.st = "key"
    /\ key[directory] = None
    /\ loading' = nextCandidate
    /\ UNCHANGED <<chain, key, now, writes, current>>

\* The key is read, and the rest of Reload or New: a pair that fails a check
\* ends it, whatever the other candidates have.  New takes a certificate that
\* is not valid at its time, Reload does not.
ReadKey ==
    /\ loading.st = "key"
    /\ key[directory] # None
    /\ loading' = idle
    /\ LET next == [certificate |-> loading.chain, key |-> key[directory],
                    directory |-> directory]
       IN  current' = IF /\ loadable(next.certificate, next.key)
                         /\ ~unchanged(next)
                         /\ current = None \/ validNow(next.certificate)
                      THEN next ELSE current
    /\ UNCHANGED <<chain, key, now, writes>>

\* A file cannot be read, for another reason than that it is missing.
ReadError ==
    /\ loading.st \in {"chain", "key"}
    /\ loading' = [idle EXCEPT !.st = "failed"]
    /\ UNCHANGED <<chain, key, now, writes, current>>

Next ==
    \/ \E d \in Directories, c \in Certificates \cup {None} : WriteChain(d, c)
    \/ \E d \in Directories, k \in Keys \cup {None} : WriteKey(d, k)
    \/ Tick
    \/ Load
    \/ ReadChain
    \/ ReadKeyMissing
    \/ ReadKey
    \/ ReadError

Spec == Init /\ [][Next]_vars

\* The reload loop runs until the program ends.  Before the first certificate
\* is loaded, systemd starts a program again whose New has failed.
Reload == Load \/ ReadChain \/ ReadKeyMissing \/ ReadKey

FairSpec == Spec /\ WF_vars(Reload)

-----------------------------------------------------------------------------
(* Properties *)

\* The candidate that has both files, and those files.
complete == {i \in DOMAIN Candidates : chain[Candidates[i]] # None /\ key[Candidates[i]] # None}

onDisk ==
    LET d == Candidates[CHOOSE i \in complete : \A j \in complete : i <= j]
    IN  [certificate |-> chain[d], key |-> key[d], directory |-> d]

\* Once the files are left alone and can be read, the pair in the first directory
\* that has one is served when it is valid: neither a reload that has met the files half
\* written, or has gone on to a parent domain's, nor a certificate that was
\* found before its time, stays for good.
NewestServed ==
    <>[](loading.st # "failed") =>
        <>[](complete # {} /\ onDisk.certificate.key = onDisk.key
                /\ onDisk.certificate.covers /\ validNow(onDisk.certificate)
             => current = onDisk)
=============================================================================
