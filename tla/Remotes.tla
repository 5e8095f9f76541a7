------------------------------- MODULE Remotes -------------------------------
(***************************************************************************)
(* The remotes of a user: remotes.yaml, which every command loads and which *)
(* the `remote` commands change and save as a whole, several of them at a   *)
(* time and without a lock.  All of them write the same temporary file      *)
(* before they rename it, so that one may rename what another is writing or *)
(* write over what it wrote; files are therefore modelled by their inodes.  *)
(* `remote add` enrolls with the server between its load and its save.      *)
(***************************************************************************)
EXTENDS Naturals

CONSTANTS
    Procs,     \* commands that run at the same time
    Names,     \* names of remotes
    Servers,
    Local,     \* the name LOCAL
    None,
    Inodes,    \* the inodes that remotes.yaml and its temporary file may have
    MaxTokens  \* bound: tokens handed out by each server

VARIABLES
    content,   \* inode -> what its text says (None: it does not parse), what each remote is
               \* in the texts written since it was emptied, and whether one was cut short
    yaml, tmp, \* the inodes of remotes.yaml and of its temporary file, None: no file
    proc,      \* what each command does
    tokens,    \* server -> tokens not spent
    minted,    \* server -> tokens handed out
    trusted,   \* servers that trust the user's certificate
    ever,      \* ghost: servers that ever did
    overlapped, \* ghost: a command began to save while another did
    exposed    \* ghost: a text that was cut short has been remotes.yaml

server == <<tokens, minted, trusted, ever>>
ghosts == <<overlapped, exposed>>
vars == <<content, yaml, tmp, proc, server, ghosts>>

Empty == [remotes |-> [n \in Names |-> None], default |-> Local]
Idle == [at |-> "idle"]
Set(p, r) == proc' = [proc EXCEPT ![p] = r]

\* A file without text.
Blank == [cfg |-> Empty, texts |-> [n \in Names |-> {}], cut |-> FALSE]

\* RemoteConfig::load: no file, or one without text, is an empty configuration.  None:
\* the text does not parse, and every command that loads it fails.
load == IF yaml = None THEN Empty ELSE content[yaml].cfg
Loads == load # None

\* Where a command goes that names no remote; None: refused, for want of that remote.
selected_remote == IF load.default = Local THEN Local ELSE load.remotes[load.default]

-----------------------------------------------------------------------------
(* The commands, from the load to the changed configuration.               *)

Save(p, cfg) == Set(p, [at |-> "save", cfg |-> cfg])

\* Mutant: the default is left alone.
MutRemove(p, n) ==
    /\ proc[p] = Idle /\ Loads /\ load.remotes[n] # None
    /\ Save(p, [load EXCEPT !.remotes[n] = None])
    /\ UNCHANGED <<content, yaml, tmp, server, ghosts>>

Remove(p, n) ==
    /\ proc[p] = Idle /\ Loads /\ load.remotes[n] # None
    /\ Save(p, [remotes |-> [load.remotes EXCEPT ![n] = None],
                default |-> IF load.default = n THEN Local ELSE load.default])
    /\ UNCHANGED <<content, yaml, tmp, server, ghosts>>

Rename(p, old, new) ==
    /\ proc[p] = Idle /\ Loads /\ load.remotes[new] = None /\ load.remotes[old] # None
    /\ Save(p, [remotes |-> [load.remotes EXCEPT ![new] = load.remotes[old], ![old] = None],
                default |-> IF load.default = old THEN new ELSE load.default])
    /\ UNCHANGED <<content, yaml, tmp, server, ghosts>>

Switch(p, n) ==
    /\ proc[p] = Idle /\ Loads /\ (n # Local => load.remotes[n] # None)
    /\ Save(p, [load EXCEPT !.default = n])
    /\ UNCHANGED <<content, yaml, tmp, server, ghosts>>

Add(p, n, s) ==
    /\ proc[p] = Idle /\ Loads /\ load.remotes[n] = None
    /\ Set(p, [at |-> "enroll", name |-> n, srv |-> s, cfg |-> load])
    /\ UNCHANGED <<content, yaml, tmp, server, ghosts>>

\* enroll: the server takes the token and the certificate, unless it has the
\* certificate.  answered: the client learns of it.
Enroll(p, answered) ==
    /\ proc[p].at = "enroll"
    /\ LET s == proc[p].srv IN
       IF tokens[s] = 0 \/ s \in trusted THEN Set(p, Idle) /\ UNCHANGED server
       ELSE /\ tokens' = [tokens EXCEPT ![s] = @ - 1]
            /\ trusted' = trusted \cup {s} /\ ever' = ever \cup {s}
            /\ Set(p, IF answered THEN [proc[p] EXCEPT !.at = "info"] ELSE Idle)
            /\ UNCHANGED minted
    /\ UNCHANGED <<content, yaml, tmp, ghosts>>

\* server_info: the server must call this client trusted.
ServerInfo(p) ==
    /\ proc[p].at = "info"
    /\ IF proc[p].srv \in trusted
         THEN Save(p, [proc[p].cfg EXCEPT !.remotes[proc[p].name] = proc[p].srv])
         ELSE Set(p, Idle)
    /\ UNCHANGED <<content, yaml, tmp, server, ghosts>>

-----------------------------------------------------------------------------
(* RemoteConfig::save: write and rename of the temporary file.             *)

\* Inodes that are no file, also not one that was replaced and is still written to.
Unused == {j \in Inodes : j # yaml /\ \A q \in Procs : proc[q].at = "write" => proc[q].inode # j}

\* The file is made, or the one that is there is emptied.
Create(p) ==
    /\ proc[p].at = "save" /\ (tmp = None => Unused # {})
    /\ LET i == IF tmp # None THEN tmp ELSE CHOOSE j \in Unused : TRUE
       IN /\ content' = [content EXCEPT ![i] = Blank]
          /\ tmp' = i
          /\ Set(p, [at |-> "write", cfg |-> proc[p].cfg, inode |-> i])
    /\ overlapped' = (overlapped \/ \E q \in Procs : proc[q].at \in {"write", "rename"})
    /\ UNCHANGED <<yaml, server, exposed>>

\* What a file says once cfg is written over earlier texts, from the start: the end of a
\* longer one may remain.  That does not parse, or it is some more remotes.
Overlaid(cfg, texts) ==
    {c \in [remotes : [Names -> Servers \cup {None}], default : {cfg.default}] :
        \A n \in Names : IF cfg.remotes[n] # None THEN c.remotes[n] = cfg.remotes[n]
                         ELSE c.remotes[n] \in texts[n] \cup {None}}
    \cup {c \in {None} : \E n \in Names : texts[n] # {}}

\* i holds text, after proc[p].cfg was written to it.  Nobody can read what is no file any
\* more, and earlier texts matter while another command is about to write over them.
Wrote(p, i, text, cut) ==
    LET shared == \E q \in Procs \ {p} : proc[q].at = "write" /\ proc[q].inode = i
    IN content' = IF i \notin {yaml, tmp} THEN content
                  ELSE [content EXCEPT ![i] =
                          [cfg |-> text,
                           texts |-> [n \in Names |-> IF shared
                                        THEN @.texts[n] \cup {proc[p].cfg.remotes[n]} ELSE {}],
                           cut |-> @.cut \/ cut]]

Write(p) ==
    /\ proc[p].at = "write"
    /\ \E text \in Overlaid(proc[p].cfg, content[proc[p].inode].texts) :
          Wrote(p, proc[p].inode, text, FALSE)
    /\ Set(p, [at |-> "rename"])
    /\ UNCHANGED <<yaml, tmp, server, ghosts>>

\* The write fails half-way, or the command is interrupted in it.  What is left may
\* parse, with remotes or a default that no command chose: the model does not follow
\* a command that reads it, and RemotesSound promises nothing of one.
WriteCut(p) ==
    /\ proc[p].at = "write" /\ Wrote(p, proc[p].inode, None, TRUE)
    /\ exposed' = (exposed \/ proc[p].inode = yaml)
    /\ Set(p, Idle)
    /\ UNCHANGED <<yaml, tmp, server, overlapped>>

\* There may be no temporary file any more: an error.  The file that was there
\* before is gone.
RenameTmp(p) ==
    /\ proc[p].at = "rename"
    /\ IF tmp = None THEN UNCHANGED <<content, yaml, tmp, exposed>>
       ELSE /\ yaml' = tmp /\ tmp' = None
            /\ content' = [i \in Inodes |-> IF i = yaml THEN Blank ELSE content[i]]
            /\ exposed' = (exposed \/ content[tmp].cut)
    /\ Set(p, Idle)
    /\ UNCHANGED <<server, overlapped>>

\* A command is interrupted.
Killed(p) ==
    /\ proc[p] # Idle /\ Set(p, Idle)
    /\ UNCHANGED <<content, yaml, tmp, server, ghosts>>

-----------------------------------------------------------------------------
(* The administrator of a server.                                          *)

Token(s) ==
    /\ minted[s] < MaxTokens
    /\ minted' = [minted EXCEPT ![s] = @ + 1] /\ tokens' = [tokens EXCEPT ![s] = @ + 1]
    /\ UNCHANGED <<content, yaml, tmp, proc, trusted, ever, ghosts>>

Untrust(s) ==
    /\ s \in trusted /\ trusted' = trusted \ {s}
    /\ UNCHANGED <<content, yaml, tmp, proc, tokens, minted, ever, ghosts>>

-----------------------------------------------------------------------------

Init ==
    /\ content = [i \in Inodes |-> Blank] /\ yaml = None /\ tmp = None
    /\ proc = [p \in Procs |-> Idle]
    /\ tokens = [s \in Servers |-> 0] /\ minted = tokens
    /\ trusted = {} /\ ever = {}
    /\ overlapped = FALSE /\ exposed = FALSE

Next ==
    \/ \E p \in Procs :
         \/ \E n \in Names : Remove(p, n) \/ \E m \in Names : Rename(p, n, m)
         \/ \E n \in Names \cup {Local} : Switch(p, n)
         \/ \E n \in Names, s \in Servers : Add(p, n, s)
         \/ \E answered \in BOOLEAN : Enroll(p, answered)
         \/ ServerInfo(p) \/ Create(p) \/ Write(p) \/ WriteCut(p) \/ RenameTmp(p) \/ Killed(p)
    \/ \E s \in Servers : Token(s) \/ Untrust(s)

Spec == Init /\ [][Next]_vars

-----------------------------------------------------------------------------
(* Correctness.                                                            *)

\* Commands that save one after the other never leave a file that cannot be loaded or
\* that was cut short, whichever of them fails or is interrupted.  However they
\* interleave, a file that can be loaded, and in which no write was cut short, names a
\* default that it has, and remotes that have trusted this client: `remote list` and the
\* commands that go to the default remote never meet a name that is not there.  That
\* two commands at the same time may leave a file that no command can load is what
\* the code does, and the first two conjuncts say that it takes two.
RemotesSound ==
    /\ ~Loads => overlapped
    /\ exposed => overlapped
    /\ Loads /\ ~exposed =>
          /\ selected_remote # None
          /\ \A n \in Names : load.remotes[n] \in ever \cup {None}
=============================================================================
