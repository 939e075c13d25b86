------------------------------ MODULE UserData ------------------------------
(***************************************************************************)
(* What the provider does to the bootstrap payload of a machine before it  *)
(* hands it to Xen Orchestra: SSH keys of the XO user are merged in, and   *)
(* the kube-vip scripts are put around the kubeadm command.                *)
(*                                                                         *)
(* A payload is the parsed document.  Text that does not parse, text that  *)
(* is only a comment and no text at all are kinds of their own, because    *)
(* the code treats each of them differently.                               *)
(***************************************************************************)
EXTENDS SequencesExt

Kinds == {"empty", "comment", "broken", "map"}

\* runcmd: whether the document has such a list; cmds: its commands, "kubeadm" a
\* string that runs kubeadm init or join, "argv" one written as a list; files:
\* the kube-vip scripts among its write_files.
Document(kind, keys, runcmd, cmds) ==
    [kind |-> kind, keys |-> keys, runcmd |-> runcmd, cmds |-> cmds, files |-> {}]

IsList(s) == s \in Seq(ToSet(s))

\* A payload a machine may be given: only a map has keys or commands.
IsDocument(doc) ==
    /\ doc = Document(doc.kind, doc.keys, doc.runcmd, doc.cmds)
    /\ doc.kind \in Kinds /\ doc.runcmd \in {"none", "list"}
    /\ IsList(doc.keys) /\ IsList(doc.cmds)
    /\ doc.kind # "map" => doc.keys = <<>> /\ doc.runcmd = "none"
    /\ doc.runcmd = "none" => doc.cmds = <<>>

NoDocument == Document("empty", <<>>, "none", <<>>)

\* What a function answers instead of a document: an error, or a write to a nil
\* map, whose panic ends the reconcile.
Error == Document("error", <<>>, "none", <<>>)
Panic == Document("panic", <<>>, "none", <<>>)

\* Variant: what is there already is not looked at.
AppendAll(seq, more) == seq \o more

\* seq followed by the members of more it lacks, each once.
AppendNew(seq, more) == FoldLeft(LAMBDA acc, x : IF Contains(acc, x) THEN acc ELSE Append(acc, x), seq, more)

MergeSSHKeys(doc, sshKeys) ==
    IF sshKeys = <<>> THEN doc
    ELSE IF doc.kind = "broken" THEN Error
    ELSE [doc EXCEPT !.kind = "map", !.keys = AppendNew(doc.keys, sshKeys)]

\* An empty payload becomes a document of nothing but the keys.
BuildCloudInit(doc, inject, sshKeys) ==
    IF ~inject THEN doc
    ELSE IF doc.kind = "empty" THEN Document("map", sshKeys, "none", <<>>)
    ELSE MergeSSHKeys(doc, sshKeys)

\* Variant: around the last kubeadm command.
AroundLast(cmds) ==
    LET i == SelectLastInSeq(cmds, LAMBDA c : c = "kubeadm")
    IN SubSeq(cmds, 1, i - 1) \o <<"pre", cmds[i], "post">> \o SubSeq(cmds, i + 1, Len(cmds))

\* Around the first command that is a string and runs kubeadm.
InjectAroundKubeadm(cmds) ==
    LET i == SelectInSeq(cmds, LAMBDA c : c = "kubeadm")
    IN SubSeq(cmds, 1, i - 1) \o <<"pre", cmds[i], "post">> \o SubSeq(cmds, i + 1, Len(cmds))

\* Variant: a document of comments is marshalled as the nil map it parses to.
InjectNull(doc) ==
    IF doc.kind = "comment" THEN Document("null", <<>>, "none", <<>>)
    ELSE IF doc.kind = "map" /\ Contains(doc.cmds, "kubeadm")
    THEN [doc EXCEPT !.cmds = InjectAroundKubeadm(doc.cmds), !.files = {"pre", "post"}]
    ELSE IF doc.kind = "empty" THEN doc ELSE Error

Inject(doc) ==
    CASE doc.kind = "empty"   -> doc
      [] doc.kind = "broken"  -> Error
      [] doc.kind = "comment" -> Panic
      [] doc.kind = "map"     ->
            IF doc.runcmd = "none" \/ ~Contains(doc.cmds, "kubeadm") THEN Error
            ELSE [doc EXCEPT !.cmds = InjectAroundKubeadm(doc.cmds), !.files = {"pre", "post"}]

=============================================================================
