--------------------------- MODULE MCSnapshotter ---------------------------
(* Instances of Snapshotter for TLC: what the clients ask for.             *)
EXTENDS Snapshotter, TLC

CONSTANTS x, a, b, c, d, v, w    \* keys
CONSTANTS p1, i1, c1, p2, i2, c2 \* docker: <c>-init-key, <c>-init and <c>
CONSTANTS r1, r2                 \* calls of Mounts

Ask(key, parent, flavor, name) ==
    [key |-> key, parent |-> parent, flavor |-> flavor, name |-> name]

\* An image of up to two layers: the lower one is pulled from a registry or made
\* in a writable snapshot, the upper one is pulled, unpacked or made so. And a
\* docker container of the image.
ImageKeys == {x, a, b, w, p1, i1, c1}
ImageRequests ==
    {Ask(x, None, "remote", a), Ask(x, a, "remote", b),
     Ask(x, a, "layer", b),
     Ask(w, a, "rw", b), Ask(w, None, "rw", a),
     Ask(p1, a, "rootfs", a), Ask(c1, i1, "rootfs", a)}
ImageNames == {<<x, b>>, <<w, a>>, <<w, b>>, <<p1, i1>>}
Extracted == {x}
Nothing == {}

\* Containers and views of a one-layer image.
RuntimeKeys == {x, a, c, d, v}
RuntimeRequests ==
    {Ask(x, None, "remote", a), Ask(c, a, "rootfs", a), Ask(d, a, "rootfs", a),
     Ask(v, a, "view", a)}

\* A view of the image beside a snapshot whose writable device is stacked on it
\* and which becomes a layer.
WritableKeys == {x, a, b, w, v}
WritableRequests ==
    {Ask(x, None, "remote", a), Ask(w, a, "rw", a), Ask(v, a, "view", a)}
WritableNames == {<<w, b>>}

\* Two docker containers of a one-layer image.
DockerKeys == {x, a, p1, i1, c1, p2, i2, c2}
DockerRequests ==
    {Ask(x, None, "remote", a),
     Ask(p1, a, "rootfs", a), Ask(c1, i1, "rootfs", a),
     Ask(p2, a, "rootfs", a), Ask(c2, i2, "rootfs", a)}
DockerCommits == {<<p1, i1>>, <<p2, i2>>}
DockerInitKeys == {p1, i1, p2, i2}
DockerInitNames == {i1, i2}

TwoReaders == {r1, r2}
OneReader == {r1}

\* The calls of Mounts are alike, and so are the two containers.
RuntimeSymmetry == Permutations(TwoReaders) \cup Permutations({c, d})

NoFaults == {}
=============================================================================
