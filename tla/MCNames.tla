------------------------------- MODULE MCNames --------------------------------
EXTENDS Names

CONSTANTS a, b, ENV, star

WrittenNames == {a, b, ENV}
Writable(names) == [name : names, readonly : {FALSE}]
Readonly(names) == [name : names, readonly : {TRUE}]
AsLocal == Writable({a, ENV}) \cup Readonly({a})
AsGlobal == Writable({b, star, ENV}) \cup Readonly({star})
===============================================================================
